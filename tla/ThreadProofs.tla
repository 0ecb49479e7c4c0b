---------------------------- MODULE ThreadProofs ----------------------------
(****************************************************************************)
(* More about Scheduler, on top of the invariant of SchedulerProofs: the    *)
(* lists as sequences, round robin, semaphores, stacks and zombies, and     *)
(* that the package implements Sync.                                        *)
(****************************************************************************)
EXTENDS SchedulerProofs, SchedulerSync, SequenceTheorems, FiniteSetTheorems,
        Arithmetic

-----------------------------------------------------------------------------
(* Walk, told from the sequence it returns: Q has every thread of the list, *)
(* each linked to the one behind it.                                        *)
Chain(l, nx, Q) ==
  /\ Q \in Seq(Threads) /\ Len(Q) <= Cardinality(Threads)
  /\ l.head = IF Q = <<>> THEN NULL ELSE Q[1]
  /\ \A i \in 1..Len(Q) : nx[Q[i]] = IF i = Len(Q) THEN NULL ELSE Q[i + 1]

Steps == 0 .. Cardinality(Threads) + 1

Prefix(Q, k) == SubSeq(Q, 1, IF k <= Len(Q) THEN k ELSE Len(Q))

LEMMA ThreadCount == Cardinality(Threads) \in Nat
  BY ConstantsAssumption, FS_CardinalityType

LEMMA WalkIs ==
  ASSUME NEW l, NEW nx, NEW walk,
         walk = CHOOSE f : f = [k \in Steps |->
           IF k = 0 THEN <<>> ELSE Follow(l, nx, f[k - 1])]
  PROVE  Walk(l, nx) = walk[Cardinality(Threads) + 1]
  BY DEF Walk, Steps

(* One step from a prefix of the list leads to the next one.                *)
LEMMA FollowPrefix ==
  ASSUME NEW l, NEW nx, NEW Q, Chain(l, nx, Q), NEW j \in Nat
  PROVE  Follow(l, nx, Prefix(Q, j)) = Prefix(Q, j + 1)
<1>1. /\ Q \in Seq(Threads) /\ Len(Q) \in Nat
      /\ \A i \in 1..Len(Q) : Q[i] \in Threads
      /\ NULL \notin Threads
  BY ElementOfSeq, LenProperties, ConstantsAssumption DEF Chain
<1>2. CASE j < Len(Q)
  <2> DEFINE P == SubSeq(Q, 1, j)
  <2>1. /\ Prefix(Q, j) = P /\ Prefix(Q, j + 1) = SubSeq(Q, 1, j + 1)
        /\ j + 1 \in 1..Len(Q) /\ Q[j + 1] \in Threads /\ Q[j + 1] # NULL
    BY <1>1, <1>2 DEF Prefix
  <2>2. /\ P \in Seq(Threads) /\ Len(P) = j /\ \A i \in 1..j : P[i] = Q[i]
    <3>1. \A i \in 1..j : Q[i] \in Threads
      BY <1>1, <1>2
    <3>2. /\ P \in Seq(Threads)
          /\ Len(P) = IF 1 <= j THEN j - 1 + 1 ELSE 0
          /\ \A i \in 1 .. j - 1 + 1 : P[i] = Q[1 + i - 1]
      BY <3>1, SubSeqProperties, 1 \in Int, j \in Int
    <3>3. QED
      BY <3>2
  <2>3. /\ SubSeq(Q, 1, j + 1) \in Seq(Threads)
        /\ Len(SubSeq(Q, 1, j + 1)) = j + 1
        /\ \A i \in 1..(j + 1) : SubSeq(Q, 1, j + 1)[i] = Q[i]
    <3>1. \A i \in 1..(j + 1) : Q[i] \in Threads
      BY <1>1, <1>2
    <3>2. /\ SubSeq(Q, 1, j + 1) \in Seq(Threads)
          /\ Len(SubSeq(Q, 1, j + 1)) = IF 1 <= j + 1 THEN j + 1 - 1 + 1 ELSE 0
          /\ \A i \in 1 .. j + 1 - 1 + 1 : SubSeq(Q, 1, j + 1)[i] = Q[1 + i - 1]
      BY <3>1, SubSeqProperties, 1 \in Int, j + 1 \in Int
    <3>3. QED
      BY <3>2
  <2>4. /\ Append(P, Q[j + 1]) \in Seq(Threads)
        /\ Len(Append(P, Q[j + 1])) = j + 1
        /\ \A i \in 1..j : Append(P, Q[j + 1])[i] = Q[i]
        /\ Append(P, Q[j + 1])[j + 1] = Q[j + 1]
    BY <2>1, <2>2, AppendProperties
  <2>5. Append(P, Q[j + 1]) = SubSeq(Q, 1, j + 1)
    <3>1. \A i \in 1..(j + 1) : Append(P, Q[j + 1])[i] = SubSeq(Q, 1, j + 1)[i]
      BY <2>3, <2>4
    <3>2. QED
      BY <2>3, <2>4, <3>1, SeqEqual
  <2>6. (IF P = <<>> THEN l.head ELSE nx[P[Len(P)]]) = Q[j + 1]
    <3>1. CASE j = 0
      <4>1. P = <<>> /\ Q # <<>>
        BY <1>2, <2>2, <3>1, EmptySeq
      <4>2. QED
        BY <3>1, <4>1 DEF Chain
    <3>2. CASE j # 0
      <4>1. P # <<>> /\ P[Len(P)] = Q[j] /\ j \in 1..Len(Q) /\ j # Len(Q)
        BY <1>1, <1>2, <2>2, <3>2, EmptySeq
      <4>2. QED
        BY <4>1 DEF Chain
    <3>3. QED
      BY <3>1, <3>2
  <2>7. Follow(l, nx, P) = Append(P, Q[j + 1])
    <3> HIDE DEF P
    <3>1. QED
      BY <2>1, <2>6 DEF Follow
  <2>8. QED
    BY <2>1, <2>5, <2>7
<1>3. CASE j >= Len(Q)
  <2>1. Prefix(Q, j) = Q /\ Prefix(Q, j + 1) = Q
    BY <1>1, <1>3, SubSeqFull DEF Prefix
  <2>2. (IF Q = <<>> THEN l.head ELSE nx[Q[Len(Q)]]) = NULL
    <3>1. CASE Q = <<>>
      BY <3>1 DEF Chain
    <3>2. CASE Q # <<>>
      <4>1. Len(Q) \in 1..Len(Q)
        BY <1>1, <3>2, EmptySeq
      <4>2. QED
        BY <3>2, <4>1 DEF Chain
    <3>3. QED
      BY <3>1, <3>2
  <2>3. QED
    BY <2>1, <2>2 DEF Follow
<1>4. QED
  BY <1>1, <1>2, <1>3

(* So Walk returns the sequence.                                            *)
LEMMA WalkChain ==
  ASSUME NEW l, NEW nx, NEW Q, Chain(l, nx, Q)
  PROVE  Walk(l, nx) = Q
<1> DEFINE Rec(f) == f = [k \in Steps |->
             IF k = 0 THEN <<>> ELSE Follow(l, nx, f[k - 1])]
           W == [k \in Steps |-> Prefix(Q, k)]
           walk == CHOOSE f : Rec(f)
<1>1. Q \in Seq(Threads) /\ Len(Q) \in Nat /\ Len(Q) <= Cardinality(Threads)
  BY LenProperties DEF Chain
<1>2. Prefix(Q, 0) = <<>>
  BY <1>1, SubSeqEmpty, 0 < 1, 0 \in Int, 1 \in Int DEF Prefix
<1>3. ASSUME NEW k \in Steps
      PROVE  W[k] = IF k = 0 THEN <<>> ELSE Follow(l, nx, W[k - 1])
  <2>1. CASE k = 0
    BY <1>2, <2>1
  <2>2. CASE k # 0
    <3>1. k - 1 \in Steps /\ k - 1 \in Nat /\ k = (k - 1) + 1
      BY <2>2, ThreadCount DEF Steps
    <3>2. Follow(l, nx, Prefix(Q, k - 1)) = Prefix(Q, (k - 1) + 1)
      BY <3>1, FollowPrefix
    <3>3. QED
      BY <2>2, <3>1, <3>2
  <2>3. QED
    BY <2>1, <2>2
<1>4. Rec(W)
  BY <1>3
<1>5. Rec(walk)
  <2> HIDE DEF Rec, W
  <2>1. QED
    BY <1>4
<1>6. \A k \in Steps : walk[k] = IF k = 0 THEN <<>> ELSE Follow(l, nx, walk[k - 1])
  <2> HIDE DEF walk
  <2>1. QED
    BY <1>5
<1>7. \A k \in Steps : walk[k] = W[k]
  <2> HIDE DEF walk, W, Rec
  <2> DEFINE B == {k \in Steps : walk[k] # W[k]}
  <2>1. SUFFICES ASSUME B # {} PROVE FALSE
    OBVIOUS
  <2>2. B \in SUBSET Nat
    BY ThreadCount DEF Steps
  <2>3. PICK b \in B : \A i \in B : b <= i
    BY <2>1, <2>2, LeastElement
  <2>4. b \in Steps /\ b \in Nat /\ walk[b] # W[b] /\ \A i \in Steps : i < b => walk[i] = W[i]
    BY <2>2, <2>3, ThreadCount DEF Steps
  <2>5. CASE b = 0
    BY <1>3, <1>6, <2>4, <2>5
  <2>6. CASE b # 0
    <3>1. b - 1 \in Steps /\ b - 1 < b
      BY <2>4, <2>6, ThreadCount DEF Steps
    <3>2. QED
      BY <1>3, <1>6, <2>4, <2>6, <3>1
  <2>7. QED
    BY <2>5, <2>6
<1>8. Walk(l, nx) = walk[Cardinality(Threads) + 1]
  BY WalkIs
<1>9. Cardinality(Threads) + 1 \in Steps
  BY ThreadCount DEF Steps
<1>10. W[Cardinality(Threads) + 1] = Q
  BY <1>1, <1>9, ThreadCount, SubSeqFull DEF Prefix
<1>11. QED
  BY <1>7, <1>8, <1>9, <1>10

-----------------------------------------------------------------------------
(* Q spells list l: its threads are those of S, each of them once, and the  *)
(* last one is the tail.                                                    *)
Once(Q) == \A i, j \in 1..Len(Q) : Q[i] = Q[j] => i = j

Spells(l, nx, S, Q) ==
  /\ Chain(l, nx, Q)
  /\ Once(Q)
  /\ {Q[i] : i \in 1..Len(Q)} = S
  /\ l.tail = IF Q = <<>> THEN NULL ELSE Q[Len(Q)]

(* Every rank between the head's and the tail's is taken.                   *)
LEMMA RanksTaken ==
  ASSUME NEW l \in Lists, NEW nx \in Links, NEW S \in Groups,
         NEW rk \in Ranks, IsList(l, nx, S, rk), S # {},
         NEW n \in Nat, n = rk[l.tail] - rk[l.head] + 1
  PROVE  \A i \in 1..n : \E t \in S : rk[t] = rk[l.head] + i - 1
<1> DEFINE h == rk[l.head]
           B == {i \in 1..n : \A t \in S : rk[t] # h + i - 1}
<1>1. /\ l.head \in S /\ l.tail \in S /\ h \in Nat
      /\ \A t \in S : rk[t] \in Nat
  BY DEF IsList, Groups, Ranks
<1>2. SUFFICES ASSUME B # {} PROVE FALSE
  OBVIOUS
<1>3. B \in SUBSET Nat
  OBVIOUS
<1>4. PICK b \in B : \A i \in B : b <= i
  BY <1>2, <1>3, LeastElement
<1>5. b \in 1..n /\ \A t \in S : rk[t] # h + b - 1
  BY <1>4
<1>6. b # 1
  BY <1>1, <1>5
<1>7. b - 1 \in 1..n /\ b - 1 \notin B
  BY <1>3, <1>4, <1>5, <1>6
<1>8. PICK t \in S : rk[t] = h + (b - 1) - 1
  BY <1>7
<1>9. t # l.tail
  BY <1>1, <1>5, <1>8
<1>10. nx[t] \in S /\ rk[nx[t]] = rk[t] + 1
  BY <1>9 DEF IsList
<1>11. QED
  BY <1>1, <1>5, <1>8, <1>10

LEMMA SpellingExists ==
  ASSUME NEW l \in Lists, NEW nx \in Links, NEW S \in Groups,
         NEW rk \in Ranks, IsList(l, nx, S, rk)
  PROVE  \E Q : Spells(l, nx, S, Q)
<1>0. S \subseteq Threads /\ NULL \notin Threads
  BY ConstantsAssumption DEF Groups
<1>1. CASE S = {}
  <2>1. l.head = NULL /\ l.tail = NULL
    BY <1>1 DEF IsList
  <2>2. <<>> \in Seq(Threads) /\ Len(<<>>) = 0
    BY EmptySeq
  <2>3. Spells(l, nx, S, <<>>)
    BY <1>1, <2>1, <2>2, ThreadCount DEF Spells, Chain, Once
  <2>4. QED
    BY <2>3
<1>2. CASE S # {}
  <2> DEFINE h == rk[l.head]
             n == rk[l.tail] - h + 1
             Q == [i \in 1..n |-> CHOOSE t \in S : rk[t] = h + i - 1]
  <2>1. /\ l.head \in S /\ l.tail \in S /\ nx[l.tail] = NULL
        /\ \A t \in S : rk[t] \in Nat /\ h <= rk[t] /\ rk[t] <= rk[l.tail]
        /\ \A t, u \in S : rk[t] = rk[u] => t = u
        /\ \A t \in S : t # l.tail => nx[t] \in S /\ rk[nx[t]] = rk[t] + 1
    BY <1>0, <1>2 DEF IsList, Ranks
  <2>2. h \in Nat /\ rk[l.tail] \in Nat /\ n \in Nat /\ n >= 1
    BY <2>1
  <2>3. \A i \in 1..n : \E t \in S : rk[t] = h + i - 1
    BY <1>2, <2>2, RanksTaken
  <2>4. \A i \in 1..n : Q[i] \in S /\ rk[Q[i]] = h + i - 1
    BY <2>3
  <2> HIDE DEF Q, n, h
  <2>5. Q \in [1..n -> S]
    BY <2>4 DEF Q
  <2>6. Q \in Seq(Threads)
    BY <1>0, <2>2, <2>5, SeqDef
  <2>7. Len(Q) = n
    BY <2>2, <2>5, <2>6, LenProperties
  <2>8. Q # <<>>
    BY <2>2, <2>7, EmptySeq
  <2>9. Once(Q)
    BY <2>2, <2>4, <2>7 DEF Once
  <2>10. Q[1] = l.head /\ Q[n] = l.tail
    <3>1. rk[Q[1]] = rk[l.head] /\ rk[Q[n]] = rk[l.tail] /\ Q[1] \in S /\ Q[n] \in S
      BY <2>2, <2>4 DEF n, h
    <3>2. QED
      BY <2>1, <3>1
  <2>11. {Q[i] : i \in 1..Len(Q)} = S
    <3>1. ASSUME NEW t \in S
          PROVE  \E i \in 1..n : Q[i] = t
      <4>1. rk[t] - h + 1 \in 1..n
        BY <2>1, <2>2 DEF n
      <4>2. rk[Q[rk[t] - h + 1]] = rk[t] /\ Q[rk[t] - h + 1] \in S
        BY <2>1, <2>2, <2>4, <4>1
      <4>3. QED
        BY <2>1, <4>1, <4>2
    <3>2. QED
      BY <2>4, <2>7, <3>1
  <2>12. \A i \in 1..n : nx[Q[i]] = IF i = n THEN NULL ELSE Q[i + 1]
    <3>1. SUFFICES ASSUME NEW i \in 1..n, i # n
                   PROVE  nx[Q[i]] = Q[i + 1]
      BY <2>1, <2>10
    <3>2. i + 1 \in 1..n
      BY <2>2, <3>1
    <3>3. Q[i] # l.tail
      BY <2>2, <2>4, <2>10, <3>1
    <3>4. nx[Q[i]] \in S /\ rk[nx[Q[i]]] = rk[Q[i + 1]] /\ Q[i + 1] \in S
      BY <2>1, <2>2, <2>4, <3>2, <3>3
    <3>5. QED
      BY <2>1, <3>4
  <2>13. n <= Cardinality(Threads)
    <3>1. Q \in Injection(1..n, Threads)
      BY <1>0, <2>5, <2>7, <2>9 DEF Injection, IsInjective, Once
    <3>2. Cardinality(1..n) <= Cardinality(Threads)
      BY <3>1, ConstantsAssumption, FS_Injection
    <3>3. Cardinality(1..n) = n
      BY <2>2, FS_Interval, 1 \in Int, n \in Int
    <3>4. QED
      BY <3>2, <3>3
  <2>14. Chain(l, nx, Q)
    BY <2>6, <2>7, <2>8, <2>10, <2>12, <2>13 DEF Chain
  <2>15. Spells(l, nx, S, Q)
    BY <2>7, <2>8, <2>9, <2>10, <2>11, <2>14 DEF Spells
  <2>16. QED
    BY <2>15
<1>3. QED
  BY <1>1, <1>2

(* What Walk returns spells the list.                                       *)
LEMMA Spelled ==
  ASSUME NEW l \in Lists, NEW nx \in Links, NEW S \in Groups,
         NEW rk \in Ranks, IsList(l, nx, S, rk)
  PROVE  Spells(l, nx, S, Walk(l, nx))
<1>1. PICK Q : Spells(l, nx, S, Q)
  BY SpellingExists
<1>2. Walk(l, nx) = Q
  BY <1>1, WalkChain DEF Spells
<1>3. QED
  BY <1>1, <1>2

LEMMA SpelledLength ==
  ASSUME NEW l, NEW nx, NEW S \in Groups, NEW Q, Spells(l, nx, S, Q)
  PROVE  Len(Q) = Cardinality(S)
<1> DEFINE n == Len(Q)
<1>1. Q \in Seq(Threads) /\ n \in Nat /\ Q \in [1..n -> Threads]
  BY LenProperties DEF Spells, Chain
<1>2. Q \in Bijection(1..n, S)
  BY <1>1 DEF Spells, Once, Bijection, Injection, Surjection, IsInjective
<1>3. IsFiniteSet(1..n) /\ Cardinality(1..n) = n
  <2>1. PICK e \in Nat : e = n
    BY <1>1
  <2>2. IsFiniteSet(1..e) /\ Cardinality(1..e) = IF 1 > e THEN 0 ELSE e - 1 + 1
    BY FS_Interval
  <2>3. Cardinality(1..e) = e
    BY <2>2
  <2>4. QED
    BY <2>1, <2>2, <2>3
<1>4. Cardinality(S) = Cardinality(1..n)
  BY <1>2, <1>3, FS_Bijection DEF ExistsBijection
<1>5. QED
  BY <1>3, <1>4

-----------------------------------------------------------------------------
(* What the list operations do to the sequence a list spells.               *)

LEMMA WalkFrame ==
  ASSUME NEW l \in Lists, NEW nx \in Links, NEW S \in Groups,
         NEW rk \in Ranks, IsList(l, nx, S, rk),
         NEW ny, \A t \in S : ny[t] = nx[t]
  PROVE  Walk(l, ny) = Walk(l, nx)
<1> DEFINE Q == Walk(l, nx)
<1>1. Spells(l, nx, S, Q)
  BY Spelled
<1> HIDE DEF Q
<1>2. \A i \in 1..Len(Q) : ny[Q[i]] = nx[Q[i]]
  BY <1>1 DEF Spells
<1>3. Chain(l, ny, Q)
  BY <1>1, <1>2 DEF Spells, Chain
<1>4. QED
  BY <1>3, WalkChain DEF Q

LEMMA WalkPush ==
  ASSUME NEW l \in Lists, NEW nx \in Links, NEW S \in Groups,
         NEW rk \in Ranks, IsList(l, nx, S, rk),
         NEW t \in Threads, t \notin S
  PROVE  Walk(Push(l, nx, t).list, Push(l, nx, t).next) = Append(Walk(l, nx), t)
<1> DEFINE Q == Walk(l, nx)
           k == Push(l, nx, t).list
           ny == Push(l, nx, t).next
           R == Append(Q, t)
           n == Len(Q)
<1>1. Spells(l, nx, S, Q)
  BY Spelled
<1> HIDE DEF Q
<1>2. /\ Q \in Seq(Threads) /\ n \in Nat /\ n = Cardinality(S)
      /\ \A i \in 1..n : Q[i] \in S
      /\ nx \in Links /\ S \subseteq Threads /\ NULL \notin Threads
  <2>1. n = Cardinality(S)
    BY <1>1, SpelledLength
  <2>2. Q \in Seq(Threads) /\ \A i \in 1..n : Q[i] \in S
    BY <1>1 DEF Spells, Chain
  <2>3. n \in Nat
    BY <2>2, LenProperties
  <2>4. QED
    BY <2>1, <2>2, <2>3, ConstantsAssumption DEF Groups
<1>3. /\ R \in Seq(Threads) /\ R # <<>> /\ Len(R) = n + 1
      /\ \A i \in 1..n : R[i] = Q[i]
      /\ R[n + 1] = t
  BY <1>2, AppendProperties
<1> HIDE DEF R
<1>4. n + 1 <= Cardinality(Threads)
  <2>1. IsFiniteSet(S)
    BY ConstantsAssumption, FS_Subset DEF Groups
  <2>2. Cardinality(S \cup {t}) = IF t \in S THEN Cardinality(S) ELSE Cardinality(S) + 1
    BY <2>1, FS_AddElement
  <2>3. S \cup {t} \in SUBSET Threads
    BY <1>2
  <2>4. Cardinality(S \cup {t}) <= Cardinality(Threads)
    BY <2>3, ConstantsAssumption, FS_Subset
  <2>5. QED
    BY <1>2, <2>2, <2>4
<1>5. /\ l.head = IF Q = <<>> THEN NULL ELSE Q[1]
      /\ l.tail = IF Q = <<>> THEN NULL ELSE Q[n]
      /\ \A i \in 1..n : nx[Q[i]] = IF i = n THEN NULL ELSE Q[i + 1]
      /\ \A i, j \in 1..n : Q[i] = Q[j] => i = j
  BY <1>1 DEF Spells, Chain, Once
<1>6. CASE Q = <<>>
  <2>1. n = 0
    BY <1>6, EmptySeq
  <2>2. k.head = t /\ ny[t] = NULL
    BY <1>2, <1>5, <1>6 DEF Push, Links
  <2>3. Chain(k, ny, R)
    BY <1>3, <1>4, <2>1, <2>2 DEF Chain
  <2>4. QED
    BY <2>3, WalkChain DEF Q, R
<1>7. CASE Q # <<>>
  <2>1. n >= 1 /\ 1 \in 1..n /\ n \in 1..n
    BY <1>2, <1>7, EmptySeq
  <2>2. /\ Q[1] \in S /\ Q[n] \in S /\ Q[1] \in Threads /\ Q[n] \in Threads
        /\ Q[n] # t /\ l.head # NULL
    BY <1>2, <1>5, <1>7, <2>1
  <2>3. /\ k = [head |-> l.head, tail |-> t]
        /\ ny = [[nx EXCEPT ![t] = NULL] EXCEPT ![Q[n]] = t]
    BY <1>5, <1>7, <2>2 DEF Push
  <2>4. /\ k.head = l.head /\ ny[t] = NULL /\ ny[Q[n]] = t
        /\ \A u \in Threads : u # t /\ u # Q[n] => ny[u] = nx[u]
    BY <1>2, <2>2, <2>3 DEF Links
  <2> HIDE DEF k, ny, n
  <2>5. ASSUME NEW i \in 1..(n + 1)
        PROVE  ny[R[i]] = IF i = n + 1 THEN NULL ELSE R[i + 1]
    <3>1. CASE i = n + 1
      BY <1>3, <2>4, <3>1
    <3>2. CASE i = n
      BY <1>2, <1>3, <2>1, <2>4, <3>2
    <3>3. CASE i < n
      <4>1. i \in 1..n /\ i + 1 \in 1..n /\ i # n
        BY <1>2, <3>3
      <4>2. Q[i] # Q[n] /\ Q[i] # t /\ Q[i] \in Threads
        BY <1>2, <1>5, <2>1, <4>1
      <4>3. nx[Q[i]] = Q[i + 1]
        BY <1>5, <4>1
      <4>4. QED
        BY <1>2, <1>3, <2>4, <3>3, <4>1, <4>2, <4>3
    <3>4. QED
      BY <1>2, <3>1, <3>2, <3>3
  <2>6. k.head = R[1]
    BY <1>3, <1>5, <1>7, <2>1, <2>4
  <2>7. Chain(k, ny, R)
    BY <1>3, <1>4, <2>5, <2>6 DEF Chain
  <2>8. QED
    BY <2>7, WalkChain DEF Q, R, k, ny
<1>8. QED
  BY <1>6, <1>7

LEMMA WalkPop ==
  ASSUME NEW l \in Lists, NEW nx \in Links, NEW S \in Groups,
         NEW rk \in Ranks, IsList(l, nx, S, rk), l.head # NULL
  PROVE  /\ Walk(l, nx) # <<>> /\ Walk(l, nx)[1] = l.head
         /\ Walk(Pop(l, nx).list, Pop(l, nx).next) = Tail(Walk(l, nx))
<1> DEFINE Q == Walk(l, nx)
           k == Pop(l, nx).list
           ny == Pop(l, nx).next
           R == Tail(Q)
           n == Len(Q)
<1>1. Spells(l, nx, S, Q)
  BY Spelled
<1> HIDE DEF Q
<1>2. /\ Q \in Seq(Threads) /\ n \in Nat /\ n <= Cardinality(Threads)
      /\ \A i \in 1..n : Q[i] \in Threads
      /\ nx \in Links /\ NULL \notin Threads
  BY <1>1, LenProperties, ElementOfSeq, ConstantsAssumption DEF Spells, Chain
<1>3. /\ l.head = IF Q = <<>> THEN NULL ELSE Q[1]
      /\ \A i \in 1..n : nx[Q[i]] = IF i = n THEN NULL ELSE Q[i + 1]
      /\ \A i, j \in 1..n : Q[i] = Q[j] => i = j
  BY <1>1 DEF Spells, Chain, Once
<1>4. Q # <<>> /\ Q[1] = l.head /\ n >= 1
  BY <1>2, <1>3, EmptySeq
<1>5. R \in Seq(Threads) /\ Len(R) = n - 1 /\ \A i \in 1..(n - 1) : R[i] = Q[i + 1]
  BY <1>2, <1>4, HeadTailProperties
<1> HIDE DEF R
<1>6. k.head = nx[Q[1]] /\ ny = [nx EXCEPT ![Q[1]] = NULL]
  BY <1>4 DEF Pop
<1>7. \A u \in Threads : u # Q[1] => ny[u] = nx[u]
  BY <1>2, <1>6 DEF Links
<1> HIDE DEF k, ny, n
<1>8. k.head = IF R = <<>> THEN NULL ELSE R[1]
  <2>1. CASE n = 1
    <3>1. R = <<>>
      BY <1>5, <2>1, EmptySeq
    <3>2. QED
      BY <1>3, <1>6, <2>1, <3>1
  <2>2. CASE n # 1
    <3>1. R # <<>> /\ 1 \in 1..(n - 1)
      BY <1>2, <1>4, <1>5, <2>2, EmptySeq
    <3>2. QED
      BY <1>2, <1>3, <1>4, <1>5, <1>6, <2>2, <3>1
  <2>3. QED
    BY <2>1, <2>2
<1>9. ASSUME NEW i \in 1..(n - 1)
      PROVE  ny[R[i]] = IF i = n - 1 THEN NULL ELSE R[i + 1]
  <2>1. i + 1 \in 1..n /\ 1 \in 1..n /\ i + 1 # 1
    BY <1>2
  <2>2. R[i] = Q[i + 1] /\ Q[i + 1] # Q[1] /\ Q[i + 1] \in Threads
    BY <1>2, <1>3, <1>5, <2>1
  <2>3. nx[Q[i + 1]] = IF i + 1 = n THEN NULL ELSE Q[i + 1 + 1]
    BY <1>3, <2>1
  <2>4. ny[R[i]] = nx[Q[i + 1]]
    BY <1>7, <2>2
  <2>5. CASE i = n - 1
    BY <1>2, <2>3, <2>4, <2>5
  <2>6. CASE i # n - 1
    <3>1. i + 1 \in 1..(n - 1) /\ i + 1 # n
      BY <1>2, <2>6
    <3>2. R[i + 1] = Q[i + 1 + 1]
      BY <1>5, <3>1
    <3>3. QED
      BY <2>3, <2>4, <2>6, <3>1, <3>2
  <2>7. QED
    BY <2>5, <2>6
<1>10. Chain(k, ny, R)
  <2>1. Len(R) <= Cardinality(Threads)
    BY <1>2, <1>5, ThreadCount
  <2>2. \A i \in 1..Len(R) : ny[R[i]] = IF i = Len(R) THEN NULL ELSE R[i + 1]
    BY <1>5, <1>9
  <2>3. QED
    BY <1>5, <1>8, <2>1, <2>2 DEF Chain
<1>11. QED
  BY <1>4, <1>10, WalkChain DEF Q, R, k, ny

(* What is not on the list keeps its link when a thread is appended.        *)
LEMMA PushFrame ==
  ASSUME NEW l \in Lists, NEW nx \in Links, NEW S \in Groups,
         NEW rk \in Ranks, IsList(l, nx, S, rk), NEW t \in Threads, t \notin S
  PROVE  \A u \in Threads \ (S \cup {t}) : Push(l, nx, t).next[u] = nx[u]
<1>1. /\ IsList(Push(l, nx, t).list, Push(l, nx, t).next, S \cup {t},
                Behind(l, S, rk, t))
      /\ Push(l, nx, t).list \in Lists /\ Push(l, nx, t).next \in Links
      /\ Behind(l, S, rk, t) \in Ranks
      /\ \A u \in Threads \ (S \cup {t}) : Push(l, nx, t).next[u] = nx[u]
      /\ \A u \in Threads \ {t} : Behind(l, S, rk, t)[u] = rk[u]
  BY PushAppends
<1>2. QED
  BY <1>1

(* The same in the midst of the other lists, which keep their sequences.    *)
LEMMA RunPushItems ==
  ASSUME NEW r \in Lists, NEW ws \in WaitLists, NEW nx \in Links,
         NEW R \in Groups, NEW Z \in Sleepers, NEW t \in Threads,
         InOrder(r, ws, nx, R, Z), Unlisted(t, R, Z)
  PROVE  /\ Walk(Push(r, nx, t).list, Push(r, nx, t).next) = Append(Walk(r, nx), t)
         /\ \A w \in Waitables : Walk(ws[w], Push(r, nx, t).next) = Walk(ws[w], nx)
<1> DEFINE ny == Push(r, nx, t).next
<1>1. PICK rk \in Ranks : Ordered(r, ws, nx, R, Z, rk)
  BY DEF InOrder
<1>2. IsList(r, nx, R, rk) /\ t \notin R
  BY <1>1 DEF Ordered, Unlisted
<1>3. \A u \in Threads \ (R \cup {t}) : ny[u] = nx[u]
  BY <1>2, PushFrame
<1> HIDE DEF ny
<1>4. ASSUME NEW w \in Waitables
      PROVE  Walk(ws[w], ny) = Walk(ws[w], nx)
  <2>1. /\ IsList(ws[w], nx, Z[w], rk) /\ R \cap Z[w] = {} /\ t \notin Z[w]
        /\ ws[w] \in Lists /\ Z[w] \in Groups /\ Z[w] \subseteq Threads
    BY <1>1 DEF Ordered, Unlisted, WaitLists, Sleepers, Groups
  <2>2. \A u \in Z[w] : ny[u] = nx[u]
    BY <1>3, <2>1
  <2>3. QED
    BY <2>1, <2>2, WalkFrame
<1>5. QED
  BY <1>2, <1>4, WalkPush DEF ny

LEMMA RunPopItems ==
  ASSUME NEW r \in Lists, NEW ws \in WaitLists, NEW nx \in Links,
         NEW R \in Groups, NEW Z \in Sleepers,
         InOrder(r, ws, nx, R, Z), r.head # NULL
  PROVE  /\ Walk(r, nx) # <<>> /\ Walk(r, nx)[1] = r.head
         /\ Walk(Pop(r, nx).list, Pop(r, nx).next) = Tail(Walk(r, nx))
         /\ \A w \in Waitables : Walk(ws[w], Pop(r, nx).next) = Walk(ws[w], nx)
<1> DEFINE ny == Pop(r, nx).next
<1>1. PICK rk \in Ranks : Ordered(r, ws, nx, R, Z, rk)
  BY DEF InOrder
<1>2. IsList(r, nx, R, rk)
  BY <1>1 DEF Ordered
<1>3. r.head \in R /\ \A u \in Threads \ {r.head} : ny[u] = nx[u]
  BY <1>2, PopDrops
<1> HIDE DEF ny
<1>4. ASSUME NEW w \in Waitables
      PROVE  Walk(ws[w], ny) = Walk(ws[w], nx)
  <2>1. /\ IsList(ws[w], nx, Z[w], rk) /\ R \cap Z[w] = {}
        /\ ws[w] \in Lists /\ Z[w] \in Groups /\ Z[w] \subseteq Threads
    BY <1>1 DEF Ordered, WaitLists, Sleepers, Groups
  <2>2. \A u \in Z[w] : ny[u] = nx[u]
    BY <1>3, <2>1
  <2>3. QED
    BY <2>1, <2>2, WalkFrame
<1>5. QED
  BY <1>2, <1>4, WalkPop DEF ny

LEMMA WaitPushItems ==
  ASSUME NEW r \in Lists, NEW ws \in WaitLists, NEW nx \in Links,
         NEW R \in Groups, NEW Z \in Sleepers, NEW t \in Threads,
         NEW x \in Waitables,
         InOrder(r, ws, nx, R, Z), Unlisted(t, R, Z)
  PROVE  /\ Walk(r, Push(ws[x], nx, t).next) = Walk(r, nx)
         /\ Walk(Push(ws[x], nx, t).list, Push(ws[x], nx, t).next) =
              Append(Walk(ws[x], nx), t)
         /\ \A w \in Waitables \ {x} :
              Walk(ws[w], Push(ws[x], nx, t).next) = Walk(ws[w], nx)
<1>1. PICK rk \in Ranks : Ordered(r, ws, nx, R, Z, rk)
  BY DEF InOrder
<1>2. PICK l \in Lists, S \in Groups : l = ws[x] /\ S = Z[x]
  BY DEF WaitLists, Sleepers
<1>3. IsList(l, nx, S, rk) /\ t \notin S
  BY <1>1, <1>2 DEF Ordered, Unlisted
<1>3a. R \cap S = {} /\ t \notin R
  BY <1>1, <1>2 DEF Ordered, Unlisted
<1> DEFINE ny == Push(l, nx, t).next
<1>4. \A u \in Threads \ (S \cup {t}) : ny[u] = nx[u]
  BY <1>3, PushFrame
<1>5. Walk(Push(l, nx, t).list, ny) = Append(Walk(l, nx), t)
  BY <1>3, WalkPush
<1> HIDE DEF ny
<1>6. Walk(r, ny) = Walk(r, nx)
  <2>1. IsList(r, nx, R, rk) /\ \A u \in R : ny[u] = nx[u]
    BY <1>1, <1>3a, <1>4 DEF Ordered, Groups
  <2>2. QED
    BY <2>1, WalkFrame
<1>7. ASSUME NEW w \in Waitables \ {x}
      PROVE  Walk(ws[w], ny) = Walk(ws[w], nx)
  <2>1. /\ IsList(ws[w], nx, Z[w], rk) /\ Z[w] \cap S = {} /\ t \notin Z[w]
        /\ ws[w] \in Lists /\ Z[w] \in Groups /\ Z[w] \subseteq Threads
    BY <1>1, <1>2 DEF Ordered, Unlisted, WaitLists, Sleepers, Groups
  <2>2. \A u \in Z[w] : ny[u] = nx[u]
    BY <1>4, <2>1
  <2>3. QED
    BY <2>1, <2>2, WalkFrame
<1>8. QED
  BY <1>2, <1>5, <1>6, <1>7 DEF ny

LEMMA WaitPopItems ==
  ASSUME NEW r \in Lists, NEW ws \in WaitLists, NEW nx \in Links,
         NEW R \in Groups, NEW Z \in Sleepers, NEW x \in Waitables,
         InOrder(r, ws, nx, R, Z), ws[x].head # NULL
  PROVE  /\ Walk(r, Pop(ws[x], nx).next) = Walk(r, nx)
         /\ Walk(ws[x], nx) # <<>> /\ Walk(ws[x], nx)[1] = ws[x].head
         /\ Walk(Pop(ws[x], nx).list, Pop(ws[x], nx).next) = Tail(Walk(ws[x], nx))
         /\ \A w \in Waitables \ {x} :
              Walk(ws[w], Pop(ws[x], nx).next) = Walk(ws[w], nx)
<1>1. PICK rk \in Ranks : Ordered(r, ws, nx, R, Z, rk)
  BY DEF InOrder
<1>2. PICK l \in Lists, S \in Groups : l = ws[x] /\ S = Z[x]
  BY DEF WaitLists, Sleepers
<1>3. IsList(l, nx, S, rk) /\ l.head # NULL /\ R \cap S = {}
  BY <1>1, <1>2 DEF Ordered
<1> DEFINE ny == Pop(l, nx).next
<1>4. l.head \in S /\ \A u \in Threads \ {l.head} : ny[u] = nx[u]
  BY <1>3, PopDrops
<1>5. /\ Walk(l, nx) # <<>> /\ Walk(l, nx)[1] = l.head
      /\ Walk(Pop(l, nx).list, ny) = Tail(Walk(l, nx))
  BY <1>3, WalkPop
<1> HIDE DEF ny
<1>6. Walk(r, ny) = Walk(r, nx)
  <2>1. IsList(r, nx, R, rk) /\ \A u \in R : ny[u] = nx[u]
    BY <1>1, <1>3, <1>4 DEF Ordered, Groups
  <2>2. QED
    BY <2>1, WalkFrame
<1>7. ASSUME NEW w \in Waitables \ {x}
      PROVE  Walk(ws[w], ny) = Walk(ws[w], nx)
  <2>1. /\ IsList(ws[w], nx, Z[w], rk) /\ Z[w] \cap S = {}
        /\ ws[w] \in Lists /\ Z[w] \in Groups /\ Z[w] \subseteq Threads
    BY <1>1, <1>2 DEF Ordered, WaitLists, Sleepers, Groups
  <2>2. \A u \in Z[w] : ny[u] = nx[u]
    BY <1>4, <2>1
  <2>3. QED
    BY <2>1, <2>2, WalkFrame
<1>8. QED
  BY <1>2, <1>5, <1>6, <1>7 DEF ny

(* schedule() rotates the run queue and leaves the waiters in order.        *)
LEMMA ScheduleItems ==
  ASSUME NEW st \in States, NEW nx \in Links, NEW pcs \in PcFuns, NEW ob \in Places,
         NEW ws \in WaitLists,
         run \in Lists, current \in Threads \cup {NULL},
         InOrder(run, ws, nx, Ready(st, pcs), Asleep(st, ob)),
         Schedule(st, nx, pcs)
  PROVE  /\ \A w \in Waitables : Walk(ws[w], next') = Walk(ws[w], nx)
         /\ \/ run.head = NULL /\ Walk(run', next') = Walk(run, nx)
            \/ /\ run.head # NULL
               /\ Walk(run, nx) # <<>> /\ Walk(run, nx)[1] = run.head
               /\ \/ /\ Requeues(st)
                     /\ Walk(run', next') = Append(Tail(Walk(run, nx)), current)
                  \/ Walk(run', next') = Tail(Walk(run, nx))
<1> DEFINE R == Ready(st, pcs)
           Z == Asleep(st, ob)
<1>1. R \in Groups /\ Z \in Sleepers
  BY DEF Ready, Asleep, Sleepers, Groups
<1>2. CASE run.head = NULL
  BY <1>2 DEF Schedule
<1>3. CASE run.head # NULL
  <2> DEFINE n == run.head
             popped == Pop(run, nx)
             pushed == Push(popped.list, popped.next, current)
  <2>1. /\ n \in R /\ n \in Threads
        /\ InOrder(popped.list, ws, popped.next, R \ {n}, Z)
        /\ popped.list \in Lists /\ popped.next \in Links
    BY <1>1, <1>3, RunPop, Zenon
  <2>2. /\ Walk(run, nx) # <<>> /\ Walk(run, nx)[1] = n
        /\ Walk(popped.list, popped.next) = Tail(Walk(run, nx))
        /\ \A w \in Waitables : Walk(ws[w], popped.next) = Walk(ws[w], nx)
    BY <1>1, <1>3, RunPopItems, Zenon
  <2>3. /\ run' = IF Requeues(st) THEN pushed.list ELSE popped.list
        /\ next' = IF Requeues(st) THEN pushed.next ELSE popped.next
    BY <1>3 DEF Schedule
  <2>4. CASE Requeues(st)
    <3>1. current \in Threads /\ st[current] = "RUNNING"
      BY <2>4 DEF Requeues
    <3>2. Unlisted(current, R \ {n}, Z)
      BY <3>1 DEF Ready, Asleep, Unlisted
    <3>3. R \ {n} \in Groups
      BY DEF Ready, Groups
    <3> HIDE DEF R, Z
    <3>4. PICK l \in Lists, ny \in Links, T \in Groups :
            l = popped.list /\ ny = popped.next /\ T = R \ {n}
      BY <2>1, <3>3
    <3>5. /\ Walk(Push(l, ny, current).list, Push(l, ny, current).next) =
               Append(Walk(l, ny), current)
          /\ \A w \in Waitables :
               Walk(ws[w], Push(l, ny, current).next) = Walk(ws[w], ny)
      BY <1>1, <2>1, <3>1, <3>2, <3>4, RunPushItems
    <3>6. QED
      BY <1>3, <2>2, <2>3, <2>4, <3>4, <3>5
  <2>5. CASE ~Requeues(st)
    BY <1>3, <2>2, <2>3, <2>5
  <2>6. QED
    BY <2>4, <2>5
<1>4. QED
  BY <1>2, <1>3

(* The first waiter goes to the end of the run queue.                       *)
LEMMA WakeItems ==
  ASSUME NEW x \in Waitables, wait[x].head # NULL,
         run \in Lists, next \in Links, wait \in WaitLists,
         state \in States, obj \in Places, QueueInv, Wake(x)
  PROVE  /\ Items(wait[x]) # <<>> /\ Items(wait[x])[1] = wait[x].head
         /\ Walk(run', next') = Append(Items(run), wait[x].head)
         /\ Walk(wait'[x], next') = Tail(Items(wait[x]))
         /\ \A w \in Waitables \ {x} : Walk(wait'[w], next') = Items(wait[w])
<1> DEFINE t == wait[x].head
           R == Ready(state, pc)
           Z == Asleep(state, obj)
           popped == Pop(wait[x], next)
           wt == [wait EXCEPT ![x] = popped.list]
           Y == [Z EXCEPT ![x] = @ \ {t}]
           pushed == Push(run, popped.next, t)
<1>1. R \in Groups /\ Z \in Sleepers /\ Y \in Sleepers
  BY DEF Ready, Asleep, Sleepers, Groups
<1>2. /\ t \in Z[x] /\ t \in Threads
      /\ InOrder(run, wt, popped.next, R, Y)
      /\ popped.list \in Lists /\ popped.next \in Links
  BY <1>1, WaitPop DEF QueueInv
<1>3. /\ Walk(run, popped.next) = Walk(run, next)
      /\ Walk(wait[x], next) # <<>> /\ Walk(wait[x], next)[1] = t
      /\ Walk(popped.list, popped.next) = Tail(Walk(wait[x], next))
      /\ \A w \in Waitables \ {x} : Walk(wait[w], popped.next) = Walk(wait[w], next)
  BY <1>1, WaitPopItems DEF QueueInv
<1>4. /\ wt \in WaitLists /\ wt[x] = popped.list
      /\ \A w \in Waitables \ {x} : wt[w] = wait[w]
  BY <1>2 DEF WaitLists
<1>5. Unlisted(t, R, Y)
  BY <1>2 DEF Ready, Asleep, Unlisted
<1>6. run' = pushed.list /\ next' = pushed.next /\ wait' = wt
  BY DEF Wake
<1> HIDE DEF R, Z, Y, wt, popped
<1>7. /\ Walk(pushed.list, pushed.next) = Append(Walk(run, popped.next), t)
      /\ \A w \in Waitables : Walk(wt[w], pushed.next) = Walk(wt[w], popped.next)
  BY <1>1, <1>2, <1>4, <1>5, RunPushItems
<1>8. QED
  BY <1>3, <1>4, <1>6, <1>7 DEF Items

(* The caller goes to the end of the wait list, the first READY thread      *)
(* leaves the run queue.                                                    *)
LEMMA BlockItems ==
  ASSUME NEW c \in Threads, NEW x \in Waitables, NEW label \in {"lock", "wait"},
         current = c, state[c] = "RUNNING", Ready(state, pc) # {},
         run \in Lists, next \in Links, wait \in WaitLists,
         state \in States, obj \in Places, pc \in PcFuns, QueueInv,
         Unmade(state, pc), Block(c, x, label)
  PROVE  /\ Items(run) # <<>> /\ Items(run)[1] = run.head
         /\ Walk(run', next') = Tail(Items(run))
         /\ Walk(wait'[x], next') = Append(Items(wait[x]), c)
         /\ \A w \in Waitables \ {x} : Walk(wait'[w], next') = Items(wait[w])
<1> DEFINE st == Sleeping(c)
           p == Goto(c, label)
           R == Ready(state, pc)
           Z == Asleep(state, obj)
           pushed == Push(wait[x], next, c)
           wt == [wait EXCEPT ![x] = pushed.list]
           Y == [Z EXCEPT ![x] = @ \cup {c}]
<1>1. R \in Groups /\ Z \in Sleepers
  BY DEF Ready, Asleep, Sleepers, Groups
<1>2. Unlisted(c, R, Z)
  BY DEF Ready, Asleep, Unlisted
<1>3. /\ InOrder(run, wt, pushed.next, R, Y)
      /\ pushed.list \in Lists /\ pushed.next \in Links
  BY <1>1, <1>2, WaitPush DEF QueueInv
<1>4. /\ Walk(run, pushed.next) = Walk(run, next)
      /\ Walk(pushed.list, pushed.next) = Append(Walk(wait[x], next), c)
      /\ \A w \in Waitables \ {x} : Walk(wait[w], pushed.next) = Walk(wait[w], next)
  BY <1>1, <1>2, WaitPushItems DEF QueueInv
<1>5. /\ wait' = wt /\ obj' = [obj EXCEPT ![c] = x]
      /\ Schedule(st, pushed.next, Goto(c, label))
  BY DEF Block, Sleeping
<1>6. /\ wt \in WaitLists /\ wt[x] = pushed.list
      /\ \A w \in Waitables \ {x} : wt[w] = wait[w]
  BY <1>3 DEF WaitLists
<1>7. /\ obj' \in Places /\ QueueInv'
      /\ Switched(st, Goto(c, label), run.head)
  BY BlockEffect
<1>8. st \in States /\ p \in PcFuns /\ Ready(st, p) = R /\ ~Requeues(st)
  <2>1. st \in States /\ p \in PcFuns /\ ~Requeues(st)
    BY ConstantsAssumption
       DEF Sleeping, States, ThreadStates, Requeues, Goto, PcFuns, Labels
  <2>2. /\ st[c] = "SLEEPING" /\ \A t \in Threads \ {c} : st[t] = state[t] /\ p[t] = pc[t]
    BY DEF Sleeping, States, Goto, PcFuns, Contexts
  <2>3. QED
    BY <2>1, <2>2 DEF Ready
<1>9. Asleep(st, obj') = Y
  <2>1. /\ st[c] = "SLEEPING" /\ obj'[c] = x
        /\ \A t \in Threads \ {c} : st[t] = state[t] /\ obj'[t] = obj[t]
    BY <1>5 DEF Sleeping, States, Places, Contexts
  <2> HIDE DEF st
  <2>2. \A w \in Waitables : Asleep(st, obj')[w] = Y[w]
    BY <2>1 DEF Asleep
  <2>3. Asleep(st, obj') \in Sleepers /\ Y \in Sleepers
    BY <1>1 DEF Asleep, Sleepers, Groups
  <2>4. QED
    BY <2>2, <2>3 DEF Sleepers
<1>10. run.head # NULL
  BY <1>7, ConstantsAssumption DEF Switched
<1> HIDE DEF st, p, R, Z, Y, wt, pushed
<1>11. PICK ob \in Places, ny \in Links : ob = obj' /\ ny = pushed.next
  BY <1>3, <1>7 DEF pushed
<1>12. InOrder(run, wt, ny, Ready(st, p), Asleep(st, ob))
  BY <1>3, <1>8, <1>9, <1>11 DEF pushed
<1>13. Schedule(st, ny, p) /\ current \in Threads \cup {NULL}
  BY <1>5, <1>11 DEF pushed, p
<1>14. /\ \A w \in Waitables : Walk(wt[w], next') = Walk(wt[w], ny)
       /\ Walk(run, ny) # <<>> /\ Walk(run, ny)[1] = run.head
       /\ Walk(run', next') = Tail(Walk(run, ny))
  BY <1>6, <1>8, <1>10, <1>12, <1>13, ScheduleItems
<1>15. QED
  BY <1>4, <1>5, <1>6, <1>11, <1>14 DEF Items, pushed

-----------------------------------------------------------------------------
(* The run queue and the wait lists are what they should be, whatever their *)
(* number and length: exactly the READY threads that thread_create has      *)
(* enqueued, exactly the sleepers of each mutex and semaphore, with no      *)
(* thread on two lists or twice on one, although all lists are strung       *)
(* through the one link of thread_t.                                        *)
LEMMA QueueIntegrityHolds ==
  ASSUME IInv
  PROVE  QueueIntegrity
<1>1. /\ state \in States /\ next \in Links /\ run \in Lists
      /\ wait \in WaitLists /\ obj \in Places
  BY Types DEF IInv
<1>2. PICK rk \in Ranks :
        Ordered(run, wait, next, Ready(state, pc), Asleep(state, obj), rk)
  BY DEF IInv, QueueInv, InOrder
<1>3. ASSUME NEW l \in Lists, NEW S \in Groups, IsList(l, next, S, rk)
      PROVE  WellFormed(l) /\ Members(l) = S
  <2>1. Spells(l, next, S, Items(l))
    BY <1>1, <1>3, Spelled DEF Items
  <2>2. Len(Items(l)) = Cardinality(S)
    BY <2>1, SpelledLength
  <2>3. DOMAIN Items(l) = 1..Len(Items(l))
    BY <2>1, LenProperties DEF Spells, Chain
  <2>4. Members(l) = S
    BY <2>1, <2>3 DEF Members, Spells
  <2>5. QED
    BY <2>1, <2>2, <2>4 DEF WellFormed, Spells
<1>4. WellFormed(run) /\ Members(run) = Ready(state, pc)
  <2>1. Ready(state, pc) \in Groups /\ IsList(run, next, Ready(state, pc), rk)
    BY <1>2 DEF Ordered, Ready, Groups
  <2>2. QED
    BY <1>1, <1>3, <2>1
<1>5. ASSUME NEW w \in Waitables
      PROVE  /\ WellFormed(wait[w])
             /\ Members(wait[w]) = {t \in Threads : state[t] = "SLEEPING" /\ obj[t] = w}
  <2>1. /\ Asleep(state, obj)[w] = {t \in Threads : state[t] = "SLEEPING" /\ obj[t] = w}
        /\ Asleep(state, obj)[w] \in Groups /\ wait[w] \in Lists
        /\ IsList(wait[w], next, Asleep(state, obj)[w], rk)
    BY <1>1, <1>2 DEF Ordered, Asleep, Groups, WaitLists
  <2>2. QED
    BY <1>3, <2>1
<1>6. QED
  <2>1. Ready(state, pc) = {t \in Threads : state[t] = "READY" /\ Enqueued(t)}
    BY DEF IInv, PlaceInv, Placed, Ready, Enqueued
  <2>2. QED
    BY <1>4, <1>5, <2>1 DEF QueueIntegrity

THEOREM QueuesIntact ==
  ASSUME NeedResident
  PROVE  Spec => []QueueIntegrity
<1>1. IInv => QueueIntegrity
  BY QueueIntegrityHolds
<1>2. QED
  BY <1>1, Invariance, PTL

-----------------------------------------------------------------------------
(* Each action, in terms of the sequences.                                  *)

LEMMA OnRunQueue ==
  ASSUME IInv
  PROVE  /\ Items(run) \in Seq(Threads) /\ Once(Items(run))
         /\ {Items(run)[i] : i \in 1..Len(Items(run))} = Ready(state, pc)
<1>1. /\ next \in Links /\ run \in Lists /\ Ready(state, pc) \in Groups
  BY Types DEF IInv, Ready, Groups
<1>2. PICK rk \in Ranks : IsList(run, next, Ready(state, pc), rk)
  BY DEF IInv, QueueInv, InOrder, Ordered
<1>3. Spells(run, next, Ready(state, pc), Items(run))
  BY <1>1, <1>2, Spelled DEF Items
<1>4. QED
  BY <1>3 DEF Spells, Chain

LEMMA OnWaitList ==
  ASSUME IInv, NEW w \in Waitables
  PROVE  /\ Items(wait[w]) \in Seq(Threads) /\ Once(Items(wait[w]))
         /\ {Items(wait[w])[i] : i \in 1..Len(Items(wait[w]))} =
              {t \in Threads : state[t] = "SLEEPING" /\ obj[t] = w}
         /\ wait[w].head = IF Items(wait[w]) = <<>> THEN NULL ELSE Items(wait[w])[1]
<1> DEFINE S == {t \in Threads : state[t] = "SLEEPING" /\ obj[t] = w}
<1>1. next \in Links /\ wait[w] \in Lists /\ S \in Groups
  BY Types DEF IInv, Groups, WaitLists
<1>2. PICK rk \in Ranks : IsList(wait[w], next, S, rk)
  BY DEF IInv, QueueInv, InOrder, Ordered, Asleep
<1>3. Spells(wait[w], next, S, Items(wait[w]))
  BY <1>1, <1>2, Spelled DEF Items
<1>4. QED
  BY <1>3 DEF Spells, Chain

(* The queue loses at most its head and gains at most one thread, at its    *)
(* end, that was not on it.                                                 *)
Advances(q, r) ==
  \/ r = q
  \/ q # <<>> /\ r = Tail(q)
  \/ \E t \in Threads :
       /\ \A i \in 1..Len(q) : q[i] # t
       /\ r = Append(q, t) \/ (q # <<>> /\ r = Append(Tail(q), t))

LEMMA AdvancesInTurn ==
  ASSUME NEW q \in Seq(Threads), Once(q), NEW r, Advances(q, r)
  PROVE  \A i \in DOMAIN q, j \in DOMAIN r : q[i] = r[j] => j <= i
<1>1. Len(q) \in Nat /\ DOMAIN q = 1..Len(q)
  BY LenProperties
<1>2. CASE r = q
  BY <1>1, <1>2 DEF Once
<1>3. CASE q # <<>> /\ r = Tail(q)
  <2>1. /\ r \in Seq(Threads) /\ Len(r) = Len(q) - 1
        /\ \A j \in 1..Len(r) : r[j] = q[j + 1]
    BY <1>3, HeadTailProperties
  <2>2. DOMAIN r = 1..(Len(q) - 1)
    BY <2>1, LenProperties
  <2>3. QED
    BY <1>1, <2>1, <2>2 DEF Once
<1>4. ASSUME NEW t \in Threads, \A i \in 1..Len(q) : q[i] # t, r = Append(q, t)
      PROVE  \A i \in DOMAIN q, j \in DOMAIN r : q[i] = r[j] => j <= i
  <2>1. /\ r \in Seq(Threads) /\ Len(r) = Len(q) + 1
        /\ \A j \in 1..Len(q) : r[j] = q[j]
        /\ r[Len(q) + 1] = t
    BY <1>4, AppendProperties
  <2>2. DOMAIN r = 1..(Len(q) + 1)
    BY <2>1, LenProperties
  <2>3. QED
    BY <1>1, <1>4, <2>1, <2>2 DEF Once
<1>5. ASSUME NEW t \in Threads, \A i \in 1..Len(q) : q[i] # t,
             q # <<>>, r = Append(Tail(q), t)
      PROVE  \A i \in DOMAIN q, j \in DOMAIN r : q[i] = r[j] => j <= i
  <2>1. /\ Tail(q) \in Seq(Threads) /\ Len(Tail(q)) = Len(q) - 1
        /\ \A j \in 1..Len(Tail(q)) : Tail(q)[j] = q[j + 1]
    BY <1>5, HeadTailProperties
  <2>2. /\ r \in Seq(Threads) /\ Len(r) = Len(Tail(q)) + 1
        /\ \A j \in 1..Len(Tail(q)) : r[j] = Tail(q)[j]
        /\ r[Len(Tail(q)) + 1] = t
    BY <1>5, <2>1, AppendProperties
  <2>3. /\ DOMAIN r = 1..Len(q) /\ r[Len(q)] = t
        /\ \A j \in 1..(Len(q) - 1) : r[j] = q[j + 1]
    BY <1>1, <2>1, <2>2, LenProperties
  <2>4. QED
    BY <1>1, <1>5, <2>3 DEF Once
<1>6. QED
  BY <1>2, <1>3, <1>4, <1>5 DEF Advances

LEMMA SwitchItems ==
  ASSUME IInv, NEW p \in PcFuns, SameAt(p, "made"), Schedule(state, next, p), UNCHANGED wait
  PROVE  /\ Advances(Items(run), Items(run)')
         /\ \A w \in Waitables : Items(wait[w])' = Items(wait[w])
<1>1. /\ state \in States /\ next \in Links /\ run \in Lists
      /\ wait \in WaitLists /\ obj \in Places
      /\ current \in Threads \cup {NULL}
      /\ InOrder(run, wait, next, Ready(state, p), Asleep(state, obj))
  <2>1. Ready(state, p) = Ready(state, pc)
    BY DEF Ready, SameAt
  <2>2. QED
    BY <2>1, Types DEF IInv, QueueInv
<1>2. /\ \A w \in Waitables : Walk(wait[w], next') = Walk(wait[w], next)
      /\ \/ Walk(run', next') = Walk(run, next)
         \/ /\ Walk(run, next) # <<>>
            /\ \/ /\ Requeues(state)
                  /\ Walk(run', next') = Append(Tail(Walk(run, next)), current)
               \/ Walk(run', next') = Tail(Walk(run, next))
  BY <1>1, ScheduleItems
<1>3. Requeues(state) =>
        current \in Threads /\ \A i \in 1..Len(Items(run)) : Items(run)[i] # current
  BY <1>1, OnRunQueue DEF Requeues, Ready
<1>4. QED
  BY <1>2, <1>3 DEF Items, Advances

LEMMA EnqueueItems ==
  ASSUME IInv, NEW c \in Contexts, CreateEnqueue(c)
  PROVE  /\ Advances(Items(run), Items(run)')
         /\ \A w \in Waitables : Items(wait[w])' = Items(wait[w])
<1> DEFINE t == obj[c]
           R == Ready(state, pc)
           Z == Asleep(state, obj)
<1>1. /\ run' = Push(run, next, t).list /\ next' = Push(run, next, t).next
      /\ wait' = wait /\ pc[c] = "enqueue"
  BY DEF CreateEnqueue, Runs
<1>2. /\ next \in Links /\ run \in Lists /\ wait \in WaitLists
      /\ InOrder(run, wait, next, R, Z)
      /\ R \in Groups /\ Z \in Sleepers
  BY Types DEF IInv, QueueInv, Ready, Asleep, Groups, Sleepers
<1>3. t \in Threads /\ state[t] = "READY" /\ pc[t] = "made"
  BY <1>1 DEF IInv, CreateInv, Creation, Creating
<1>4. Unlisted(t, R, Z)
  BY <1>3 DEF Unlisted, Ready, Asleep
<1>5. \A i \in 1..Len(Items(run)) : Items(run)[i] # t
  BY <1>3, OnRunQueue DEF Ready
<1> HIDE DEF t, R, Z
<1>6. /\ Walk(Push(run, next, t).list, Push(run, next, t).next) =
           Append(Walk(run, next), t)
      /\ \A w \in Waitables :
           Walk(wait[w], Push(run, next, t).next) = Walk(wait[w], next)
  BY <1>2, <1>3, <1>4, RunPushItems
<1>7. QED
  BY <1>1, <1>3, <1>5, <1>6 DEF Items, Advances

(* The first waiter of w becomes the last READY thread.                     *)
LEMMA WokenItems ==
  ASSUME IInv, NEW x \in Waitables, wait[x].head # NULL, Wake(x)
  PROVE  /\ Advances(Items(run), Items(run)')
         /\ Items(wait[x]) # <<>> /\ Items(wait[x])[1] = wait[x].head
         /\ Items(wait[x])' = Tail(Items(wait[x]))
         /\ \A w \in Waitables \ {x} : Items(wait[w])' = Items(wait[w])
<1>1. /\ state \in States /\ next \in Links /\ run \in Lists
      /\ wait \in WaitLists /\ obj \in Places /\ QueueInv
  BY Types DEF IInv
<1>2. /\ Items(wait[x]) # <<>> /\ Items(wait[x])[1] = wait[x].head
      /\ Walk(run', next') = Append(Items(run), wait[x].head)
      /\ Walk(wait'[x], next') = Tail(Items(wait[x]))
      /\ \A w \in Waitables \ {x} : Walk(wait'[w], next') = Items(wait[w])
  BY <1>1, WakeItems
<1>3. wait[x].head \in Threads /\ state[wait[x].head] = "SLEEPING"
  <2>1. Items(wait[x])[1] \in {t \in Threads : state[t] = "SLEEPING" /\ obj[t] = x}
    <3>1. 1 \in 1..Len(Items(wait[x]))
      BY <1>2, OnWaitList, EmptySeq
    <3>2. QED
      BY <3>1, OnWaitList
  <2>2. QED
    BY <1>2, <2>1
<1>4. \A i \in 1..Len(Items(run)) : Items(run)[i] # wait[x].head
  BY <1>3, OnRunQueue DEF Ready
<1>5. QED
  BY <1>2, <1>3, <1>4 DEF Items, Advances

(* The caller becomes the last waiter of w, the processor goes to the first *)
(* READY thread.                                                            *)
LEMMA BlockedItems ==
  ASSUME IInv, NEW c \in Threads, Runs(c, "run"), NEW x \in Waitables,
         NEW label \in {"lock", "wait"}, Ready(state, pc) # {}, Block(c, x, label)
  PROVE  /\ Advances(Items(run), Items(run)')
         /\ Items(wait[x])' = Append(Items(wait[x]), c)
         /\ \A w \in Waitables \ {x} : Items(wait[w])' = Items(wait[w])
<1>1. /\ state \in States /\ next \in Links /\ run \in Lists
      /\ wait \in WaitLists /\ obj \in Places /\ QueueInv
      /\ pc \in PcFuns /\ Unmade(state, pc)
  BY Types DEF IInv, PlaceInv, Placed, Unmade
<1>2. current = c /\ state[c] = "RUNNING"
  BY Runner DEF Labels, Exiting
<1>3. /\ Items(run) # <<>>
      /\ Walk(run', next') = Tail(Items(run))
      /\ Walk(wait'[x], next') = Append(Items(wait[x]), c)
      /\ \A w \in Waitables \ {x} : Walk(wait'[w], next') = Items(wait[w])
  BY <1>1, <1>2, BlockItems
<1>4. QED
  BY <1>3 DEF Items, Advances

(* There is no other way to change a list.                                  *)
LEMMA ListSteps ==
  ASSUME IInv, NeedResident, [Next]_vars
  PROVE  \/ UNCHANGED listVars
         \/ \E p \in PcFuns :
              SameAt(p, "made") /\ Schedule(state, next, p) /\ UNCHANGED wait
         \/ \E c \in Contexts : CreateEnqueue(c)
         \/ \E x \in Waitables : wait[x].head # NULL /\ Wake(x)
         \/ \E c \in Threads, x \in Waitables, label \in {"lock", "wait"} :
              Runs(c, "run") /\ Ready(state, pc) # {} /\ Block(c, x, label)
<1>1. CASE Tick
  BY <1>1, Types DEF IInv, Tick, SameAt
<1>2. ASSUME NEW c \in Contexts, YieldSwitch(c) \/ ExitSwitch(c)
      PROVE  \E p \in PcFuns :
               SameAt(p, "made") /\ Schedule(state, next, p) /\ UNCHANGED wait
  <2>1. PICK label \in Labels :
          /\ label # "made" /\ pc[c] # "made"
          /\ Schedule(state, next, Goto(c, label)) /\ UNCHANGED wait
    BY <1>2 DEF YieldSwitch, ExitSwitch, Runs, Labels
  <2>2. Goto(c, label) \in PcFuns /\ SameAt(Goto(c, label), "made")
    BY <2>1, Types DEF IInv, Goto, PcFuns, SameAt, Contexts
  <2>3. QED
    BY <2>1, <2>2
<1>3. ASSUME NEW c \in Contexts, YieldCheck(c) \/ CreateStore(c) \/ LockReturn(c)
             \/ WaitReturn(c) \/ ExitZombie(c) \/ ExitFree(c) \/ ExitDetach(c)
      PROVE  UNCHANGED listVars
  BY <1>3 DEF YieldCheck, CreateStore, LockReturn, WaitReturn, ExitZombie,
              ExitFree, ExitDetach
<1>4. ASSUME NEW c \in Contexts, NEW t \in Threads, NEW s \in StackMem,
             CreateAlloc(c, t, s)
      PROVE  UNCHANGED listVars
  BY <1>4 DEF CreateAlloc
<1>5. ASSUME NEW c \in Contexts, NEW m \in Mutexes, LockBlock(c, m)
      PROVE  c \in Threads /\ m \in Waitables /\ Runs(c, "run")
             /\ Ready(state, pc) # {} /\ Block(c, m, "lock")
  BY <1>5, OwnerReady DEF LockBlock, MayLock, Waitables
<1>6. ASSUME NEW c \in Contexts, NEW m \in Mutexes, LockFree(c, m) \/ Unlock(c, m)
      PROVE  \/ UNCHANGED listVars
             \/ m \in Waitables /\ wait[m].head # NULL /\ Wake(m)
  BY <1>6 DEF LockFree, Unlock, Waitables
<1>7. ASSUME NEW c \in Contexts, NEW s \in Sems, WaitBlock(c, s)
      PROVE  c \in Threads /\ s \in Waitables /\ Runs(c, "run")
             /\ Ready(state, pc) # {} /\ Block(c, s, "wait")
  BY <1>7, ResidentReady DEF WaitBlock, MayWait, Waitables
<1>8. ASSUME NEW c \in Contexts, NEW s \in Sems, WaitTake(c, s) \/ Post(c, s)
      PROVE  \/ UNCHANGED listVars
             \/ s \in Waitables /\ wait[s].head # NULL /\ Wake(s)
  BY <1>8 DEF WaitTake, Post, Waitables
<1>9. CASE UNCHANGED vars
  BY <1>9 DEF vars
<1> HIDE DEF listVars, Waitables, Contexts
<1>10. QED
  BY <1>1, <1>2, <1>3, <1>4, <1>5, <1>6, <1>7, <1>8, <1>9 DEF Next

LEMMA RunQueueAdvances ==
  ASSUME IInv, NeedResident, [Next]_vars
  PROVE  Advances(Items(run), Items(run)')
<1>1. CASE UNCHANGED listVars
  BY <1>1 DEF listVars, Items, Advances
<1>2. ASSUME NEW p \in PcFuns, SameAt(p, "made"),
             Schedule(state, next, p), UNCHANGED wait
      PROVE  Advances(Items(run), Items(run)')
  BY <1>2, SwitchItems
<1>3. QED
  BY <1>1, <1>2, ListSteps, EnqueueItems, WokenItems, BlockedItems

(* Round robin, for any number of threads: while a thread is READY its      *)
(* distance from the head of the run queue never grows, whoever yields,     *)
(* blocks, wakes, exits or is created in the meantime.                      *)
THEOREM RoundRobin ==
  ASSUME NeedResident
  PROVE  Spec => NeverOvertaken
<1>1. ASSUME IInv, [Next]_vars
      PROVE  LET q == RunQueue
                 r == RunQueue'
             IN  \A i \in DOMAIN q, j \in DOMAIN r : q[i] = r[j] => j <= i
  BY <1>1, OnRunQueue, RunQueueAdvances, AdvancesInTurn DEF RunQueue
<1>2. QED
  BY <1>1, Invariance, PTL DEF Spec, NeverOvertaken

-----------------------------------------------------------------------------
(* Lives of threads: a zombie stays one, nobody but a READY thread that     *)
(* thread_create has enqueued gets the processor, and until then a thread   *)
(* does not move.                                                           *)
Lives ==
  /\ \A t \in Threads : state[t] = "ZOMBIE" => state'[t] = "ZOMBIE"
  /\ cpu' = cpu \/ (cpu' \in Threads /\ state[cpu'] = "READY" /\ pc[cpu'] # "made")

BeforeBirth == {"none", "made"}

Unborn == \A t \in Threads : pc[t] \in BeforeBirth => pc'[t] = pc[t]

LEMMA GotoUnborn ==
  ASSUME IInv, NEW c \in Contexts, pc[c] \notin BeforeBirth,
         NEW label \in Labels \ BeforeBirth
  PROVE  /\ Goto(c, label) \in PcFuns
         /\ SameAt(Goto(c, label), "none") /\ SameAt(Goto(c, label), "made")
  BY Types DEF IInv, Goto, PcFuns, Contexts, SameAt, BeforeBirth

LEMMA SwitchLives ==
  ASSUME IInv, NEW p \in PcFuns, Schedule(state, next, p),
         SameAt(p, "none"), SameAt(p, "made")
  PROVE  Lives /\ Unborn
<1>1. /\ state \in States /\ next \in Links /\ run \in Lists
      /\ wait \in WaitLists /\ obj \in Places
      /\ current \in Threads \cup {NULL}
      /\ InOrder(run, wait, next, Ready(state, p), Asleep(state, obj))
      /\ Unmade(state, p)
  <2>1. Ready(state, p) = Ready(state, pc)
    BY DEF Ready, SameAt
  <2>2. Unmade(state, p)
    BY DEF IInv, PlaceInv, Placed, Unmade, SameAt
  <2>3. QED
    BY <2>1, <2>2, Types DEF IInv, QueueInv
<1>2. \/ state' = state /\ pc' = p /\ UNCHANGED <<current, cpu>>
      \/ Switched(state, p, run.head)
  BY <1>1, ScheduleEffect
<1>3. CASE state' = state /\ pc' = p /\ UNCHANGED <<current, cpu>>
  BY <1>3 DEF Lives, Unborn, SameAt, BeforeBirth
<1>4. CASE Switched(state, p, run.head)
  <2>1. run.head \in Threads /\ state[run.head] = "READY" /\ cpu' = run.head
        /\ pc[run.head] # "made"
    BY <1>4 DEF Switched, SameAt
  <2>2. Lives
    BY <1>4, <2>1 DEF Switched, Lives
  <2>3. pc[run.head] # "none"
    BY <2>1 DEF IInv, PlaceInv, Placed
  <2>4. Unborn
    <3>1. \A t \in Threads \ {run.head} : pc'[t] = p[t]
      BY <1>4 DEF Switched
    <3>2. QED
      BY <2>1, <2>3, <3>1 DEF Unborn, SameAt, BeforeBirth
  <2>5. QED
    BY <2>2, <2>4
<1>5. QED
  BY <1>2, <1>3, <1>4

LEMMA BlockLives ==
  ASSUME IInv, NEW c \in Threads, Runs(c, "run"), NEW x \in Waitables,
         NEW label \in {"lock", "wait"}, Ready(state, pc) # {}, Block(c, x, label)
  PROVE  Lives /\ Unborn
<1>1. /\ state \in States /\ next \in Links /\ run \in Lists
      /\ wait \in WaitLists /\ obj \in Places /\ QueueInv /\ pc \in PcFuns
      /\ Unmade(state, pc)
  BY Types DEF IInv, PlaceInv, Placed, Unmade
<1>2. current = c /\ state[c] = "RUNNING"
  BY Runner DEF Labels, Exiting
<1> DEFINE n == run.head
<1>3. Switched(Sleeping(c), Goto(c, label), n)
  BY <1>1, <1>2, BlockEffect
<1>4. Sleeping(c)[c] = "SLEEPING" /\ \A t \in Threads \ {c} : Sleeping(c)[t] = state[t]
  BY <1>1 DEF Sleeping, States
<1>5. n \in Threads /\ cpu' = n /\ state[n] = "READY" /\ pc[n] # "made"
  BY <1>1, <1>3, <1>4 DEF Switched, Goto, PcFuns, Contexts
<1>6. Lives
  <2>1. \A t \in Threads : state[t] = "ZOMBIE" => state'[t] = "ZOMBIE"
    BY <1>2, <1>3, <1>4, <1>5 DEF Switched
  <2>2. QED
    BY <1>5, <2>1 DEF Lives
<1>7. Unborn
  <2>1. /\ pc[n] \notin BeforeBirth /\ pc[c] \notin BeforeBirth /\ c \in Contexts
        /\ label \in Labels \ BeforeBirth
    BY <1>5 DEF IInv, PlaceInv, Placed, Runs, Contexts, BeforeBirth, Labels
  <2>2. \A t \in Threads : pc[t] \in BeforeBirth => Goto(c, label)[t] = pc[t]
    BY <2>1, GotoUnborn DEF SameAt, BeforeBirth
  <2>3. \A t \in Threads \ {n} : pc'[t] = Goto(c, label)[t]
    BY <1>3 DEF Switched
  <2>4. QED
    BY <2>1, <2>2, <2>3 DEF Unborn
<1>8. QED
  BY <1>6, <1>7

LEMMA WakeLives ==
  ASSUME IInv, NEW x \in Waitables, wait[x].head # NULL, Wake(x),
         UNCHANGED <<cpu, pc, obj>>
  PROVE  Lives /\ Unborn
<1>1. /\ wait[x].head \in Threads /\ state[wait[x].head] = "SLEEPING"
      /\ state' = [state EXCEPT ![wait[x].head] = "READY"] /\ state \in States
  <2>1. Unmade(state, pc) /\ QueueInv
    BY DEF IInv, PlaceInv, Placed, Unmade
  <2>2. QED
    BY <2>1, Types, WakeEffect DEF IInv
<1>2. QED
  BY <1>1 DEF Lives, Unborn, States

(* Steps that leave the threads alone, but for the place of one.            *)
LEMMA QuietLives ==
  ASSUME IInv, UNCHANGED <<state, cpu>>,
         \/ UNCHANGED pc
         \/ \E c \in Contexts, label \in Labels \ BeforeBirth :
              pc[c] \notin BeforeBirth /\ pc' = Goto(c, label)
  PROVE  Lives /\ Unborn
  BY GotoUnborn DEF Lives, Unborn, SameAt, BeforeBirth

(* Every step, and what it does to the stacks.                              *)
LEMMA LifeSteps ==
  ASSUME IInv, NeedResident, [Next]_vars
  PROVE  /\ Lives
         /\ \/ UNCHANGED <<stack, esp>> /\ Unborn
            \/ \E c \in Contexts, t \in Threads, s \in StackMem : CreateAlloc(c, t, s)
            \/ \E c \in Contexts : CreateEnqueue(c)
            \/ \E c \in Contexts : ExitFree(c) /\ Unborn
<1> DEFINE Keeps == UNCHANGED <<stack, esp>>
<1>1. CASE Tick
  <2>1. SameAt(pc, "none") /\ SameAt(pc, "made") /\ pc \in PcFuns
    BY Types DEF IInv, SameAt
  <2>2. QED
    BY <1>1, <2>1, SwitchLives DEF Tick, threadVars
<1>2. ASSUME NEW c \in Contexts, YieldSwitch(c) \/ ExitSwitch(c)
      PROVE  Lives /\ Unborn /\ Keeps
  <2>1. PICK label \in Labels \ BeforeBirth :
          pc[c] \notin BeforeBirth /\ Schedule(state, next, Goto(c, label))
    BY <1>2 DEF YieldSwitch, ExitSwitch, Runs, Labels, BeforeBirth
  <2>2. Lives /\ Unborn
    BY <2>1, GotoUnborn, SwitchLives
  <2>3. QED
    BY <1>2, <2>2 DEF YieldSwitch, ExitSwitch, threadVars
<1>3. ASSUME NEW c \in Contexts, YieldCheck(c) \/ LockReturn(c)
             \/ WaitReturn(c) \/ ExitDetach(c)
      PROVE  Lives /\ Unborn /\ Keeps
  <2>1. /\ UNCHANGED <<state, cpu>> /\ Keeps
        /\ \E label \in Labels \ BeforeBirth :
             pc[c] \notin BeforeBirth /\ pc' = Goto(c, label)
    BY <1>3 DEF YieldCheck, LockReturn, WaitReturn, ExitDetach,
                Runs, Labels, BeforeBirth, threadVars
  <2>2. QED
    BY <2>1, QuietLives
<1>4. ASSUME NEW c \in Contexts, ExitFree(c)
      PROVE  Lives /\ Unborn
  <2>1. /\ UNCHANGED <<state, cpu>>
        /\ \E label \in Labels \ BeforeBirth :
             pc[c] \notin BeforeBirth /\ pc' = Goto(c, label)
    BY <1>4 DEF ExitFree, Runs, Labels, BeforeBirth
  <2>2. QED
    BY <2>1, QuietLives
<1>5. ASSUME NEW c \in Contexts, NEW t \in Threads, NEW s \in StackMem,
             CreateAlloc(c, t, s)
      PROVE  Lives
  BY <1>5 DEF CreateAlloc, Lives
<1>6. ASSUME NEW c \in Contexts, CreateEnqueue(c)
      PROVE  Lives
  BY <1>6 DEF CreateEnqueue, Lives
<1>6a. ASSUME NEW c \in Contexts, CreateStore(c)
       PROVE  Lives /\ Unborn /\ Keeps
  <2>1. /\ state' = [state EXCEPT ![obj[c]] = "READY"] /\ state \in States
        /\ cpu' = cpu /\ pc' = Goto(c, "enqueue") /\ pc[c] = "store"
        /\ Keeps
    BY <1>6a, Types DEF IInv, CreateStore, Runs
  <2>2. obj[c] \in Threads /\ state[obj[c]] = "UNUSED"
    BY <2>1 DEF IInv, CreateInv, Creation, Creating
  <2>3. Lives
    BY <2>1, <2>2 DEF Lives, States
  <2>4. Unborn
    BY <2>1, GotoUnborn DEF Unborn, SameAt, BeforeBirth, Labels
  <2>5. QED
    BY <2>1, <2>3, <2>4
<1>7. ASSUME NEW c \in Contexts, ExitZombie(c)
      PROVE  Lives /\ Unborn /\ Keeps
  <2>1. /\ state' = [state EXCEPT ![current] = "ZOMBIE"] /\ state \in States
        /\ cpu' = cpu /\ pc' = Goto(c, "free") /\ pc[c] = "run"
        /\ Keeps
    BY <1>7, Types DEF IInv, ExitZombie, Runs, threadVars
  <2>2. Lives
    BY <2>1 DEF Lives, States
  <2>3. Unborn
    BY <2>1, GotoUnborn DEF Unborn, SameAt, BeforeBirth, Labels
  <2>4. QED
    BY <2>1, <2>2, <2>3
<1>8. ASSUME NEW c \in Contexts, NEW m \in Mutexes,
             LockFree(c, m) \/ LockBlock(c, m) \/ Unlock(c, m)
      PROVE  Lives /\ Unborn /\ Keeps
  <2>1. m \in Waitables
    BY DEF Waitables
  <2>2. CASE LockFree(c, m)
    BY <2>2, QuietLives DEF LockFree, threadVars
  <2>3. CASE LockBlock(c, m)
    <3>1. c \in Threads /\ Runs(c, "run") /\ Ready(state, pc) # {} /\ Block(c, m, "lock")
      BY <2>3, OwnerReady DEF LockBlock, MayLock
    <3>2. QED
      BY <2>1, <2>3, <3>1, BlockLives DEF LockBlock, threadVars
  <2>4. CASE Unlock(c, m)
    BY <2>1, <2>4, WakeLives, QuietLives DEF Unlock, threadVars
  <2>5. QED
    BY <1>8, <2>2, <2>3, <2>4
<1>9. ASSUME NEW c \in Contexts, NEW s \in Sems,
             WaitTake(c, s) \/ WaitBlock(c, s) \/ Post(c, s)
      PROVE  Lives /\ Unborn /\ Keeps
  <2>1. s \in Waitables
    BY DEF Waitables
  <2>2. CASE WaitTake(c, s)
    BY <2>2, QuietLives DEF WaitTake, threadVars
  <2>3. CASE WaitBlock(c, s)
    <3>1. c \in Threads /\ Runs(c, "run") /\ Ready(state, pc) # {} /\ Block(c, s, "wait")
      BY <2>3, ResidentReady DEF WaitBlock, MayWait
    <3>2. QED
      BY <2>1, <2>3, <3>1, BlockLives DEF WaitBlock, threadVars
  <2>4. CASE Post(c, s)
    BY <2>1, <2>4, WakeLives, QuietLives DEF Post, threadVars
  <2>5. QED
    BY <1>9, <2>2, <2>3, <2>4
<1>10. CASE UNCHANGED vars
  BY <1>10 DEF vars, threadVars, Lives, Unborn, BeforeBirth
<1> HIDE DEF Keeps, Contexts, Waitables
<1>11. QED
  BY <1>1, <1>2, <1>3, <1>4, <1>5, <1>6, <1>6a, <1>7, <1>8, <1>9, <1>10 DEF Next, Keeps

(* A thread that has begun thread_exit stays a zombie, and once switched    *)
(* out it never gets the processor back.                                    *)
THEOREM ZombiesStayDown ==
  ASSUME NeedResident
  PROVE  Spec => ZombieNeverReturns
<1>1. IInv /\ [Next]_vars =>
        [\A t \in Threads :
           state[t] = "ZOMBIE" =>
             state'[t] = "ZOMBIE" /\ (cpu' = t => cpu = t)]_vars
  BY LifeSteps DEF Lives
<1>2. QED
  BY <1>1, Invariance, PTL DEF Spec, ZombieNeverReturns

-----------------------------------------------------------------------------
(* Stacks.  A thread that is not a zombie stands on its own stack, no block *)
(* is the stack of two threads, and the block under the processor is not    *)
(* the stack of another thread.                                             *)
OwnStack ==
  \A t \in Threads :
    pc[t] # "none" /\ state[t] # "ZOMBIE" =>
      stack[t] # NULL /\ (Enqueued(t) => stack[t] = esp[t])

StacksApart ==
  \A t, u \in Threads : t # u /\ stack[t] # NULL => stack[t] # stack[u]

Underfoot ==
  \A t \in Threads :
    cpu \in Threads \ {t} /\ stack[t] # NULL => stack[t] # esp[cpu]

StackInv == OwnStack /\ StacksApart /\ Underfoot

LEMMA KeepStacks ==
  ASSUME IInv, StackInv, Lives, Unborn, UNCHANGED <<stack, esp>>
  PROVE  StackInv'
<1>1. OwnStack'
  BY DEF StackInv, OwnStack, Lives, Unborn, Enqueued, BeforeBirth
<1>2. StacksApart'
  BY DEF StackInv, StacksApart
<1>3. ASSUME NEW t \in Threads, cpu' \in Threads \ {t}, stack[t] # NULL
      PROVE  stack[t] # esp[cpu']
  <2>1. CASE cpu' = cpu
    BY <1>3, <2>1 DEF StackInv, Underfoot
  <2>2. CASE cpu' \in Threads /\ state[cpu'] = "READY" /\ pc[cpu'] # "made"
    <3>1. pc[cpu'] # "none"
      BY <2>2 DEF IInv, PlaceInv, Placed
    <3>2. stack[cpu'] = esp[cpu']
      BY <2>2, <3>1 DEF StackInv, OwnStack, Enqueued
    <3>3. QED
      BY <1>3, <3>2 DEF StackInv, StacksApart
  <2>3. QED
    BY <2>1, <2>2 DEF Lives
<1>4. Underfoot'
  BY <1>3 DEF Underfoot
<1>5. QED
  BY <1>1, <1>2, <1>4 DEF StackInv

LEMMA AllocStacks ==
  ASSUME IInv, StackInv, NEW c \in Contexts, NEW t \in Threads,
         NEW s \in StackMem, CreateAlloc(c, t, s)
  PROVE  StackInv'
<1>1. /\ cpu = c /\ pc[c] = "run" /\ pc[t] = "none" /\ t # c
      /\ \A u \in Threads : stack[u] # s
      /\ stack' = [stack EXCEPT ![t] = s] /\ esp' = esp
      /\ pc' = [pc EXCEPT ![c] = "store", ![t] = "made"]
      /\ state' = state /\ cpu' = cpu
      /\ s # NULL
  BY ConstantsAssumption DEF CreateAlloc, Runs
<1>2. /\ stack' \in [Threads -> StackMem \cup {NULL}]
      /\ stack'[t] = s /\ \A u \in Threads \ {t} : stack'[u] = stack[u]
      /\ pc'[t] = "made"
      /\ \A u \in Threads \ {t} : u # c => pc'[u] = pc[u]
      /\ pc'[c] = "store"
  BY <1>1 DEF IInv, TypeOK, Contexts
<1>3. OwnStack'
  BY <1>1, <1>2 DEF StackInv, OwnStack, Enqueued
<1>4. StacksApart'
  BY <1>1, <1>2 DEF StackInv, StacksApart
<1>5. c \in Threads => esp[c] = stack[c] /\ esp[c] # s
  <2>1. SUFFICES ASSUME c \in Threads
                 PROVE  esp[c] = stack[c] /\ esp[c] # s
    OBVIOUS
  <2>2. state[c] = "RUNNING"
    BY <1>1, <2>1, Runner DEF Labels, Exiting, Runs
  <2>3. QED
    BY <1>1, <2>1, <2>2 DEF StackInv, OwnStack, Enqueued
<1>6. Underfoot'
  BY <1>1, <1>2, <1>5 DEF StackInv, Underfoot
<1>7. QED
  BY <1>3, <1>4, <1>6 DEF StackInv

LEMMA EnqueueStacks ==
  ASSUME IInv, StackInv, NEW c \in Contexts, CreateEnqueue(c)
  PROVE  StackInv'
<1> DEFINE t == obj[c]
<1>1. /\ cpu = c /\ pc[c] = "enqueue"
      /\ esp' = [esp EXCEPT ![t] = stack[t]]
      /\ pc' = [pc EXCEPT ![c] = "run", ![t] = "new"]
      /\ UNCHANGED <<state, cpu, stack>>
  BY DEF CreateEnqueue, Runs
<1>2. t \in Threads /\ pc[t] = "made" /\ state[t] = "READY" /\ t # c
  BY <1>1 DEF IInv, CreateInv, Creation, Creating
<1>3. /\ esp'[t] = stack[t] /\ \A u \in Threads \ {t} : esp'[u] = esp[u]
      /\ \A u \in Threads \ {t} : u # c => pc'[u] = pc[u]
  BY <1>1, <1>2 DEF IInv, TypeOK, Contexts
<1>4. OwnStack'
  BY <1>1, <1>2, <1>3 DEF StackInv, OwnStack, Enqueued
<1>5. StacksApart'
  BY <1>1 DEF StackInv, StacksApart
<1>6. Underfoot'
  BY <1>1, <1>2, <1>3 DEF StackInv, Underfoot
<1>7. QED
  BY <1>4, <1>5, <1>6 DEF StackInv

LEMMA FreeStacks ==
  ASSUME IInv, StackInv, Lives, Unborn, NEW c \in Contexts, ExitFree(c)
  PROVE  StackInv'
<1>1. c \in Threads
  BY DEF ExitFree, Runs, IInv, PlaceInv, Executing, Creating, Contexts
<1>2. /\ current = c /\ state[c] = "ZOMBIE"
      /\ stack' = [stack EXCEPT ![c] = NULL]
      /\ UNCHANGED <<esp, cpu, state>>
  BY <1>1, Runner DEF ExitFree, Labels, Exiting
<1>3. stack'[c] = NULL /\ \A u \in Threads \ {c} : stack'[u] = stack[u]
  BY <1>1, <1>2 DEF IInv, TypeOK
<1>4. OwnStack'
  BY <1>2, <1>3 DEF StackInv, OwnStack, Unborn, Enqueued, BeforeBirth
<1>5. StacksApart'
  BY <1>3 DEF StackInv, StacksApart
<1>6. Underfoot'
  BY <1>2, <1>3 DEF StackInv, Underfoot
<1>7. QED
  BY <1>4, <1>5, <1>6 DEF StackInv

(* thread_exit frees the stack it stands on, and the timer may strike right *)
(* after; still no thread that can run has lost its stack, and no thread is *)
(* ever given the block the processor stands on.                            *)
THEOREM StacksExclusive ==
  ASSUME NeedResident
  PROVE  Spec => []StackExclusive
<1>1. Init => StackInv
  BY ConstantsAssumption
     DEF Init, StackInv, OwnStack, StacksApart, Underfoot, Contexts
<1>2. ASSUME IInv, StackInv, [Next]_vars
      PROVE  StackInv'
  BY <1>2, LifeSteps, KeepStacks, AllocStacks, EnqueueStacks, FreeStacks
<1>3. IInv /\ StackInv => StackExclusive
  BY DEF IInv, PlaceInv, Placed, StackInv, OwnStack, Underfoot, StackExclusive,
            Enqueued
<1>4. QED
  BY <1>1, <1>2, <1>3, Invariance, PTL DEF Spec

-----------------------------------------------------------------------------
(* What the callers of the mutexes and semaphores see of a step: who owns a *)
(* mutex, who was given a token, who waits, and in which order.             *)

SamePlace(t) ==
  /\ pc'[t] = "lock" <=> pc[t] = "lock"
  /\ pc'[t] = "wait" <=> pc[t] = "wait"
  /\ pc[t] \in {"lock", "wait"} =>
       obj'[t] = obj[t] /\ (state'[t] = "SLEEPING" <=> state[t] = "SLEEPING")

OwnersSame == \A t \in Threads, m \in Mutexes : Owns(t, m)' <=> Owns(t, m)
GrantsSame == \A s \in Sems : GrantedIn(s)' = GrantedIn(s)
QueuesSame == \A w \in Waitables : Items(wait[w])' = Items(wait[w])

Quiet ==
  /\ OwnersSame /\ GrantsSame /\ QueuesSame
  /\ UNCHANGED <<wait, count, posted, taken>>

LEMMA SamePlaces ==
  ASSUME \A t \in Threads : SamePlace(t)
  PROVE  GrantsSame /\ (holds' = holds => OwnersSame)
<1>1. ASSUME NEW s \in Sems
      PROVE  GrantedIn(s)' = GrantedIn(s)
  BY DEF GrantedIn, SamePlace
<1>2. ASSUME NEW t \in Threads, NEW m \in Mutexes, holds' = holds
      PROVE  Owns(t, m)' <=> Owns(t, m)
  BY <1>2 DEF Owns, SamePlace
<1>3. QED
  BY <1>1, <1>2 DEF GrantsSame, OwnersSame

(* The places that the callers and the run queue can tell apart.            *)
Alike(p) == SameAt(p, "lock") /\ SameAt(p, "wait") /\ SameAt(p, "made")

LEMMA SwitchSame ==
  ASSUME IInv, NEW p \in PcFuns, Schedule(state, next, p), obj' = obj,
         Alike(p)
  PROVE  \A t \in Threads : SamePlace(t)
<1>1. /\ state \in States /\ next \in Links /\ run \in Lists
      /\ wait \in WaitLists /\ obj \in Places
      /\ current \in Threads \cup {NULL}
      /\ InOrder(run, wait, next, Ready(state, p), Asleep(state, obj))
      /\ Unmade(state, p)
  <2>1. Ready(state, p) = Ready(state, pc)
    BY DEF Ready, Alike, SameAt
  <2>2. Unmade(state, p)
    BY DEF IInv, PlaceInv, Placed, Unmade, Alike, SameAt
  <2>3. QED
    BY <2>1, <2>2, Types DEF IInv, QueueInv
<1>2. \/ state' = state /\ pc' = p
      \/ Switched(state, p, run.head)
  BY <1>1, ScheduleEffect
<1>3. CASE state' = state /\ pc' = p
  BY <1>3 DEF SamePlace, Alike, SameAt
<1>4. CASE Switched(state, p, run.head)
  <2> DEFINE n == run.head
  <2>1. /\ n \in Threads /\ n \in Contexts /\ state[n] = "READY" /\ state'[n] = "RUNNING"
        /\ \A t \in Threads \ {n} :
             state'[t] = IF t = current /\ state[t] = "RUNNING" THEN "READY" ELSE state[t]
        /\ pc' = IF p[n] = "new" THEN [p EXCEPT ![n] = "run"] ELSE p
    BY <1>4 DEF Switched, Contexts
  <2>2. \A t \in Threads : state'[t] = "SLEEPING" <=> state[t] = "SLEEPING"
    BY <2>1
  <2>3. \A t \in Threads : /\ pc'[t] = "lock" <=> p[t] = "lock"
                           /\ pc'[t] = "wait" <=> p[t] = "wait"
    BY <2>1 DEF PcFuns, Contexts
  <2>4. QED
    BY <2>2, <2>3 DEF SamePlace, Alike, SameAt
<1>5. QED
  BY <1>2, <1>3, <1>4

(* Every step but the seven that work on a mutex or a semaphore is quiet.   *)
Loud ==
  \E c \in Contexts :
    \/ \E m \in Mutexes : LockFree(c, m) \/ LockBlock(c, m) \/ Unlock(c, m)
    \/ \E s \in Sems : WaitTake(c, s) \/ WaitBlock(c, s) \/ Post(c, s)
    \/ WaitReturn(c)

LEMMA QuietSwitch ==
  ASSUME IInv, NEW p \in PcFuns, Schedule(state, next, p),
         UNCHANGED <<wait, obj, threadVars, syncVars>>,
         Alike(p)
  PROVE  Quiet
<1>1. \A t \in Threads : SamePlace(t)
  BY SwitchSame
<1>2. QueuesSame
  BY SwitchItems DEF QueuesSame, Alike
<1>3. UNCHANGED <<wait, holds, count, posted, taken>>
  BY DEF syncVars
<1>4. QED
  BY <1>1, <1>2, <1>3, SamePlaces DEF Quiet

(* A context that moves between places where it does not wait.              *)
LEMMA QuietMove ==
  ASSUME IInv, UNCHANGED <<listVars, syncVars>>, NEW c \in Contexts,
         pc[c] \notin {"lock", "wait"}, NEW label, label \notin {"lock", "wait"},
         pc' = Goto(c, label), UNCHANGED obj,
         \A t \in Threads : state'[t] = "SLEEPING" <=> state[t] = "SLEEPING"
  PROVE  Quiet
<1>1. \A t \in Threads : SamePlace(t)
  BY Types DEF IInv, Goto, PcFuns, SamePlace, Contexts
<1>2. QueuesSame
  BY DEF QueuesSame, Items, listVars
<1>3. UNCHANGED <<wait, holds, count, posted, taken>>
  BY DEF listVars, syncVars
<1>4. QED
  BY <1>1, <1>2, <1>3, SamePlaces DEF Quiet

LEMMA QuietAlloc ==
  ASSUME IInv, NEW c \in Contexts, NEW t \in Threads, NEW s \in StackMem,
         CreateAlloc(c, t, s)
  PROVE  Quiet
<1>1. /\ pc[c] = "run" /\ pc[t] = "none"
      /\ pc' = [pc EXCEPT ![c] = "store", ![t] = "made"]
      /\ obj' = [obj EXCEPT ![c] = t]
      /\ UNCHANGED <<state, listVars, syncVars>>
      /\ pc \in PcFuns /\ obj \in Places
  BY Types DEF IInv, CreateAlloc, Runs
<1>2. \A u \in Threads : u # c /\ u # t => pc'[u] = pc[u] /\ obj'[u] = obj[u]
  BY <1>1 DEF PcFuns, Places, Contexts
<1>3. c \in Threads => pc'[c] \in {"store", "made"}
  BY <1>1 DEF PcFuns, Contexts
<1>4. pc'[t] = "made"
  BY <1>1 DEF PcFuns, Contexts
<1>5. \A u \in Threads : SamePlace(u)
  BY <1>1, <1>2, <1>3, <1>4 DEF SamePlace
<1>6. QueuesSame
  BY <1>1 DEF QueuesSame, Items, listVars
<1>7. QED
  BY <1>1, <1>5, <1>6, SamePlaces DEF Quiet, listVars, syncVars

LEMMA QuietStore ==
  ASSUME IInv, NEW c \in Contexts, CreateStore(c)
  PROVE  Quiet
<1>1. /\ UNCHANGED <<listVars, obj, syncVars>>
      /\ state' = [state EXCEPT ![obj[c]] = "READY"]
      /\ pc[c] = "store" /\ pc' = Goto(c, "enqueue")
  BY DEF CreateStore, Runs
<1>2. obj[c] \in Threads /\ state[obj[c]] = "UNUSED"
  BY <1>1 DEF IInv, CreateInv, Creation, Creating
<1>3. \A t \in Threads : state'[t] = "SLEEPING" <=> state[t] = "SLEEPING"
  BY <1>1, <1>2, Types DEF IInv, States
<1>4. QED
  BY <1>1, <1>3, QuietMove

LEMMA QuietEnqueue ==
  ASSUME IInv, NEW c \in Contexts, CreateEnqueue(c)
  PROVE  Quiet
<1>1. /\ pc[c] = "enqueue" /\ pc' = [pc EXCEPT ![c] = "run", ![obj[c]] = "new"]
      /\ obj' = [obj EXCEPT ![c] = NULL]
      /\ UNCHANGED <<state, wait, syncVars>>
      /\ pc \in PcFuns /\ obj \in Places
  BY Types DEF IInv, CreateEnqueue, Runs
<1>2. obj[c] \in Threads /\ pc[obj[c]] = "made"
  BY <1>1 DEF IInv, CreateInv, Creation, Creating
<1>3. /\ \A u \in Threads : u # c => obj'[u] = obj[u]
      /\ \A u \in Threads : u # c /\ u # obj[c] => pc'[u] = pc[u]
  BY <1>1 DEF PcFuns, Places, Contexts
<1>4. /\ c \in Threads => pc'[c] \in {"run", "new"}
      /\ pc'[obj[c]] = "new"
  BY <1>1, <1>2 DEF PcFuns, Contexts
<1>5. \A u \in Threads : SamePlace(u)
  BY <1>1, <1>2, <1>3, <1>4 DEF SamePlace
<1>6. QueuesSame
  BY EnqueueItems DEF QueuesSame
<1>7. QED
  BY <1>1, <1>5, <1>6, SamePlaces DEF Quiet, syncVars

LEMMA QuietExitZombie ==
  ASSUME IInv, NEW c \in Contexts, ExitZombie(c)
  PROVE  Quiet
<1>1. /\ c \in Threads /\ Runs(c, "run") /\ pc[c] = "run"
      /\ pc' = Goto(c, "free")
      /\ state' = [state EXCEPT ![current] = "ZOMBIE"]
      /\ UNCHANGED <<listVars, obj, syncVars>>
  BY DEF ExitZombie, MayExit, Runs
<1>2. current = c /\ state[c] = "RUNNING"
  BY <1>1, Runner DEF Labels, Exiting
<1>3. \A t \in Threads : state'[t] = "SLEEPING" <=> state[t] = "SLEEPING"
  BY <1>1, <1>2, Types DEF IInv, States
<1>4. QED
  BY <1>1, <1>3, QuietMove

(* mutex_lock returns: what was handed over is now held.                    *)
LEMMA QuietLockReturn ==
  ASSUME IInv, NEW c \in Contexts, LockReturn(c)
  PROVE  Quiet
<1>1. /\ Runs(c, "lock") /\ pc[c] = "lock" /\ cpu = c
      /\ holds' = [holds EXCEPT ![c] = @ \cup {obj[c]}]
      /\ obj' = [obj EXCEPT ![c] = NULL]
      /\ pc' = [pc EXCEPT ![c] = "run"]
      /\ UNCHANGED <<state, listVars, count, posted, taken>>
      /\ pc \in PcFuns /\ obj \in Places
      /\ holds \in [Threads -> SUBSET Mutexes]
  BY Types DEF IInv, TypeOK, LockReturn, Runs, Goto
<1>2. c \in Threads
  BY <1>1 DEF IInv, PlaceInv, Executing, Creating, Contexts
<1>3. state[c] = "RUNNING" /\ obj[c] \in Mutexes /\ holds[c] = {}
  BY <1>1, <1>2, Runner DEF Labels, Exiting, IInv, PlaceInv, Placed, Executing, Creating
<1>4. /\ pc'[c] = "run" /\ \A t \in Threads \ {c} : pc'[t] = pc[t]
      /\ \A t \in Threads \ {c} : obj'[t] = obj[t]
      /\ holds'[c] = {obj[c]} /\ \A t \in Threads \ {c} : holds'[t] = holds[t]
  BY <1>1, <1>2, <1>3 DEF PcFuns, Places, Contexts
<1>5. OwnersSame
  <2>1. ASSUME NEW t \in Threads, NEW m \in Mutexes
        PROVE  Owns(t, m)' <=> Owns(t, m)
    <3>1. CASE t = c
      BY <1>1, <1>3, <1>4, <3>1 DEF Owns
    <3>2. CASE t # c
      BY <1>1, <1>4, <3>2 DEF Owns
    <3>3. QED
      BY <3>1, <3>2
  <2>2. QED
    BY <2>1 DEF OwnersSame
<1>6. GrantsSame
  BY <1>1, <1>4 DEF GrantsSame, GrantedIn
<1>7. QED
  BY <1>1, <1>5, <1>6 DEF Quiet, QueuesSame, Items, listVars

LEMMA QuietSteps ==
  ASSUME IInv, [Next]_vars
  PROVE  Quiet \/ Loud
<1>1. CASE Tick
  <2>1. pc \in PcFuns /\ Alike(pc)
    BY Types DEF IInv, Alike, SameAt
  <2>2. QED
    BY <1>1, <2>1, QuietSwitch DEF Tick
<1>2. ASSUME NEW c \in Contexts, YieldSwitch(c)
      PROVE  Quiet
  <2>1. /\ Goto(c, "run") \in PcFuns
        /\ Alike(Goto(c, "run"))
    BY <1>2, Types DEF IInv, YieldSwitch, Runs, Goto, PcFuns, Labels, Contexts,
                          Alike, SameAt
  <2>2. QED
    BY <1>2, <2>1, QuietSwitch DEF YieldSwitch
<1>3. ASSUME NEW c \in Contexts, ExitSwitch(c)
      PROVE  Quiet
  <2>1. /\ Goto(c, "spin") \in PcFuns
        /\ Alike(Goto(c, "spin"))
    BY <1>3, Types DEF IInv, ExitSwitch, Runs, Goto, PcFuns, Labels, Contexts,
                          Alike, SameAt
  <2>2. QED
    BY <1>3, <2>1, QuietSwitch DEF ExitSwitch
<1>4. ASSUME NEW c \in Contexts, YieldCheck(c) \/ ExitFree(c) \/ ExitDetach(c)
      PROVE  Quiet
  <2>1. /\ UNCHANGED <<state, listVars, obj, syncVars>>
        /\ pc[c] \notin {"lock", "wait"}
        /\ \E label \in Labels \ {"lock", "wait"} : pc' = Goto(c, label)
    BY <1>4 DEF YieldCheck, ExitFree, ExitDetach, Runs, Labels
  <2>2. QED
    BY <2>1, QuietMove
<1>5. ASSUME NEW c \in Contexts, NEW t \in Threads, NEW s \in StackMem,
             CreateAlloc(c, t, s)
      PROVE  Quiet
  BY <1>5, QuietAlloc
<1>6. ASSUME NEW c \in Contexts, CreateStore(c) \/ CreateEnqueue(c)
      PROVE  Quiet
  BY <1>6, QuietStore, QuietEnqueue
<1>7. ASSUME NEW c \in Contexts, ExitZombie(c) \/ LockReturn(c)
      PROVE  Quiet
  BY <1>7, QuietExitZombie, QuietLockReturn
<1>8. CASE UNCHANGED vars
  BY <1>8 DEF vars, listVars, syncVars, Quiet, OwnersSame, Owns, GrantsSame,
              GrantedIn, QueuesSame, Items
<1> HIDE DEF Quiet, Contexts
<1>9. QED
  BY <1>1, <1>2, <1>3, <1>4, <1>5, <1>6, <1>7, <1>8 DEF Next, Loud

-----------------------------------------------------------------------------
(* The loud steps.                                                          *)

LEMMA LockFreeLoud ==
  ASSUME IInv, NEW c \in Contexts, NEW m \in Mutexes, LockFree(c, m)
  PROVE  /\ c \in Threads /\ state[c] = "RUNNING"
         /\ \A t \in Threads : ~Owns(t, m)
         /\ \A t \in Threads, k \in Mutexes :
              Owns(t, k)' <=> Owns(t, k) \/ (t = c /\ k = m)
         /\ GrantsSame /\ QueuesSame /\ UNCHANGED <<wait, count, posted, taken>>
<1>1. /\ c \in Threads /\ Runs(c, "run") /\ ~locked[m]
      /\ holds' = [holds EXCEPT ![c] = @ \cup {m}]
      /\ UNCHANGED <<state, listVars, pc, obj, count, posted, taken>>
      /\ holds \in [Threads -> SUBSET Mutexes]
  BY DEF LockFree, MayLock, IInv, TypeOK
<1>2. state[c] = "RUNNING"
  BY <1>1, Runner DEF Labels, Exiting
<1>3. \A t \in Threads : ~Owns(t, m)
  BY <1>1 DEF IInv, MutexInv, LockAccounted
<1>4. holds'[c] = holds[c] \cup {m} /\ \A t \in Threads \ {c} : holds'[t] = holds[t]
  BY <1>1
<1>5. \A t \in Threads, k \in Mutexes :
        Owns(t, k)' <=> Owns(t, k) \/ (t = c /\ k = m)
  BY <1>1, <1>4 DEF Owns
<1>6. GrantsSame /\ QueuesSame
  BY <1>1 DEF GrantsSame, GrantedIn, QueuesSame, Items, listVars
<1>7. QED
  BY <1>1, <1>2, <1>3, <1>5, <1>6 DEF listVars

LEMMA BlockLoud ==
  ASSUME IInv, NEW c \in Threads, Runs(c, "run"), NEW x \in Waitables,
         NEW label, Ready(state, pc) # {}, Block(c, x, label), UNCHANGED syncVars,
         \/ label = "lock" /\ x \in Mutexes
         \/ label = "wait" /\ x \in Sems
  PROVE  /\ state[c] = "RUNNING"
         /\ OwnersSame /\ GrantsSame
         /\ Items(wait[x])' = Append(Items(wait[x]), c)
         /\ \A w \in Waitables \ {x} :
              wait'[w] = wait[w] /\ Items(wait[w])' = Items(wait[w])
         /\ UNCHANGED <<count, posted, taken>>
<1> DEFINE n == run.head
<1>1. /\ state \in States /\ next \in Links /\ run \in Lists
      /\ wait \in WaitLists /\ obj \in Places /\ QueueInv /\ pc \in PcFuns
      /\ Unmade(state, pc)
  BY Types DEF IInv, PlaceInv, Placed, Unmade
<1>2. current = c /\ state[c] = "RUNNING" /\ pc[c] = "run"
  BY Runner DEF Labels, Exiting, Runs
<1>3. /\ Switched(Sleeping(c), Goto(c, label), n)
      /\ obj' = [obj EXCEPT ![c] = x]
      /\ \A w \in Waitables \ {x} : wait'[w] = wait[w]
  BY <1>1, <1>2, BlockEffect
<1>4. /\ Sleeping(c)[c] = "SLEEPING"
      /\ \A t \in Threads \ {c} : Sleeping(c)[t] = state[t]
      /\ Goto(c, label) \in PcFuns /\ Goto(c, label)[c] = label
      /\ \A t \in Threads \ {c} : Goto(c, label)[t] = pc[t]
      /\ obj'[c] = x /\ \A t \in Threads \ {c} : obj'[t] = obj[t]
  BY <1>1, <1>3 DEF Sleeping, Goto, States, PcFuns, Places, Contexts, Labels
<1>5. n \in Threads /\ n # c /\ Goto(c, label)[n] = pc[n]
  BY <1>3, <1>4 DEF Switched
<1>6. \A t \in Threads : state'[t] = "SLEEPING" <=> Sleeping(c)[t] = "SLEEPING"
  BY <1>3 DEF Switched
<1>7. \A t \in Threads : /\ pc'[t] = "lock" <=> Goto(c, label)[t] = "lock"
                         /\ pc'[t] = "wait" <=> Goto(c, label)[t] = "wait"
  BY <1>3, <1>4, <1>5 DEF Switched, PcFuns, Contexts
<1>8. state'[c] = "SLEEPING" /\ \A t \in Threads \ {c} : SamePlace(t)
  BY <1>4, <1>6, <1>7 DEF SamePlace
<1>9. \A t \in Threads, m \in Mutexes : Owns(t, m)' <=> Owns(t, m)
  <2>1. SUFFICES ASSUME NEW t \in Threads, NEW m \in Mutexes
                 PROVE  Owns(t, m)' <=> Owns(t, m)
    OBVIOUS
  <2>2. CASE t = c
    BY <1>2, <1>8, <2>2 DEF Owns, syncVars
  <2>3. CASE t # c
    BY <1>8, <2>3 DEF Owns, SamePlace, syncVars
  <2>4. QED
    BY <2>2, <2>3
<1>10. ASSUME NEW s \in Sems
       PROVE  GrantedIn(s)' = GrantedIn(s)
  <2>1. c \notin GrantedIn(s) /\ c \notin GrantedIn(s)'
    BY <1>2, <1>8 DEF GrantedIn
  <2>2. \A t \in Threads \ {c} : t \in GrantedIn(s)' <=> t \in GrantedIn(s)
    BY <1>8 DEF GrantedIn, SamePlace
  <2>3. GrantedIn(s) \subseteq Threads /\ GrantedIn(s)' \subseteq Threads
    BY DEF GrantedIn
  <2>4. QED
    BY <2>1, <2>2, <2>3
<1>11. /\ Items(wait[x])' = Append(Items(wait[x]), c)
       /\ \A w \in Waitables \ {x} : Items(wait[w])' = Items(wait[w])
  BY BlockedItems
<1>12. QED
  BY <1>2, <1>3, <1>9, <1>10, <1>11 DEF OwnersSame, GrantsSame, syncVars

(* Only the first waiter notices that it is woken.                          *)
LEMMA WakeLoud ==
  ASSUME IInv, NEW c \in Threads, Runs(c, "run"), NEW x \in Waitables,
         wait[x].head # NULL, Wake(x), UNCHANGED <<current, cpu, pc, obj>>
  PROVE  /\ wait[x].head \in Threads \ {c}
         /\ obj[wait[x].head] = x
         /\ state[wait[x].head] = "SLEEPING" /\ state'[wait[x].head] = "READY"
         /\ \A t \in Threads \ {wait[x].head} : state'[t] = state[t]
         /\ Items(wait[x]) # <<>> /\ Items(wait[x])[1] = wait[x].head
         /\ Items(wait[x])' = Tail(Items(wait[x]))
         /\ \A w \in Waitables \ {x} :
              wait'[w] = wait[w] /\ Items(wait[w])' = Items(wait[w])
<1>1. /\ state \in States /\ next \in Links /\ run \in Lists
      /\ wait \in WaitLists /\ obj \in Places /\ QueueInv
      /\ Unmade(state, pc)
  BY Types DEF IInv, PlaceInv, Placed, Unmade
<1>2. /\ wait[x].head \in Threads /\ state[wait[x].head] = "SLEEPING"
      /\ obj[wait[x].head] = x
      /\ state' = [state EXCEPT ![wait[x].head] = "READY"]
  BY <1>1, WakeEffect
<1>3. state[c] = "RUNNING"
  BY Runner DEF Labels, Exiting
<1>4. \A w \in Waitables \ {x} : wait'[w] = wait[w]
  BY <1>1 DEF Wake, WaitLists
<1>5. /\ Items(wait[x]) # <<>> /\ Items(wait[x])[1] = wait[x].head
      /\ Items(wait[x])' = Tail(Items(wait[x]))
      /\ \A w \in Waitables \ {x} : Items(wait[w])' = Items(wait[w])
  BY WokenItems
<1>6. QED
  BY <1>1, <1>2, <1>3, <1>4, <1>5 DEF States

LEMMA UnlockLoud ==
  ASSUME IInv, NEW c \in Contexts, NEW m \in Mutexes, Unlock(c, m)
  PROVE  /\ c \in Threads /\ state[c] = "RUNNING" /\ Owns(c, m)
         /\ GrantsSame /\ UNCHANGED <<count, posted, taken>>
         /\ \A w \in Waitables \ {m} :
              wait'[w] = wait[w] /\ Items(wait[w])' = Items(wait[w])
         /\ \A t \in Threads, k \in Mutexes \ {m} : Owns(t, k)' <=> Owns(t, k)
         /\ \/ /\ Items(wait[m]) = <<>> /\ Items(wait[m])' = <<>>
               /\ \A t \in Threads : ~Owns(t, m)'
            \/ /\ Items(wait[m]) # <<>> /\ Items(wait[m])' = Tail(Items(wait[m]))
               /\ \A t \in Threads : Owns(t, m)' <=> t = Items(wait[m])[1]
<1>1. /\ c \in Threads /\ Runs(c, "run") /\ pc[c] = "run" /\ m \in holds[c]
      /\ m \in Waitables
      /\ holds' = [holds EXCEPT ![c] = @ \ {m}]
      /\ UNCHANGED <<current, cpu, pc, obj, count, posted, taken>>
      /\ holds \in [Threads -> SUBSET Mutexes]
  BY DEF Unlock, Runs, Waitables, IInv, TypeOK
<1>2. state[c] = "RUNNING" /\ Owns(c, m)
  BY <1>1, Runner DEF Labels, Exiting, Owns
<1>3. holds'[c] = holds[c] \ {m} /\ \A t \in Threads \ {c} : holds'[t] = holds[t]
  BY <1>1
<1>4. \A t \in Threads : Owns(t, m) <=> t = c
  BY <1>1, <1>2 DEF IInv, MutexInv, MutualExclusion
<1>5. CASE wait[m].head = NULL
  <2>1. UNCHANGED <<state, listVars>>
    BY <1>5 DEF Unlock
  <2>2. \A t \in Threads, k \in Mutexes : Owns(t, k)' <=> Owns(t, k) /\ k # m
    <3>1. SUFFICES ASSUME NEW t \in Threads, NEW k \in Mutexes
                   PROVE  Owns(t, k)' <=> Owns(t, k) /\ k # m
      OBVIOUS
    <3>2. CASE t = c
      BY <1>1, <1>3, <2>1, <3>2 DEF Owns
    <3>3. CASE t # c
      BY <1>1, <1>3, <1>4, <2>1, <3>3 DEF Owns
    <3>4. QED
      BY <3>2, <3>3
  <2>3. GrantsSame /\ QueuesSame
    BY <1>1, <2>1 DEF GrantsSame, GrantedIn, QueuesSame, Items, listVars
  <2>4. Items(wait[m]) = <<>>
    <3>1. Items(wait[m]) # <<>> => Items(wait[m])[1] \in Threads
      BY <1>1, OnWaitList, EmptySeq, ElementOfSeq
    <3>2. QED
      BY <1>1, <1>5, <3>1, OnWaitList, ConstantsAssumption
  <2>5. Items(wait[m])' = <<>>
    BY <1>1, <2>3, <2>4 DEF QueuesSame
  <2>6. \A w \in Waitables \ {m} :
          wait'[w] = wait[w] /\ Items(wait[w])' = Items(wait[w])
    BY <2>1, <2>3 DEF QueuesSame, listVars
  <2>7. QED
    BY <1>1, <1>2, <2>2, <2>3, <2>4, <2>5, <2>6
<1>6. CASE wait[m].head # NULL
  <2> DEFINE h == wait[m].head
  <2>1. Wake(m)
    BY <1>6 DEF Unlock
  <2>2. /\ h \in Threads \ {c} /\ obj[h] = m
        /\ state[h] = "SLEEPING" /\ state'[h] = "READY"
        /\ \A t \in Threads \ {h} : state'[t] = state[t]
        /\ Items(wait[m]) # <<>> /\ Items(wait[m])[1] = h
        /\ Items(wait[m])' = Tail(Items(wait[m]))
        /\ \A w \in Waitables \ {m} :
             wait'[w] = wait[w] /\ Items(wait[w])' = Items(wait[w])
    BY <1>1, <1>6, <2>1, WakeLoud
  <2> HIDE DEF h
  <2>3. pc[h] = "lock" /\ holds[h] = {}
    BY <2>2, ConstantsAssumption
       DEF IInv, PlaceInv, Placed, Executing, Creating
  <2>4. \A t \in Threads : Owns(t, m)' <=> t = h
    <3>1. SUFFICES ASSUME NEW t \in Threads
                   PROVE  Owns(t, m)' <=> t = h
      OBVIOUS
    <3>2. CASE t = h
      BY <1>1, <2>2, <2>3, <3>2 DEF Owns
    <3>3. CASE t = c
      BY <1>1, <1>3, <2>2, <3>3 DEF Owns
    <3>4. CASE t # h /\ t # c
      BY <1>1, <1>3, <1>4, <2>2, <3>4 DEF Owns
    <3>5. QED
      BY <3>2, <3>3, <3>4
  <2>5. ASSUME NEW t \in Threads, NEW k \in Mutexes \ {m}
        PROVE  Owns(t, k)' <=> Owns(t, k)
    <3>1. CASE t = h
      BY <1>1, <1>3, <2>2, <2>3, <3>1 DEF Owns
    <3>2. CASE t = c
      BY <1>1, <1>3, <2>2, <2>5, <3>2 DEF Owns
    <3>3. CASE t # h /\ t # c
      BY <1>1, <1>3, <2>2, <3>3 DEF Owns
    <3>4. QED
      BY <3>1, <3>2, <3>3
  <2>6. ASSUME NEW s \in Sems
        PROVE  GrantedIn(s)' = GrantedIn(s)
    <3>1. h \notin GrantedIn(s) /\ h \notin GrantedIn(s)'
      BY <1>1, <2>3 DEF GrantedIn
    <3>2. \A t \in Threads \ {h} : t \in GrantedIn(s)' <=> t \in GrantedIn(s)
      BY <1>1, <2>2 DEF GrantedIn
    <3>3. GrantedIn(s) \subseteq Threads /\ GrantedIn(s)' \subseteq Threads
      BY DEF GrantedIn
    <3>4. QED
      BY <3>1, <3>2, <3>3
  <2>7. GrantsSame
    BY <2>6 DEF GrantsSame
  <2>8. QED
    BY <1>1, <1>2, <2>2, <2>4, <2>5, <2>7
<1>7. QED
  BY <1>5, <1>6

LEMMA WaitTakeLoud ==
  ASSUME IInv, NEW c \in Contexts, NEW s \in Sems, WaitTake(c, s)
  PROVE  /\ c \in Threads /\ state[c] = "RUNNING" /\ count[s] > 0
         /\ count' = [count EXCEPT ![s] = @ - 1]
         /\ taken' = [taken EXCEPT ![s] = @ + 1] /\ UNCHANGED <<wait, posted>>
         /\ OwnersSame /\ GrantsSame /\ QueuesSame
<1>1. /\ c \in Threads /\ Runs(c, "run") /\ count[s] > 0
      /\ count' = [count EXCEPT ![s] = @ - 1]
      /\ taken' = [taken EXCEPT ![s] = @ + 1]
      /\ UNCHANGED <<state, listVars, pc, obj, holds, posted>>
  BY DEF WaitTake, MayWait
<1>2. state[c] = "RUNNING"
  BY <1>1, Runner DEF Labels, Exiting
<1>3. OwnersSame /\ GrantsSame /\ QueuesSame
  BY <1>1 DEF OwnersSame, Owns, GrantsSame, GrantedIn, QueuesSame, Items, listVars
<1>4. QED
  BY <1>1, <1>2, <1>3 DEF listVars

LEMMA WaitReturnLoud ==
  ASSUME IInv, NEW c \in Contexts, WaitReturn(c)
  PROVE  \E s \in Sems :
           /\ c \in Threads /\ c \in GrantedIn(s)
           /\ GrantedIn(s)' = GrantedIn(s) \ {c}
           /\ \A z \in Sems \ {s} : GrantedIn(z)' = GrantedIn(z)
           /\ taken' = [taken EXCEPT ![s] = @ + 1]
           /\ UNCHANGED <<wait, count, posted>>
           /\ OwnersSame /\ QueuesSame
<1>1. /\ Runs(c, "wait") /\ pc[c] = "wait"
      /\ taken' = [taken EXCEPT ![obj[c]] = @ + 1]
      /\ obj' = [obj EXCEPT ![c] = NULL]
      /\ pc' = [pc EXCEPT ![c] = "run"]
      /\ UNCHANGED <<state, listVars, holds, count, posted>>
      /\ pc \in PcFuns /\ obj \in Places
  BY Types DEF IInv, WaitReturn, Runs, Goto
<1>2. c \in Threads
  BY <1>1 DEF IInv, PlaceInv, Executing, Creating, Contexts
<1>3. state[c] = "RUNNING" /\ obj[c] \in Sems
  BY <1>1, <1>2, Runner DEF Labels, Exiting, IInv, PlaceInv, Placed
<1>4. /\ pc'[c] = "run" /\ \A t \in Threads \ {c} : pc'[t] = pc[t]
      /\ \A t \in Threads \ {c} : obj'[t] = obj[t]
  BY <1>1, <1>2 DEF PcFuns, Places, Contexts
<1>5. OwnersSame
  BY <1>1, <1>4 DEF OwnersSame, Owns
<1>6. QueuesSame
  BY <1>1 DEF QueuesSame, Items, listVars
<1>7. PICK s \in Sems : s = obj[c]
  BY <1>3
<1>8. c \in GrantedIn(s)
  BY <1>1, <1>2, <1>3, <1>7 DEF GrantedIn
<1>9. ASSUME NEW z \in Sems
      PROVE  GrantedIn(z)' = GrantedIn(z) \ {c}
  BY <1>1, <1>4 DEF GrantedIn
<1>10. \A z \in Sems \ {s} : GrantedIn(z)' = GrantedIn(z)
  <2>1. \A z \in Sems \ {s} : c \notin GrantedIn(z)
    BY <1>7 DEF GrantedIn
  <2>2. QED
    BY <1>9, <2>1
<1>11. taken' = [taken EXCEPT ![s] = @ + 1] /\ UNCHANGED <<wait, count, posted>>
  BY <1>1, <1>7 DEF listVars
<1>12. QED
  BY <1>2, <1>5, <1>6, <1>8, <1>9, <1>10, <1>11

LEMMA PostLoud ==
  ASSUME IInv, NEW c \in Contexts, NEW s \in Sems, Post(c, s)
  PROVE  /\ OwnersSame /\ posted' = [posted EXCEPT ![s] = @ + 1] /\ taken' = taken
         /\ \A w \in Waitables \ {s} :
              wait'[w] = wait[w] /\ Items(wait[w])' = Items(wait[w])
         /\ \A z \in Sems \ {s} : GrantedIn(z)' = GrantedIn(z)
         /\ \/ /\ Items(wait[s]) = <<>> /\ Items(wait[s])' = <<>>
               /\ wait[s].head = NULL /\ wait' = wait
               /\ count' = [count EXCEPT ![s] = @ + 1]
               /\ GrantedIn(s)' = GrantedIn(s)
            \/ /\ Items(wait[s]) # <<>> /\ Items(wait[s])' = Tail(Items(wait[s]))
               /\ wait[s].head # NULL /\ count' = count
               /\ Items(wait[s])[1] \in Threads \ GrantedIn(s)
               /\ GrantedIn(s)' = GrantedIn(s) \cup {Items(wait[s])[1]}
<1>1. /\ c \in Threads /\ Runs(c, "run") /\ s \in Waitables
      /\ posted' = [posted EXCEPT ![s] = @ + 1]
      /\ UNCHANGED <<current, cpu, pc, obj, holds, taken>>
  BY DEF Post, Waitables
<1>2. CASE wait[s].head = NULL
  <2>1. count' = [count EXCEPT ![s] = @ + 1] /\ UNCHANGED <<state, listVars>>
    BY <1>2 DEF Post
  <2>2. OwnersSame /\ GrantsSame /\ QueuesSame
    BY <1>1, <2>1 DEF OwnersSame, Owns, GrantsSame, GrantedIn, QueuesSame, Items, listVars
  <2>3. Items(wait[s]) = <<>>
    <3>1. Items(wait[s]) # <<>> => Items(wait[s])[1] \in Threads
      BY <1>1, OnWaitList, EmptySeq, ElementOfSeq
    <3>2. QED
      BY <1>1, <1>2, <3>1, OnWaitList, ConstantsAssumption
  <2>4. wait' = wait
    BY <2>1 DEF listVars
  <2>5. QED
    BY <1>1, <1>2, <2>1, <2>2, <2>3, <2>4 DEF GrantsSame, QueuesSame
<1>3. CASE wait[s].head # NULL
  <2> DEFINE h == wait[s].head
  <2>1. Wake(s) /\ count' = count
    BY <1>3 DEF Post
  <2>2. /\ h \in Threads \ {c} /\ obj[h] = s
        /\ state[h] = "SLEEPING" /\ state'[h] = "READY"
        /\ \A t \in Threads \ {h} : state'[t] = state[t]
        /\ Items(wait[s]) # <<>> /\ Items(wait[s])[1] = h
        /\ Items(wait[s])' = Tail(Items(wait[s]))
        /\ \A w \in Waitables \ {s} :
             wait'[w] = wait[w] /\ Items(wait[w])' = Items(wait[w])
    BY <1>1, <1>3, <2>1, WakeLoud
  <2> HIDE DEF h
  <2>3. pc[h] = "wait"
    BY <2>2, ConstantsAssumption DEF IInv, PlaceInv, Placed
  <2>4. OwnersSame
    <3>1. \A t \in Threads, m \in Mutexes : Owns(t, m)' <=> Owns(t, m)
      BY <1>1, <2>2, <2>3 DEF Owns
    <3>2. QED
      BY <3>1 DEF OwnersSame
  <2>5. ASSUME NEW z \in Sems
        PROVE  /\ h \notin GrantedIn(z)
               /\ h \in GrantedIn(z)' <=> z = s
               /\ \A t \in Threads \ {h} : t \in GrantedIn(z)' <=> t \in GrantedIn(z)
               /\ GrantedIn(z) \subseteq Threads /\ GrantedIn(z)' \subseteq Threads
    BY <1>1, <2>2, <2>3 DEF GrantedIn
  <2>6. ASSUME NEW z \in Sems \ {s}
        PROVE  GrantedIn(z)' = GrantedIn(z)
    BY <2>5, <2>6
  <2>7. GrantedIn(s)' = GrantedIn(s) \cup {h}
    BY <2>2, <2>5
  <2>8. h \in Threads \ GrantedIn(s)
    BY <2>2, <2>5
  <2>9. QED
    BY <1>1, <1>3, <2>1, <2>2, <2>4, <2>6, <2>7, <2>8
<1>4. QED
  BY <1>2, <1>3

-----------------------------------------------------------------------------
(* Semaphores.                                                              *)

TokenInv == \A s \in Sems : count[s] > 0 => wait[s].head = NULL

LEMMA TokenNext ==
  ASSUME IInv, NeedResident, TokenInv, [Next]_vars
  PROVE  TokenInv'
<1>0. /\ count \in [Sems -> Nat] /\ Sems \subseteq Waitables
      /\ Mutexes \subseteq Waitables /\ Mutexes \cap Sems = {}
  BY ConstantsAssumption DEF IInv, TypeOK, Waitables
<1>1. CASE Quiet
  BY <1>1 DEF Quiet, TokenInv
<1>2. ASSUME NEW c \in Contexts, NEW m \in Mutexes, LockFree(c, m)
      PROVE  TokenInv'
  BY <1>2, LockFreeLoud DEF TokenInv
<1>3. ASSUME NEW c \in Contexts, NEW m \in Mutexes, LockBlock(c, m)
      PROVE  TokenInv'
  <2>1. /\ c \in Threads /\ Runs(c, "run") /\ m \in Waitables /\ Ready(state, pc) # {}
        /\ Block(c, m, "lock") /\ UNCHANGED syncVars
    BY <1>0, <1>3, OwnerReady DEF LockBlock, MayLock
  <2>2. /\ UNCHANGED <<count, posted, taken>>
        /\ \A w \in Waitables \ {m} : wait'[w] = wait[w]
    BY <2>1, BlockLoud
  <2>3. QED
    BY <1>0, <2>2 DEF TokenInv
<1>4. ASSUME NEW c \in Contexts, NEW m \in Mutexes, Unlock(c, m)
      PROVE  TokenInv'
  <2>1. count' = count /\ \A w \in Waitables \ {m} : wait'[w] = wait[w]
    BY <1>4, UnlockLoud
  <2>2. QED
    BY <1>0, <2>1 DEF TokenInv
<1>5. ASSUME NEW c \in Contexts, NEW s \in Sems, WaitTake(c, s)
      PROVE  TokenInv'
  <2>1. count' = [count EXCEPT ![s] = @ - 1] /\ wait' = wait /\ count[s] > 0
    BY <1>5, WaitTakeLoud
  <2>2. \A z \in Sems : count'[z] > 0 => count[z] > 0
    BY <1>0, <2>1
  <2>3. QED
    BY <2>1, <2>2 DEF TokenInv
<1>6. ASSUME NEW c \in Contexts, NEW s \in Sems, WaitBlock(c, s)
      PROVE  TokenInv'
  <2>1. /\ c \in Threads /\ Runs(c, "run") /\ s \in Waitables /\ Ready(state, pc) # {}
        /\ Block(c, s, "wait") /\ UNCHANGED syncVars /\ count[s] = 0
    BY <1>0, <1>6, ResidentReady DEF WaitBlock, MayWait
  <2>2. /\ count' = count
        /\ \A w \in Waitables \ {s} : wait'[w] = wait[w]
    BY <2>1, BlockLoud
  <2>3. QED
    BY <1>0, <2>1, <2>2 DEF TokenInv
<1>7. ASSUME NEW c \in Contexts, NEW s \in Sems, Post(c, s)
      PROVE  TokenInv'
  <2>1. /\ \A w \in Waitables \ {s} : wait'[w] = wait[w]
        /\ \/ /\ wait[s].head = NULL /\ wait' = wait
              /\ count' = [count EXCEPT ![s] = @ + 1]
           \/ wait[s].head # NULL /\ count' = count
    BY <1>7, PostLoud
  <2>2. CASE wait[s].head = NULL
    BY <1>0, <2>1, <2>2 DEF TokenInv
  <2>3. CASE wait[s].head # NULL
    <3>1. ~(count[s] > 0)
      BY <2>3 DEF TokenInv
    <3>2. QED
      BY <1>0, <2>1, <2>3, <3>1 DEF TokenInv
  <2>4. QED
    BY <2>2, <2>3
<1>8. ASSUME NEW c \in Contexts, WaitReturn(c)
      PROVE  TokenInv'
  BY <1>8, WaitReturnLoud DEF TokenInv
<1>9. QED
  BY <1>1, <1>2, <1>3, <1>4, <1>5, <1>6, <1>7, <1>8, QuietSteps DEF Loud

(* No lost wakeup: sem_wait and sem_post never leave a thread asleep beside *)
(* a token, however the timer separates a waiter's test from its sleep.     *)
THEOREM NoWakeupLost ==
  ASSUME NeedResident
  PROVE  Spec => []NoLostWakeup
<1>1. Init => TokenInv
  BY DEF Init, TokenInv, EmptyList, Waitables
<1>2. IInv /\ TokenInv /\ [Next]_vars => TokenInv'
  BY TokenNext
<1>3. IInv /\ TokenInv => NoLostWakeup
  <2>1. SUFFICES ASSUME IInv, TokenInv, NEW s \in Sems, count[s] > 0
                 PROVE  Members(wait[s]) = {}
    BY DEF NoLostWakeup
  <2>2. s \in Waitables /\ wait[s].head = NULL
    BY <2>1 DEF TokenInv, Waitables
  <2>3. Items(wait[s]) = <<>>
    <3>1. Items(wait[s]) # <<>> => Items(wait[s])[1] \in Threads
      BY <2>1, <2>2, OnWaitList, EmptySeq, ElementOfSeq
    <3>2. QED
      BY <2>1, <2>2, <3>1, OnWaitList, ConstantsAssumption
  <2>4. QED
    BY <2>3 DEF Members
<1>4. QED
  BY <1>1, <1>2, <1>3, Invariance, PTL DEF Spec

(* The balance of semaphore s.                                              *)
Balanced(s) == SemInit[s] + posted[s] = count[s] + taken[s] + Granted(s)

LEMMA GrantedCount ==
  ASSUME NEW s
  PROVE  /\ IsFiniteSet(GrantedIn(s)) /\ Granted(s) = Cardinality(GrantedIn(s))
         /\ IsFiniteSet(GrantedIn(s)') /\ Granted(s)' = Cardinality(GrantedIn(s)')
         /\ Granted(s) \in Nat /\ Granted(s)' \in Nat
<1>1. GrantedIn(s) \in SUBSET Threads /\ GrantedIn(s)' \in SUBSET Threads
  BY DEF GrantedIn
<1>2. IsFiniteSet(GrantedIn(s)) /\ IsFiniteSet(GrantedIn(s)')
  BY <1>1, ConstantsAssumption, FS_Subset
<1>3. /\ Granted(s) = Cardinality(GrantedIn(s))
      /\ Granted(s)' = Cardinality(GrantedIn(s)')
  BY DEF Granted, GrantedIn
<1>4. QED
  BY <1>2, <1>3, FS_CardinalityType

LEMMA BalanceNext ==
  ASSUME IInv, NeedResident, TokensConserved, [Next]_vars
  PROVE  TokensConserved'
<1>0. /\ count \in [Sems -> Nat] /\ posted \in [Sems -> Nat]
      /\ taken \in [Sems -> Nat] /\ SemInit \in [Sems -> Nat]
      /\ \A s \in Sems : Balanced(s)
  BY ConstantsAssumption DEF IInv, TypeOK, TokensConserved, Balanced
<1>1. SUFFICES ASSUME NEW s \in Sems PROVE Balanced(s)'
  BY DEF TokensConserved, Balanced
<1>2. ASSUME GrantedIn(s)' = GrantedIn(s), UNCHANGED <<count, posted, taken>>
      PROVE  Balanced(s)'
  BY <1>0, <1>2, GrantedCount DEF Balanced
<1>3. CASE Quiet
  BY <1>2, <1>3 DEF Quiet, GrantsSame
<1>4. ASSUME NEW c \in Contexts, NEW m \in Mutexes,
             LockFree(c, m) \/ LockBlock(c, m) \/ Unlock(c, m)
      PROVE  Balanced(s)'
  <2>1. CASE LockFree(c, m)
    BY <1>2, <2>1, LockFreeLoud DEF GrantsSame
  <2>2. CASE LockBlock(c, m)
    <3>1. /\ c \in Threads /\ Runs(c, "run") /\ m \in Waitables /\ Ready(state, pc) # {}
          /\ Block(c, m, "lock") /\ UNCHANGED syncVars
      BY <2>2, OwnerReady DEF LockBlock, MayLock, Waitables
    <3>2. GrantsSame /\ UNCHANGED <<count, posted, taken>>
      BY <3>1, BlockLoud
    <3>3. QED
      BY <1>2, <3>2 DEF GrantsSame
  <2>3. CASE Unlock(c, m)
    BY <1>2, <2>3, UnlockLoud DEF GrantsSame
  <2>4. QED
    BY <1>4, <2>1, <2>2, <2>3
<1>5. ASSUME NEW c \in Contexts, NEW z \in Sems, WaitTake(c, z)
      PROVE  Balanced(s)'
  <2>1. /\ count[z] > 0 /\ count' = [count EXCEPT ![z] = @ - 1]
        /\ taken' = [taken EXCEPT ![z] = @ + 1] /\ posted' = posted
        /\ GrantedIn(s)' = GrantedIn(s)
    BY <1>5, WaitTakeLoud DEF GrantsSame
  <2>2. Granted(s)' = Granted(s) /\ Granted(s) \in Nat
    BY <2>1, GrantedCount
  <2>3. QED
    BY <1>0, <2>1, <2>2 DEF Balanced
<1>6. ASSUME NEW c \in Contexts, NEW z \in Sems, WaitBlock(c, z)
      PROVE  Balanced(s)'
  <2>1. /\ c \in Threads /\ Runs(c, "run") /\ z \in Waitables /\ Ready(state, pc) # {}
        /\ Block(c, z, "wait") /\ UNCHANGED syncVars
    BY <1>6, ResidentReady DEF WaitBlock, MayWait, Waitables
  <2>2. GrantsSame /\ UNCHANGED <<count, posted, taken>>
    BY <2>1, BlockLoud
  <2>3. QED
    BY <1>2, <2>2 DEF GrantsSame
<1>7. ASSUME NEW c \in Contexts, NEW z \in Sems, Post(c, z)
      PROVE  Balanced(s)'
  <2>1. posted' = [posted EXCEPT ![z] = @ + 1] /\ taken' = taken
    BY <1>7, PostLoud
  <2>2. CASE s # z
    <3>1. GrantedIn(s)' = GrantedIn(s) /\ count'[s] = count[s]
      BY <1>0, <1>7, <2>2, PostLoud
    <3>2. Granted(s)' = Granted(s) /\ Granted(s) \in Nat
      BY <3>1, GrantedCount
    <3>3. QED
      BY <1>0, <2>1, <2>2, <3>1, <3>2 DEF Balanced
  <2>3. CASE s = z
    <3>1. \/ /\ count' = [count EXCEPT ![s] = @ + 1]
             /\ GrantedIn(s)' = GrantedIn(s)
          \/ \E h : /\ count' = count /\ h \notin GrantedIn(s)
                    /\ GrantedIn(s)' = GrantedIn(s) \cup {h}
      BY <1>7, <2>3, PostLoud
    <3>2. CASE count' = [count EXCEPT ![s] = @ + 1] /\ GrantedIn(s)' = GrantedIn(s)
      <4>1. Granted(s)' = Granted(s) /\ Granted(s) \in Nat
        BY <3>2, GrantedCount
      <4>2. QED
        BY <1>0, <2>1, <2>3, <3>2, <4>1 DEF Balanced
    <3>3. ASSUME NEW h, count' = count, h \notin GrantedIn(s),
                 GrantedIn(s)' = GrantedIn(s) \cup {h}
          PROVE  Balanced(s)'
      <4>1. Granted(s)' = Granted(s) + 1 /\ Granted(s) \in Nat
        BY <3>3, GrantedCount, FS_AddElement
      <4>2. QED
        BY <1>0, <2>1, <2>3, <3>3, <4>1 DEF Balanced
    <3>4. QED
      BY <3>1, <3>2, <3>3
  <2>4. QED
    BY <2>2, <2>3
<1>8. ASSUME NEW c \in Contexts, WaitReturn(c)
      PROVE  Balanced(s)'
  <2>1. PICK z \in Sems :
          /\ c \in GrantedIn(z) /\ GrantedIn(z)' = GrantedIn(z) \ {c}
          /\ \A y \in Sems \ {z} : GrantedIn(y)' = GrantedIn(y)
          /\ taken' = [taken EXCEPT ![z] = @ + 1] /\ UNCHANGED <<count, posted>>
    BY <1>8, WaitReturnLoud
  <2>2. CASE s # z
    <3>1. Granted(s)' = Granted(s) /\ Granted(s) \in Nat
      BY <2>1, <2>2, GrantedCount
    <3>2. QED
      BY <1>0, <2>1, <2>2, <3>1 DEF Balanced
  <2>3. CASE s = z
    <3>1. Granted(s)' = Granted(s) - 1 /\ Granted(s) \in Nat
      BY <2>1, <2>3, GrantedCount, FS_RemoveElement
    <3>2. QED
      BY <1>0, <2>1, <2>3, <3>1 DEF Balanced
  <2>4. QED
    BY <2>2, <2>3
<1>9. QED
  BY <1>3, <1>4, <1>5, <1>6, <1>7, <1>8, QuietSteps DEF Loud

(* A semaphore conserves its tokens: what it started with and what was      *)
(* posted is in the count, or was taken, or is on its way to a waiter.      *)
THEOREM TokensBalanced ==
  ASSUME NeedResident
  PROVE  Spec => []TokensConserved
<1>1. Init => TokensConserved
  <2>1. SUFFICES ASSUME Init, NEW s \in Sems PROVE Balanced(s)
    BY DEF TokensConserved, Balanced
  <2>2. GrantedIn(s) = {}
    BY <2>1 DEF Init, GrantedIn, Contexts
  <2>3. Granted(s) = 0
    BY <2>2, GrantedCount, FS_EmptySet
  <2>4. QED
    BY <2>1, <2>3, ConstantsAssumption DEF Init, Balanced
<1>2. IInv /\ TokensConserved /\ [Next]_vars => TokensConserved'
  BY BalanceNext
<1>3. QED
  BY <1>1, <1>2, Invariance, PTL DEF Spec

-----------------------------------------------------------------------------
(* The package implements Sync.                                             *)

Owners == [m \in Mutexes |-> OwnerOf(m)]
Queues == [w \in Waitables |-> Items(wait[w])]
Grants == [s \in Sems |-> GrantedIn(s)]

LEMMA OwnerIs ==
  ASSUME IInv, NEW m \in Mutexes
  PROVE  /\ \A t \in Threads : Owns(t, m) => OwnerOf(m) = t
         /\ (\A t \in Threads : ~Owns(t, m)) => OwnerOf(m) = NULL
<1>1. MutualExclusion
  BY DEF IInv, MutexInv
<1>2. QED
  BY <1>1 DEF MutualExclusion, OwnerOf

LEMMA OwnerIsNext ==
  ASSUME IInv', NEW m \in Mutexes
  PROVE  /\ \A t \in Threads : Owns(t, m)' => OwnerOf(m)' = t
         /\ (\A t \in Threads : ~Owns(t, m)') => OwnerOf(m)' = NULL
<1>1. MutualExclusion'
  BY DEF IInv, MutexInv
<1>2. QED
  BY <1>1 DEF MutualExclusion, OwnerOf

LEMMA OwnerStays ==
  ASSUME IInv, IInv', NEW m \in Mutexes,
         \A t \in Threads : Owns(t, m)' <=> Owns(t, m)
  PROVE  OwnerOf(m)' = OwnerOf(m)
<1>1. CASE \E t \in Threads : Owns(t, m)
  <2>1. PICK t \in Threads : Owns(t, m)
    BY <1>1
  <2>2. OwnerOf(m) = t /\ OwnerOf(m)' = t
    BY <2>1, OwnerIs, OwnerIsNext
  <2>3. QED
    BY <2>2
<1>2. CASE \A t \in Threads : ~Owns(t, m)
  <2>1. OwnerOf(m) = NULL /\ OwnerOf(m)' = NULL
    BY <1>2, OwnerIs, OwnerIsNext
  <2>2. QED
    BY <2>1
<1>3. QED
  BY <1>1, <1>2

(* A running thread is in no line.                                          *)
LEMMA NotWaiting ==
  ASSUME IInv, NEW c \in Threads, state[c] = "RUNNING"
  PROVE  ~Promise!Waiting(c)
<1>1. ASSUME NEW w \in Waitables
      PROVE  \A i \in DOMAIN Items(wait[w]) : Items(wait[w])[i] # c
  <2>1. /\ Items(wait[w]) \in Seq(Threads)
        /\ {Items(wait[w])[i] : i \in 1..Len(Items(wait[w]))} =
             {t \in Threads : state[t] = "SLEEPING" /\ obj[t] = w}
    BY OnWaitList
  <2>2. DOMAIN Items(wait[w]) = 1..Len(Items(wait[w]))
    BY <2>1, LenProperties
  <2>3. QED
    BY <2>1, <2>2
<1>2. QED
  BY <1>1 DEF Promise!Waiting, Waitables

LEMMA OwnersStay ==
  ASSUME IInv, IInv', OwnersSame
  PROVE  Owners' = Owners
BY OwnerStays DEF OwnersSame, Owners

LEMMA SyncUnchanged ==
  ASSUME Owners' = Owners, Queues' = Queues, Grants' = Grants, count' = count
  PROVE  UNCHANGED Promise!syncVars
BY DEF Promise!syncVars, Owners, Queues, Grants

LEMMA LockFreeSync ==
  ASSUME IInv, IInv', NEW c \in Contexts, NEW m \in Mutexes, LockFree(c, m)
  PROVE  c \in Threads /\ Promise!Acquire(c, m)
<1>1. /\ c \in Threads /\ state[c] = "RUNNING"
      /\ \A t \in Threads : ~Owns(t, m)
      /\ \A t \in Threads, k \in Mutexes :
           Owns(t, k)' <=> Owns(t, k) \/ (t = c /\ k = m)
      /\ GrantsSame /\ QueuesSame /\ UNCHANGED count
  BY LockFreeLoud
<1>2. ~Promise!Waiting(c)
  BY <1>1, NotWaiting
<1>3. OwnerOf(m) = NULL /\ OwnerOf(m)' = c
  BY <1>1, OwnerIs, OwnerIsNext
<1>4. ASSUME NEW k \in Mutexes \ {m}
      PROVE  OwnerOf(k)' = OwnerOf(k)
  BY <1>1, OwnerStays
<1>5. Owners' = [Owners EXCEPT ![m] = c]
  BY <1>3, <1>4 DEF Owners
<1>6. Queues' = Queues /\ Grants' = Grants
  BY <1>1 DEF QueuesSame, GrantsSame, Queues, Grants
<1>7. Owners[m] = NULL
  BY <1>3 DEF Owners
<1>8. QED
  BY <1>1, <1>2, <1>5, <1>6, <1>7 DEF Promise!Acquire, Owners, Queues, Grants

(* The blocking half of mutex_lock and of sem_wait joins the line.          *)
LEMMA BlockSync ==
  ASSUME IInv, IInv', NEW c \in Threads, Runs(c, "run"), NEW x \in Waitables,
         NEW label, Ready(state, pc) # {}, Block(c, x, label), UNCHANGED syncVars,
         \/ label = "lock" /\ x \in Mutexes
         \/ label = "wait" /\ x \in Sems,
         x \in Mutexes => OwnerOf(x) \notin {NULL, c},
         x \in Sems => count[x] = 0
  PROVE  Promise!Await(c, x)
<1>1. /\ state[c] = "RUNNING" /\ OwnersSame /\ GrantsSame
      /\ Items(wait[x])' = Append(Items(wait[x]), c)
      /\ \A w \in Waitables \ {x} : Items(wait[w])' = Items(wait[w])
      /\ UNCHANGED count
  BY BlockLoud
<1>2. ~Promise!Waiting(c)
  BY <1>1, NotWaiting
<1>3. Owners' = Owners /\ Grants' = Grants
  BY <1>1, OwnersStay DEF GrantsSame, Grants
<1>4. Queues' = [Queues EXCEPT ![x] = Append(@, c)]
  BY <1>1 DEF Queues
<1>5. x \in Mutexes => Owners[x] \notin {NULL, c}
  BY DEF Owners
<1>6. QED
  BY <1>1, <1>2, <1>3, <1>4, <1>5 DEF Promise!Await, Owners, Queues, Grants

LEMMA LockBlockSync ==
  ASSUME IInv, IInv', NEW c \in Contexts, NEW m \in Mutexes, LockBlock(c, m)
  PROVE  c \in Threads /\ Promise!Await(c, m)
<1>1. /\ c \in Threads /\ Runs(c, "run") /\ m \in Waitables /\ Ready(state, pc) # {}
      /\ Block(c, m, "lock") /\ UNCHANGED syncVars
      /\ locked[m] /\ holds[c] = {} /\ pc[c] = "run"
  BY OwnerReady DEF LockBlock, MayLock, Waitables, Runs
<1>2. PICK t \in Threads : Owns(t, m)
  BY <1>1 DEF IInv, MutexInv, LockAccounted
<1>3. ~Owns(c, m)
  BY <1>1 DEF Owns
<1>4. OwnerOf(m) \notin {NULL, c}
  BY <1>2, <1>3, OwnerIs, ConstantsAssumption
<1>5. m \notin Sems
  BY ConstantsAssumption
<1>6. QED
  BY <1>1, <1>4, <1>5, BlockSync

LEMMA WaitBlockSync ==
  ASSUME IInv, IInv', NeedResident, NEW c \in Contexts, NEW s \in Sems,
         WaitBlock(c, s)
  PROVE  c \in Threads /\ Promise!Await(c, s)
<1>1. /\ c \in Threads /\ Runs(c, "run") /\ s \in Waitables /\ Ready(state, pc) # {}
      /\ Block(c, s, "wait") /\ UNCHANGED syncVars /\ count[s] = 0
  BY ResidentReady DEF WaitBlock, MayWait, Waitables
<1>2. s \notin Mutexes
  BY ConstantsAssumption
<1>3. QED
  BY <1>1, <1>2, BlockSync

LEMMA UnlockSync ==
  ASSUME IInv, IInv', NEW c \in Contexts, NEW m \in Mutexes, Unlock(c, m)
  PROVE  c \in Threads /\ (Promise!Release(c, m) \/ Promise!HandOver(c, m))
<1>1. /\ c \in Threads /\ state[c] = "RUNNING" /\ Owns(c, m)
      /\ GrantsSame /\ UNCHANGED count
      /\ \A w \in Waitables \ {m} : Items(wait[w])' = Items(wait[w])
      /\ \A t \in Threads, k \in Mutexes \ {m} : Owns(t, k)' <=> Owns(t, k)
      /\ \/ /\ Items(wait[m]) = <<>> /\ Items(wait[m])' = <<>>
            /\ \A t \in Threads : ~Owns(t, m)'
         \/ /\ Items(wait[m]) # <<>> /\ Items(wait[m])' = Tail(Items(wait[m]))
            /\ \A t \in Threads : Owns(t, m)' <=> t = Items(wait[m])[1]
  BY UnlockLoud
<1>2. ~Promise!Waiting(c)
  BY <1>1, NotWaiting
<1>3. m \in Waitables /\ Queues[m] = Items(wait[m]) /\ Owners[m] = c
  BY <1>1, OwnerIs DEF Waitables, Queues, Owners
<1>4. ASSUME NEW k \in Mutexes \ {m}
      PROVE  OwnerOf(k)' = OwnerOf(k)
  BY <1>1, OwnerStays
<1>5. Grants' = Grants
  BY <1>1 DEF GrantsSame, Grants
<1>6. CASE Items(wait[m]) = <<>>
  <2>1. /\ Items(wait[m])' = Items(wait[m])
        /\ \A t \in Threads : ~Owns(t, m)'
    BY <1>1, <1>6
  <2>2. Queues' = Queues
    BY <1>1, <1>3, <2>1 DEF Queues
  <2>3. OwnerOf(m)' = NULL
    BY <2>1, OwnerIsNext
  <2>4. Owners' = [Owners EXCEPT ![m] = NULL]
    BY <1>4, <2>3 DEF Owners
  <2>5. QED
    BY <1>1, <1>2, <1>3, <1>5, <1>6, <2>2, <2>4
       DEF Promise!Release, Owners, Queues, Grants
<1>7. CASE Items(wait[m]) # <<>>
  <2> DEFINE h == Items(wait[m])[1]
  <2>1. /\ Items(wait[m])' = Tail(Items(wait[m]))
        /\ \A t \in Threads : Owns(t, m)' <=> t = h
    BY <1>1, <1>7
  <2>2. h \in Threads /\ h = Head(Items(wait[m]))
    BY <1>3, <1>7, OnWaitList, EmptySeq, ElementOfSeq
  <2>3. Queues' = [Queues EXCEPT ![m] = Tail(Queues[m])]
    BY <1>1, <1>3, <2>1 DEF Queues
  <2>4. OwnerOf(m)' = h
    BY <2>1, <2>2, OwnerIsNext
  <2>5. Owners' = [Owners EXCEPT ![m] = Head(Queues[m])]
    BY <1>3, <1>4, <2>2, <2>4 DEF Owners
  <2>6. QED
    BY <1>1, <1>2, <1>3, <1>5, <1>7, <2>3, <2>5
       DEF Promise!HandOver, Owners, Queues, Grants
<1>8. QED
  BY <1>1, <1>6, <1>7

LEMMA WaitTakeSync ==
  ASSUME IInv, IInv', NEW c \in Contexts, NEW s \in Sems, WaitTake(c, s)
  PROVE  c \in Threads /\ Promise!Take(c, s)
<1>1. /\ c \in Threads /\ state[c] = "RUNNING" /\ count[s] > 0
      /\ count' = [count EXCEPT ![s] = @ - 1]
      /\ OwnersSame /\ GrantsSame /\ QueuesSame
  BY WaitTakeLoud
<1>2. ~Promise!Waiting(c)
  BY <1>1, NotWaiting
<1>3. Owners' = Owners /\ Queues' = Queues /\ Grants' = Grants
  BY <1>1, OwnersStay DEF QueuesSame, GrantsSame, Queues, Grants
<1>4. QED
  BY <1>1, <1>2, <1>3 DEF Promise!Take, Owners, Queues, Grants

LEMMA WaitReturnSync ==
  ASSUME IInv, IInv', NEW c \in Contexts, WaitReturn(c)
  PROVE  c \in Threads /\ \E s \in Sems : Promise!Leave(c, s)
<1>1. PICK s \in Sems :
        /\ c \in Threads /\ c \in GrantedIn(s)
        /\ GrantedIn(s)' = GrantedIn(s) \ {c}
        /\ \A z \in Sems \ {s} : GrantedIn(z)' = GrantedIn(z)
        /\ UNCHANGED count /\ OwnersSame /\ QueuesSame
  BY WaitReturnLoud
<1>2. Owners' = Owners /\ Queues' = Queues
  BY <1>1, OwnersStay DEF QueuesSame, Queues
<1>3. Grants' = [Grants EXCEPT ![s] = @ \ {c}] /\ c \in Grants[s]
  BY <1>1 DEF Grants
<1>4. Promise!Leave(c, s)
  BY <1>1, <1>2, <1>3 DEF Promise!Leave, Owners, Queues, Grants
<1>5. QED
  BY <1>1, <1>4

LEMMA PostSync ==
  ASSUME IInv, IInv', NEW c \in Contexts, NEW s \in Sems, Post(c, s)
  PROVE  Promise!Post(s)
<1>1. /\ OwnersSame
      /\ \A w \in Waitables \ {s} : Items(wait[w])' = Items(wait[w])
      /\ \A z \in Sems \ {s} : GrantedIn(z)' = GrantedIn(z)
      /\ \/ /\ Items(wait[s]) = <<>> /\ Items(wait[s])' = <<>>
            /\ count' = [count EXCEPT ![s] = @ + 1]
            /\ GrantedIn(s)' = GrantedIn(s)
         \/ /\ Items(wait[s]) # <<>> /\ Items(wait[s])' = Tail(Items(wait[s]))
            /\ count' = count
            /\ GrantedIn(s)' = GrantedIn(s) \cup {Items(wait[s])[1]}
  BY PostLoud
<1>2. Owners' = Owners
  BY <1>1, OwnersStay
<1>3. s \in Waitables /\ Queues[s] = Items(wait[s])
  BY DEF Waitables, Queues
<1>4. CASE Items(wait[s]) = <<>>
  <2>1. /\ Items(wait[s])' = Items(wait[s]) /\ GrantedIn(s)' = GrantedIn(s)
        /\ count' = [count EXCEPT ![s] = @ + 1]
    BY <1>1, <1>4
  <2>2. Queues' = Queues /\ Grants' = Grants
    BY <1>1, <1>3, <2>1 DEF Queues, Grants
  <2>3. QED
    BY <1>2, <1>3, <1>4, <2>1, <2>2 DEF Promise!Post, Owners, Queues, Grants
<1>5. CASE Items(wait[s]) # <<>>
  <2>1. /\ Items(wait[s])' = Tail(Items(wait[s])) /\ count' = count
        /\ GrantedIn(s)' = GrantedIn(s) \cup {Items(wait[s])[1]}
    BY <1>1, <1>5
  <2>2. Items(wait[s])[1] = Head(Items(wait[s]))
    BY <1>3, <1>5, OnWaitList
  <2>3. Queues' = [Queues EXCEPT ![s] = Tail(@)]
    BY <1>1, <1>3, <2>1 DEF Queues
  <2>4. Grants' = [Grants EXCEPT ![s] = @ \cup {Head(Queues[s])}]
    BY <1>1, <1>3, <2>1, <2>2 DEF Grants
  <2>5. QED
    BY <1>2, <1>3, <1>5, <2>1, <2>3, <2>4 DEF Promise!Post, Owners, Queues, Grants
<1>6. QED
  BY <1>4, <1>5

LEMMA SyncNext ==
  ASSUME IInv, IInv', NeedResident, [Next]_vars
  PROVE  [Promise!Next]_(Promise!syncVars)
<1>1. CASE Quiet
  <2>1. /\ Owners' = Owners /\ Queues' = Queues /\ Grants' = Grants
        /\ count' = count
    BY <1>1, OwnersStay DEF Quiet, QueuesSame, GrantsSame, Queues, Grants
  <2>2. QED
    BY <2>1, SyncUnchanged
<1>2. ASSUME NEW c \in Contexts, NEW m \in Mutexes,
             LockFree(c, m) \/ LockBlock(c, m) \/ Unlock(c, m)
      PROVE  Promise!Next
  BY <1>2, LockFreeSync, LockBlockSync, UnlockSync DEF Promise!Next
<1>3. ASSUME NEW c \in Contexts, NEW s \in Sems,
             WaitTake(c, s) \/ WaitBlock(c, s) \/ Post(c, s)
      PROVE  Promise!Next
  BY <1>3, WaitTakeSync, WaitBlockSync, PostSync DEF Promise!Next
<1>4. ASSUME NEW c \in Contexts, WaitReturn(c)
      PROVE  Promise!Next
  BY <1>4, WaitReturnSync DEF Promise!Next
<1>5. QED
  BY <1>1, <1>2, <1>3, <1>4, QuietSteps DEF Loud

LEMMA SyncInit ==
  ASSUME Init
  PROVE  Promise!Init
<1>1. IInv
  BY InitIInv
<1>2. \A m \in Mutexes : OwnerOf(m) = NULL
  BY <1>1, OwnerIs DEF Init, Owns, Contexts
<1>3. ASSUME NEW w \in Waitables
      PROVE  Items(wait[w]) = <<>>
  <2>1. /\ Items(wait[w]) \in Seq(Threads)
        /\ wait[w].head = IF Items(wait[w]) = <<>> THEN NULL ELSE Items(wait[w])[1]
    BY <1>1, OnWaitList
  <2>2. Items(wait[w]) # <<>> => Items(wait[w])[1] \in Threads
    BY <2>1, EmptySeq, ElementOfSeq
  <2>3. wait[w].head = NULL
    BY DEF Init, EmptyList
  <2>4. QED
    BY <2>1, <2>2, <2>3, ConstantsAssumption
<1>4. \A s \in Sems : GrantedIn(s) = {}
  BY DEF Init, GrantedIn, Contexts
<1>5. count = SemInit
  BY DEF Init
<1>6. QED
  BY <1>2, <1>3, <1>4, <1>5 DEF Promise!Init, Waitables

(* mutex_lock, mutex_unlock, sem_wait and sem_post implement Sync: waiters  *)
(* are served first come first served, and the mutex or the token is handed *)
(* over with no gap in which a third thread could take it.                  *)
THEOREM SyncImplemented ==
  ASSUME NeedResident
  PROVE  Spec => ImplementsSync
<1>1. Init => Promise!Init
  BY SyncInit
<1>2. IInv /\ IInv' /\ [Next]_vars => [Promise!Next]_(Promise!syncVars)
  BY SyncNext
<1>3. QED
  BY <1>1, <1>2, Invariance, PTL DEF Spec, ImplementsSync, Promise!Spec
=============================================================================
