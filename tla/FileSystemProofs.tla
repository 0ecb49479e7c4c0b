-------------------------- MODULE FileSystemProofs --------------------------
(****************************************************************************)
(* Theorems about FileSystem for every volume size and geometry, any number *)
(* of files and handles, and any volume that is sound to begin with.        *)
(****************************************************************************)
EXTENDS FileSystem, Arithmetic, SequenceTheorems, FiniteSetTheorems

-----------------------------------------------------------------------------
\* What is in progress is in progress on an open handle.
CallsOnOpen == \A h \in Handles : call[h].op # "none" => handle[h].valid

(* An open handle knows all that the entry recorded when it was opened: a   *)
(* size only grows and a first cluster is kept.                             *)
HandleKeeps ==
  \A h \in Handles : handle[h].valid =>
    /\ handle[h].size >= opened[h].size
    /\ opened[h].first # NONE => handle[h].first = opened[h].first

TInv == TypeOK /\ CallsOnOpen

-----------------------------------------------------------------------------
\* The numbers and the names the module computes with.
LEMMA Numbers ==
  /\ LastCluster \in Nat /\ Clusters \subseteq Nat
  /\ Sector \in Nat \ {0} /\ SectorsPerCluster \in Nat \ {0}
  /\ Cluster \in Nat \ {0}
  /\ FREE \notin Clusters /\ EOC \notin Clusters /\ NONE \notin Clusters /\ FREE # EOC
<1>1. /\ LastCluster \in Nat
      /\ Sector \in Nat \ {0} /\ SectorsPerCluster \in Nat \ {0}
      /\ {FREE, EOC, NONE} \cap Clusters = {} /\ FREE # EOC
  BY FileSystemAssumption
<1>2. Clusters \subseteq Nat
  BY <1>1 DEF Clusters
<1>3. Cluster \in Nat \ {0}
  BY <1>1, Z3 DEF Cluster
<1>4. QED
  BY <1>1, <1>2, <1>3

\* alloc_cluster finds a cluster that is not in use, if there is one.
LEMMA FirstFreeIsFree ==
  ASSUME Free # {}
  PROVE  FirstFree \in Clusters /\ fat[FirstFree] = FREE
<1>1. Free \in SUBSET Nat
  BY Numbers DEF Free
<1>2. \E c \in Free : \A d \in Free : c <= d
  BY <1>1, LeastElement
<1>3. FirstFree \in Free
  BY <1>2 DEF FirstFree
<1>4. QED
  BY <1>3 DEF Free

\* A handle that is open holds what fs_open put there.
LEMMA OpenHandle ==
  ASSUME TypeOK, NEW h \in Handles, handle[h].valid
  PROVE  /\ handle[h] \in Opened
         /\ handle[h].file \in Files /\ handle[h].first \in Clusters \cup {NONE}
         /\ handle[h].size \in Nat /\ handle[h].pos \in Nat /\ handle[h].mode \in Modes
<1>1. handle[h] \in Opened \cup {Closed}
  BY DEF TypeOK
<1>2. handle[h] # Closed
  BY DEF Closed
<1>3. QED
  BY <1>1, <1>2 DEF Opened

\* Its fields change within their types.
LEMMA HandleMoves ==
  ASSUME NEW r \in Opened, NEW p \in Nat, NEW n \in Nat, NEW c \in Clusters
  PROVE  /\ [r EXCEPT !.pos = p] \in Opened
         /\ [r EXCEPT !.pos = p, !.size = n] \in Opened
         /\ [r EXCEPT !.first = c] \in Opened
  BY DEF Opened

(* A pass of fs_read or fs_write stays in the sector, in the cluster and in *)
(* what is left of the call.                                                *)
LEMMA PartFits ==
  ASSUME TInv, NEW h \in Handles, call[h].op # "none"
  PROVE  /\ Part(h) \in Nat /\ call[h].left \in Nat /\ Part(h) <= call[h].left
         /\ handle[h].pos % Cluster \in Nat
         /\ (handle[h].pos % Cluster) + Part(h) <= Cluster
<1>1. handle[h].pos \in Nat /\ call[h].left \in Nat
  <2>1. handle[h].valid
    BY DEF TInv, CallsOnOpen
  <2>2. QED
    BY <2>1, OpenHandle DEF TInv, TypeOK
<1> DEFINE p == handle[h].pos
           room == Sector - (p % Sector)
<1>2. p \in Nat /\ Sector \in Nat \ {0} /\ SectorsPerCluster \in Nat \ {0}
  BY <1>1, Numbers
<1>3. p % Sector \in 0..(Sector - 1)
  BY <1>2, Division
<1>4. p % Cluster \in 0..(Cluster - 1)
  BY <1>2, Numbers, Division
<1>5. (p % Cluster) + room <= Cluster
  BY <1>2, PieceInBlock DEF Cluster
<1>6. Part(h) = IF room > call[h].left THEN call[h].left ELSE room
  BY DEF Part
<1> HIDE DEF p, room
<1>7. room \in Nat
  BY <1>2, <1>3 DEF room
<1>8. Part(h) \in Nat /\ Part(h) <= room /\ Part(h) <= call[h].left
  BY <1>1, <1>6, <1>7
<1>9. (p % Cluster) + Part(h) <= Cluster
  BY <1>4, <1>5, <1>7, <1>8, Numbers
<1>10. QED
  BY <1>1, <1>4, <1>8, <1>9, Numbers DEF p

\* What remains of a call is again a call, and on the same handle.
LEMMA AfterType ==
  ASSUME TInv, NEW h \in Handles, call[h].op # "none"
  PROVE  /\ After(h, Part(h)) \in [Handles -> [op : {"none", "read", "write"}, left : Nat]]
         /\ \A g \in Handles : After(h, Part(h))[g].op # "none" => call[g].op # "none"
<1>1. call \in [Handles -> [op : {"none", "read", "write"}, left : Nat]]
  BY DEF TInv, TypeOK
<1>2. call[h].left - Part(h) \in Nat
  BY PartFits
<1>3. QED
  BY <1>1, <1>2 DEF After

\* What a pass reads are bytes of the cluster.
LEMMA PassReads ==
  ASSUME TInv, NEW h \in Handles, call[h].op # "none", At(h) \in Clusters
  PROVE  SubSeq(data[At(h)], (handle[h].pos % Cluster) + 1,
                             (handle[h].pos % Cluster) + Part(h)) \in Seq(Bytes)
<1> DEFINE m == (handle[h].pos % Cluster) + 1
           n == (handle[h].pos % Cluster) + Part(h)
           s == data[At(h)]
<1>1. s \in [1..Cluster -> Bytes]
  BY DEF TInv, TypeOK
<1>2. m \in Int /\ n \in Int /\ m >= 1 /\ n <= Cluster
  BY PartFits
<1> HIDE DEF m, n, s
<1>3. \A i \in m..n : s[i] \in Bytes
  <2>1. \A i \in m..n : i \in 1..Cluster
    BY <1>2, Numbers
  <2>2. QED
    BY <1>1, <2>1
<1>4. SubSeq(s, m, n) \in Seq(Bytes)
  BY <1>2, <1>3, SubSeqProperties
<1>5. QED
  BY <1>4 DEF m, n, s

\* Nothing reads a closed handle as if it were one.
LEMMA ReachedOpen ==
  ASSUME TInv, NEW h \in Handles, Reached(h)
  PROVE  handle[h].valid /\ At(h) \in Clusters
<1>1. handle[h] # Closed
  BY DEF Reached, Closed
<1>2. QED
  BY <1>1 DEF Reached, TInv, TypeOK, Opened

LEMMA InitTInv == Init => TInv
<1> SUFFICES ASSUME Init PROVE TInv
  OBVIOUS
<1>1. PICK v \in Volumes : fat = v.fat /\ entry = v.entry
  BY DEF Init
<1>2. v \in Volume
  BY FileSystemAssumption DEF SoundVolume
<1>3. fat \in [Clusters -> Clusters \cup {FREE, EOC}] /\ entry \in [Files -> Entries]
  BY <1>1, <1>2 DEF Volume, Entries
<1>4. data \in [Clusters -> [1..Cluster -> Bytes]]
  BY DEF Init, Bytes
<1>5. got \in Seq(Bytes)
  BY EmptySeq DEF Init
<1>6. opened \in [Handles -> Entries]
  BY DEF Init, NoEntry, Entries
<1>7. writes \in 0..MaxWrites
  BY FileSystemAssumption DEF Init
<1>8. /\ handle \in [Handles -> Opened \cup {Closed}]
      /\ call \in [Handles -> [op : {"none", "read", "write"}, left : Nat]]
      /\ mounted \in BOOLEAN
  BY DEF Init
<1>9. CallsOnOpen
  BY DEF Init, CallsOnOpen
<1>10. QED
  BY <1>3, <1>4, <1>5, <1>6, <1>7, <1>8, <1>9 DEF TInv, TypeOK

LEMMA NextTInv == TInv /\ [Next]_vars => TInv'
<1> SUFFICES ASSUME TInv, [Next]_vars PROVE TInv'
  OBVIOUS
<1> USE DEF TInv
<1>0. <<>> \in Seq(Bytes)
  BY EmptySeq
<1>1. CASE fs_unmount
  BY <1>0, <1>1 DEF fs_unmount, TypeOK, CallsOnOpen
<1>2. CASE fs_mount_fat32
  BY <1>0, <1>2 DEF fs_mount_fat32, TypeOK, CallsOnOpen
<1>3. ASSUME NEW h \in Handles, NEW f \in Files, NEW m \in Modes, fs_open(h, f, m)
      PROVE  TInv'
  <2>1. [valid |-> TRUE, file |-> f, first |-> entry[f].first,
         size |-> entry[f].size, pos |-> 0, mode |-> m] \in Opened
    BY DEF TypeOK, Opened, Entries
  <2>2. handle' \in [Handles -> Opened \cup {Closed}]
    BY <1>3, <2>1 DEF fs_open, TypeOK
  <2>3. opened' \in [Handles -> Entries]
    BY <1>3 DEF fs_open, TypeOK
  <2>4. CallsOnOpen'
    BY <1>3 DEF fs_open, CallsOnOpen, TypeOK
  <2>5. QED
    BY <1>0, <1>3, <2>2, <2>3, <2>4 DEF fs_open, TypeOK
<1>4. ASSUME NEW h \in Handles, NEW p \in Positions, fs_seek(h, p)
      PROVE  TInv'
  <2>1. handle[h] \in Opened /\ p \in Nat
    BY <1>4, OpenHandle, FileSystemAssumption DEF fs_seek
  <2>2. handle' = [handle EXCEPT ![h] = [@ EXCEPT !.pos = p]]
    BY <1>4 DEF fs_seek
  <2>3. [handle[h] EXCEPT !.pos = p] \in Opened
    BY <2>1 DEF Opened
  <2>4. handle' \in [Handles -> Opened \cup {Closed}]
    BY <2>2, <2>3 DEF TypeOK
  <2>5. CallsOnOpen'
    BY <1>4 DEF fs_seek, CallsOnOpen, TypeOK
  <2>6. QED
    BY <1>0, <1>4, <2>4, <2>5 DEF fs_seek, TypeOK
<1>5. ASSUME NEW h \in Handles, NEW n \in Lengths, fs_read(h, n)
      PROVE  TInv'
  <2>1. handle[h].size \in Nat /\ handle[h].pos \in Nat /\ n \in Nat
    BY <1>5, OpenHandle, FileSystemAssumption DEF fs_read, Usable
  <2> DEFINE rest == handle[h].size - handle[h].pos
  <2>2. rest \in Nat
    BY <1>5, <2>1 DEF fs_read
  <2>3. call' \in [Handles -> [op : {"none", "read", "write"}, left : Nat]]
    BY <1>5, <2>1, <2>2 DEF fs_read, TypeOK
  <2>4. CallsOnOpen'
    BY <1>5 DEF fs_read, Usable, CallsOnOpen, TypeOK
  <2>5. QED
    BY <1>0, <1>5, <2>3, <2>4 DEF fs_read, TypeOK
<1>6. ASSUME NEW h \in Handles, NEW n \in Lengths, fs_write(h, n)
      PROVE  TInv'
  <2>1. call' \in [Handles -> [op : {"none", "read", "write"}, left : Nat]]
    BY <1>6, FileSystemAssumption DEF fs_write, TypeOK
  <2>2. writes' \in 0..MaxWrites
    BY <1>6, FileSystemAssumption DEF fs_write, TypeOK
  <2>3. CallsOnOpen'
    BY <1>6 DEF fs_write, Usable, CallsOnOpen, TypeOK
  <2>4. QED
    BY <1>0, <1>6, <2>1, <2>2, <2>3 DEF fs_write, TypeOK
<1>7. ASSUME NEW h \in Handles, ReadPass(h)
      PROVE  TInv'
  <2>1. call[h].op # "none" /\ handle[h].valid /\ At(h) \in Clusters
    BY <1>7, ReachedOpen DEF ReadPass
  <2>2. /\ Part(h) \in Nat /\ handle[h] \in Opened
        /\ handle[h].pos \in Nat /\ handle[h].size \in Nat
    BY <2>1, PartFits, OpenHandle
  <2>3. got' \in Seq(Bytes)
    BY <1>7, <2>1, PassReads DEF ReadPass
  <2>4. handle' = [handle EXCEPT ![h] = [@ EXCEPT !.pos = handle[h].pos + Part(h)]]
    BY <1>7 DEF ReadPass
  <2>5. [handle[h] EXCEPT !.pos = handle[h].pos + Part(h)] \in Opened
    <3>1. handle[h].pos + Part(h) \in Nat
      BY <2>2
    <3>2. QED
      BY <2>1, <2>2, <3>1, HandleMoves
  <2>6. handle' \in [Handles -> Opened \cup {Closed}]
    BY <2>4, <2>5 DEF TypeOK
  <2>7. call' = After(h, Part(h))
    BY <1>7 DEF ReadPass
  <2>8. CallsOnOpen'
    <3>1. \A g \in Handles : handle'[g].valid = handle[g].valid
      BY <2>4 DEF TypeOK
    <3>2. \A g \in Handles : call'[g].op # "none" => call[g].op # "none"
      BY <2>1, <2>7, AfterType
    <3>3. QED
      BY <3>1, <3>2 DEF CallsOnOpen
  <2>9. QED
    BY <1>7, <2>1, <2>3, <2>6, <2>7, <2>8, AfterType DEF ReadPass, TypeOK
<1>8. ASSUME NEW h \in Handles, WritePass(h)
      PROVE  TInv'
  <2>1. call[h].op # "none" /\ handle[h].valid /\ At(h) \in Clusters
    BY <1>8, ReachedOpen DEF WritePass
  <2>2. /\ Part(h) \in Nat /\ handle[h] \in Opened
        /\ handle[h].pos \in Nat /\ handle[h].size \in Nat
    BY <2>1, PartFits, OpenHandle
  <2> DEFINE end == handle[h].pos + Part(h)
             size == IF end > handle[h].size THEN end ELSE handle[h].size
  <2>3. data' \in [Clusters -> [1..Cluster -> Bytes]]
    <3>1. data' = [data EXCEPT ![At(h)] =
                     [i \in 1..Cluster |-> IF i \in Span(h) THEN h ELSE data[At(h)][i]]]
      BY <1>8 DEF WritePass
    <3>2. data \in [Clusters -> [1..Cluster -> Bytes]] /\ h \in Bytes
      BY DEF TypeOK, Bytes
    <3>3. [i \in 1..Cluster |-> IF i \in Span(h) THEN h ELSE data[At(h)][i]]
             \in [1..Cluster -> Bytes]
      BY <2>1, <3>2
    <3>4. QED
      BY <3>1, <3>2, <3>3
  <2>4. handle' = [handle EXCEPT ![h] = [@ EXCEPT !.pos = end, !.size = size]]
    BY <1>8 DEF WritePass
  <2>5. end \in Nat /\ size \in Nat
    BY <2>2
  <2>6. [handle[h] EXCEPT !.pos = end, !.size = size] \in Opened
    <3> HIDE DEF end, size
    <3>1. QED
      BY <2>1, <2>2, <2>5, HandleMoves
  <2>7. handle' \in [Handles -> Opened \cup {Closed}]
    <3> HIDE DEF end, size
    <3>1. QED
      BY <2>4, <2>6 DEF TypeOK
  <2>8. call' = After(h, Part(h))
    BY <1>8 DEF WritePass
  <2>9. CallsOnOpen'
    <3>1. \A g \in Handles : handle'[g].valid = handle[g].valid
      BY <2>4 DEF TypeOK
    <3>2. \A g \in Handles : call'[g].op # "none" => call[g].op # "none"
      BY <2>1, <2>8, AfterType
    <3>3. QED
      BY <3>1, <3>2 DEF CallsOnOpen
  <2>10. call' \in [Handles -> [op : {"none", "read", "write"}, left : Nat]]
    BY <2>1, <2>8, AfterType
  <2>11. got' = <<>> /\ UNCHANGED <<mounted, fat, entry, opened, writes>>
    BY <1>8 DEF WritePass
  <2>12. QED
    BY <1>0, <2>3, <2>7, <2>9, <2>10, <2>11 DEF TypeOK
<1>9. ASSUME NEW h \in Handles, AddFirst(h)
      PROVE  TInv'
  <2>1. FirstFree \in Clusters
    BY <1>9, FirstFreeIsFree DEF AddFirst
  <2>2. handle[h] \in Opened
    BY <1>9, OpenHandle DEF AddFirst, CallsOnOpen
  <2>3. fat' \in [Clusters -> Clusters \cup {FREE, EOC}]
    BY <1>9, <2>1 DEF AddFirst, TypeOK
  <2>4. handle' = [handle EXCEPT ![h] = [@ EXCEPT !.first = FirstFree]]
    BY <1>9 DEF AddFirst
  <2>5. [handle[h] EXCEPT !.first = FirstFree] \in Opened
    BY <2>1, <2>2 DEF Opened
  <2>6. handle' \in [Handles -> Opened \cup {Closed}]
    BY <2>4, <2>5 DEF TypeOK
  <2>7. CallsOnOpen'
    BY <1>9, <2>4 DEF AddFirst, CallsOnOpen, TypeOK
  <2>8. QED
    BY <1>0, <1>9, <2>3, <2>6, <2>7 DEF AddFirst, TypeOK
<1>10. ASSUME NEW h \in Handles, AddCluster(h)
       PROVE  TInv'
  <2>1. FirstFree \in Clusters
    BY <1>10, FirstFreeIsFree DEF AddCluster
  <2>2. fat' \in [Clusters -> Clusters \cup {FREE, EOC}]
    BY <1>10, <2>1 DEF AddCluster, TypeOK
  <2>3. QED
    BY <1>0, <1>10, <2>2 DEF AddCluster, TypeOK, CallsOnOpen
<1>11. ASSUME NEW h \in Handles, Fail(h)
       PROVE  TInv'
  BY <1>0, <1>11 DEF Fail, TypeOK, CallsOnOpen
<1>12. ASSUME NEW h \in Handles, fs_close(h)
       PROVE  TInv'
  <2>1. /\ handle[h].file \in Files /\ handle[h].first \in Clusters \cup {NONE}
        /\ handle[h].size \in Nat
    BY <1>12, OpenHandle DEF fs_close
  <2>2. entry' \in [Files -> Entries]
    BY <1>12, <2>1 DEF fs_close, TypeOK, Entries
  <2>3. handle' \in [Handles -> Opened \cup {Closed}]
    BY <1>12 DEF fs_close, TypeOK
  <2>4. opened' \in [Handles -> Entries]
    BY <1>12, Numbers DEF fs_close, TypeOK, NoEntry, Entries
  <2>5. CallsOnOpen'
    BY <1>12 DEF fs_close, CallsOnOpen, TypeOK
  <2>6. QED
    BY <1>0, <1>12, <2>2, <2>3, <2>4, <2>5 DEF fs_close, TypeOK
<1>13. CASE UNCHANGED vars
  BY <1>13 DEF vars, TypeOK, CallsOnOpen
<1>14. QED
  BY <1>1, <1>2, <1>3, <1>4, <1>5, <1>6, <1>7, <1>8, <1>9, <1>10, <1>11, <1>12, <1>13
     DEF Next

(* The fields keep their types, for every geometry and every volume that is *)
(* sound: in particular a pass copies only bytes of its own cluster.        *)
THEOREM TypeCorrect == Spec => []TypeOK
<1>1. TInv => TypeOK
  BY DEF TInv
<1>2. QED
  BY <1>1, InitTInv, NextTInv, PTL DEF Spec

-----------------------------------------------------------------------------
\* What the first clusters of a file are, without the records that name them.
LEMMA HeadsAre ==
  ASSUME NEW f \in Files, NEW c
  PROVE  c \in Heads(f) <=>
           /\ c # NONE
           /\ \/ c = entry[f].first
              \/ \E h \in Handles : handle[h].valid /\ handle[h].file = f /\ handle[h].first = c
  BY DEF Heads, Names

\* The same of the next state.
LEMMA HeadsWillBe ==
  ASSUME NEW f \in Files, NEW c
  PROVE  c \in Heads(f)' <=>
           /\ c # NONE
           /\ \/ c = entry'[f].first
              \/ \E h \in Handles :
                   handle'[h].valid /\ handle'[h].file = f /\ handle'[h].first = c
  BY DEF Heads, Names

\* A first cluster is one of the volume's.
LEMMA HeadIsCluster ==
  ASSUME TypeOK, NEW f \in Files, NEW c \in Heads(f)
  PROVE  c \in Clusters
<1>1. CASE c = entry[f].first
  BY <1>1, HeadsAre DEF TypeOK, Entries
<1>2. CASE \E h \in Handles : handle[h].valid /\ handle[h].file = f /\ handle[h].first = c
  BY <1>2, HeadsAre, OpenHandle
<1>3. QED
  BY <1>1, <1>2, HeadsAre

\* Chains stay sound when no link changes and no first cluster comes along.
LEMMA FewerHeads ==
  ASSUME ChainsSound, fat' = fat, \A f \in Files : Heads(f)' \subseteq Heads(f)
  PROVE  ChainsSound'
<1>1. \A f \in Files : \A c \in Heads(f)' :
        /\ fat'[c] # FREE
        /\ \A d \in Clusters : fat'[d] # c
        /\ \A g \in Files : c \in Heads(g)' => g = f
  <2> SUFFICES ASSUME NEW f \in Files, NEW c \in Heads(f)'
               PROVE  /\ fat'[c] # FREE
                      /\ \A d \in Clusters : fat'[d] # c
                      /\ \A g \in Files : c \in Heads(g)' => g = f
    OBVIOUS
  <2>1. c \in Heads(f) /\ \A g \in Files : c \in Heads(g)' => c \in Heads(g)
    OBVIOUS
  <2>2. QED
    BY <2>1 DEF ChainsSound
<1>2. \A c \in Clusters : fat'[c] \in Clusters =>
        /\ fat'[fat'[c]] # FREE
        /\ \A d \in Clusters : fat'[d] = fat'[c] => d = c
  BY DEF ChainsSound
<1>3. QED
  BY <1>1, <1>2 DEF ChainsSound

(* They stay sound when a cluster that is not in use becomes the only new   *)
(* first cluster of one file.                                               *)
LEMMA FreshHead ==
  ASSUME TypeOK, ChainsSound,
         NEW n \in Clusters, fat[n] = FREE, fat' = [fat EXCEPT ![n] = EOC],
         NEW e \in Files, Heads(e)' \subseteq Heads(e) \cup {n},
         \A f \in Files \ {e} : Heads(f)' \subseteq Heads(f)
  PROVE  ChainsSound'
<1>1. fat \in [Clusters -> Clusters \cup {FREE, EOC}]
  BY DEF TypeOK
<1>2. \A d \in Clusters : fat[d] # n /\ fat'[d] # n
  BY <1>1, Numbers DEF ChainsSound
<1>3. \A f \in Files : n \notin Heads(f)
  BY DEF ChainsSound
<1>4. \A c \in Clusters : fat'[c] \in Clusters =>
        /\ fat'[fat'[c]] # FREE
        /\ \A d \in Clusters : fat'[d] = fat'[c] => d = c
  BY <1>1, <1>2, Numbers DEF ChainsSound
<1>5. ASSUME NEW f \in Files, NEW c \in Heads(f)'
      PROVE  /\ fat'[c] # FREE
             /\ \A d \in Clusters : fat'[d] # c
             /\ \A g \in Files : c \in Heads(g)' => g = f
  <2>1. CASE c = n
    <3>1. \A g \in Files : n \in Heads(g)' => g = e
      BY <1>3
    <3>2. QED
      BY <1>1, <1>2, <2>1, <3>1, Numbers
  <2>2. CASE c # n
    <3>1. \A g \in Files : c \in Heads(g)' => c \in Heads(g)
      BY <2>2
    <3>2. c \in Heads(f) /\ c \in Clusters
      BY <3>1, HeadIsCluster
    <3>3. fat'[c] = fat[c]
      BY <1>1, <2>2, <3>2
    <3>4. \A d \in Clusters : fat'[d] # c
      BY <1>1, <3>2, Numbers DEF ChainsSound
    <3>5. QED
      BY <3>1, <3>2, <3>3, <3>4 DEF ChainsSound
  <2>3. QED
    BY <2>1, <2>2
<1>6. QED
  BY <1>4, <1>5 DEF ChainsSound

(* And they stay sound when such a cluster is linked behind the end of a    *)
(* chain.                                                                   *)
LEMMA FreshLink ==
  ASSUME TypeOK, ChainsSound,
         NEW n \in Clusters, fat[n] = FREE,
         NEW t \in Clusters, fat[t] = EOC,
         fat' = [fat EXCEPT ![n] = EOC, ![t] = n],
         \A f \in Files : Heads(f)' \subseteq Heads(f)
  PROVE  ChainsSound'
<1>1. fat \in [Clusters -> Clusters \cup {FREE, EOC}]
  BY DEF TypeOK
<1>2. t # n
  BY Numbers
<1>3. /\ fat'[n] = EOC /\ fat'[t] = n
      /\ \A d \in Clusters : d # n /\ d # t => fat'[d] = fat[d]
  BY <1>1, <1>2
<1>4. \A d \in Clusters : fat[d] # n
  BY <1>1, Numbers DEF ChainsSound
<1>5. ASSUME NEW c \in Clusters, fat'[c] \in Clusters
      PROVE  /\ fat'[fat'[c]] # FREE
             /\ \A d \in Clusters : fat'[d] = fat'[c] => d = c
  <2>1. CASE c = t
    BY <1>2, <1>3, <1>4, <2>1, Numbers
  <2>2. CASE c # t
    <3>1. c # n /\ fat'[c] = fat[c] /\ fat[c] \in Clusters /\ fat[c] # n
      BY <1>3, <1>4, <1>5, <2>2, Numbers
    <3>2. fat[fat[c]] # FREE /\ \A d \in Clusters : fat[d] = fat[c] => d = c
      BY <3>1 DEF ChainsSound
    <3>3. fat'[fat[c]] # FREE
      BY <1>3, <3>1, <3>2, Numbers
    <3>4. ASSUME NEW d \in Clusters, fat'[d] = fat[c]
          PROVE  d = c
      BY <1>3, <3>1, <3>2, <3>4, Numbers
    <3>5. QED
      BY <3>1, <3>3, <3>4
  <2>3. QED
    BY <2>1, <2>2
<1>6. ASSUME NEW f \in Files, NEW c \in Heads(f)'
      PROVE  /\ fat'[c] # FREE
             /\ \A d \in Clusters : fat'[d] # c
             /\ \A g \in Files : c \in Heads(g)' => g = f
  <2>1. c \in Heads(f) /\ \A g \in Files : c \in Heads(g)' => c \in Heads(g)
    OBVIOUS
  <2>2. c \in Clusters
    BY <2>1, HeadIsCluster
  <2>3. fat[c] # FREE /\ \A d \in Clusters : fat[d] # c
    BY <2>1 DEF ChainsSound
  <2>4. c # n
    BY <2>3
  <2>5. fat'[c] # FREE
    BY <1>3, <2>2, <2>3, Numbers
  <2>6. \A d \in Clusters : fat'[d] # c
    BY <1>3, <2>2, <2>3, <2>4, Numbers
  <2>7. QED
    BY <2>1, <2>5, <2>6 DEF ChainsSound
<1>7. QED
  BY <1>5, <1>6 DEF ChainsSound

\* Who neither opens nor closes nor changes a first cluster changes no heads.
LEMMA SameHeads ==
  ASSUME TypeOK, entry' = entry,
         \A h \in Handles : /\ handle'[h].valid = handle[h].valid
                            /\ handle'[h].file = handle[h].file
                            /\ handle'[h].first = handle[h].first
  PROVE  \A f \in Files : Heads(f)' \subseteq Heads(f)
<1> SUFFICES ASSUME NEW f \in Files, NEW c \in Heads(f)'
             PROVE  c \in Heads(f)
  OBVIOUS
<1>1. QED
  BY HeadsAre, HeadsWillBe

LEMMA InitChainsSound == Init => ChainsSound
<1> SUFFICES ASSUME Init PROVE ChainsSound
  OBVIOUS
<1>1. PICK v \in Volumes : fat = v.fat /\ entry = v.entry
  BY DEF Init
<1>2. SoundVolume(v)
  BY FileSystemAssumption
<1>3. \A h \in Handles : ~handle[h].valid
  BY DEF Init, Closed
<1>4. \A f \in Files : \A c \in Heads(f) : c # NONE /\ c = entry[f].first
  BY <1>3, HeadsAre
<1>5. QED
  BY <1>1, <1>2, <1>4 DEF SoundVolume, ChainsSound

LEMMA NextChainsSound == TInv /\ ChainsSound /\ [Next]_vars => ChainsSound'
<1> SUFFICES ASSUME TInv, ChainsSound, [Next]_vars PROVE ChainsSound'
  OBVIOUS
<1> USE DEF TInv
<1>1. CASE fs_unmount \/ fs_mount_fat32
  BY <1>1, SameHeads, FewerHeads DEF fs_unmount, fs_mount_fat32
<1>2. ASSUME NEW h \in Handles, NEW f \in Files, NEW m \in Modes, fs_open(h, f, m)
      PROVE  ChainsSound'
  <2>1. /\ handle'[h].valid /\ handle'[h].file = f /\ handle'[h].first = entry[f].first
        /\ \A g \in Handles \ {h} : handle'[g] = handle[g]
    BY <1>2 DEF fs_open, TypeOK
  <2>2. ASSUME NEW g \in Files, NEW c \in Heads(g)'
        PROVE  c \in Heads(g)
    <3>1. entry' = entry
      BY <1>2 DEF fs_open
    <3>2. QED
      BY <2>1, <3>1, HeadsAre, HeadsWillBe
  <2>3. QED
    BY <1>2, <2>2, FewerHeads DEF fs_open
<1>3. ASSUME NEW h \in Handles, NEW p \in Positions, fs_seek(h, p)
      PROVE  ChainsSound'
  <2>1. \A g \in Handles : /\ handle'[g].valid = handle[g].valid
                           /\ handle'[g].file = handle[g].file
                           /\ handle'[g].first = handle[g].first
    BY <1>3 DEF fs_seek, TypeOK
  <2>2. QED
    BY <1>3, <2>1, SameHeads, FewerHeads DEF fs_seek
<1>4. ASSUME NEW h \in Handles, NEW n \in Lengths, fs_read(h, n) \/ fs_write(h, n)
      PROVE  ChainsSound'
  BY <1>4, SameHeads, FewerHeads DEF fs_read, fs_write
<1>5. ASSUME NEW h \in Handles, ReadPass(h) \/ WritePass(h)
      PROVE  ChainsSound'
  <2>1. PICK p, n : handle' = [handle EXCEPT ![h] = [@ EXCEPT !.pos = p, !.size = n]]
    <3>1. CASE ReadPass(h)
      <4>1. handle[h] \in Opened
        BY <3>1, ReachedOpen, OpenHandle DEF ReadPass
      <4>2. handle' = [handle EXCEPT ![h] =
                         [@ EXCEPT !.pos = handle[h].pos + Part(h), !.size = handle[h].size]]
        BY <3>1, <4>1 DEF ReadPass, Opened
      <4>3. QED
        BY <4>2
    <3>2. CASE WritePass(h)
      BY <3>2 DEF WritePass
    <3>3. QED
      BY <1>5, <3>1, <3>2
  <2>2. \A g \in Handles : /\ handle'[g].valid = handle[g].valid
                           /\ handle'[g].file = handle[g].file
                           /\ handle'[g].first = handle[g].first
    BY <2>1 DEF TypeOK
  <2>3. QED
    BY <1>5, <2>2, SameHeads, FewerHeads DEF ReadPass, WritePass
<1>6. ASSUME NEW h \in Handles, AddFirst(h)
      PROVE  ChainsSound'
  <2>1. FirstFree \in Clusters /\ fat[FirstFree] = FREE
    BY <1>6, FirstFreeIsFree DEF AddFirst
  <2>2. handle[h].valid /\ handle[h].file \in Files
    BY <1>6, OpenHandle DEF AddFirst, CallsOnOpen
  <2>3. /\ handle'[h].file = handle[h].file /\ handle'[h].first = FirstFree
        /\ \A g \in Handles \ {h} : handle'[g] = handle[g]
    BY <1>6 DEF AddFirst, TypeOK
  <2>4. entry' = entry
    BY <1>6 DEF AddFirst
  <2>5. ASSUME NEW g \in Files, NEW c \in Heads(g)'
        PROVE  c \in Heads(g) \/ (g = handle[h].file /\ c = FirstFree)
    BY <2>3, <2>4, HeadsAre, HeadsWillBe
  <2>6. fat' = [fat EXCEPT ![FirstFree] = EOC]
    BY <1>6 DEF AddFirst
  <2>7. PICK e \in Files, n \in Clusters : e = handle[h].file /\ n = FirstFree
    BY <2>1, <2>2
  <2>8. \A g \in Files : \A c \in Heads(g)' : c \in Heads(g) \/ (g = e /\ c = n)
    BY <2>5, <2>7
  <2>9. /\ Heads(e)' \subseteq Heads(e) \cup {n}
        /\ \A g \in Files \ {e} : Heads(g)' \subseteq Heads(g)
    BY <2>8
  <2>10. fat[n] = FREE /\ fat' = [fat EXCEPT ![n] = EOC]
    BY <2>1, <2>6, <2>7
  <2>11. QED
    BY <2>9, <2>10, FreshHead
<1>7. ASSUME NEW h \in Handles, AddCluster(h)
      PROVE  ChainsSound'
  <2>1. FirstFree \in Clusters /\ fat[FirstFree] = FREE
    BY <1>7, FirstFreeIsFree DEF AddCluster
  <2>2. PICK t \in Clusters :
          fat[t] = EOC /\ fat' = [fat EXCEPT ![FirstFree] = EOC, ![t] = FirstFree]
    BY <1>7 DEF AddCluster
  <2>3. \A f \in Files : Heads(f)' \subseteq Heads(f)
    BY <1>7, SameHeads DEF AddCluster
  <2>4. QED
    BY <2>1, <2>2, <2>3, FreshLink
<1>8. ASSUME NEW h \in Handles, Fail(h)
      PROVE  ChainsSound'
  BY <1>8, SameHeads, FewerHeads DEF Fail
<1>9. ASSUME NEW h \in Handles, fs_close(h)
      PROVE  ChainsSound'
  <2>1. handle[h].valid /\ handle[h].file \in Files
    BY <1>9, OpenHandle DEF fs_close
  <2>2. ~handle'[h].valid /\ \A g \in Handles \ {h} : handle'[g] = handle[g]
    BY <1>9 DEF fs_close, Closed, TypeOK
  <2>3. /\ \A f \in Files \ {handle[h].file} : entry'[f] = entry[f]
        /\ entry'[handle[h].file].first \in {entry[handle[h].file].first, handle[h].first}
    BY <1>9, <2>1 DEF fs_close, TypeOK
  <2>4. ASSUME NEW f \in Files, NEW c \in Heads(f)'
        PROVE  c \in Heads(f)
    BY <2>1, <2>2, <2>3, HeadsAre, HeadsWillBe
  <2>5. QED
    BY <1>9, <2>4, FewerHeads DEF fs_close
<1>10. CASE UNCHANGED vars
  BY <1>10, SameHeads, FewerHeads DEF vars
<1>11. QED
  BY <1>1, <1>2, <1>3, <1>4, <1>5, <1>6, <1>7, <1>8, <1>9, <1>10 DEF Next

(* The FAT stays sound on every volume, whatever calls on however many      *)
(* handles interleave, fail or never finish: a link leads to a cluster in   *)
(* use, chains do not cross, and no first cluster belongs to two files.     *)
THEOREM ChainsStaySound == Spec => []ChainsSound
  BY InitTInv, NextTInv, InitChainsSound, NextChainsSound, PTL DEF Spec

-----------------------------------------------------------------------------
LEMMA InitHandleKeeps == Init => HandleKeeps
  BY DEF Init, HandleKeeps, Closed

\* A handle that is only moved, or grows, keeps what it knows.
LEMMA OthersKeep ==
  ASSUME HandleKeeps, opened' = opened,
         \A h \in Handles : handle'[h].valid =>
           /\ handle[h].valid /\ handle'[h].first = handle[h].first
           /\ handle[h].size \in Nat /\ handle'[h].size \in Nat /\ opened[h].size \in Nat
           /\ handle'[h].size >= handle[h].size
  PROVE  HandleKeeps'
  BY DEF HandleKeeps

LEMMA NextHandleKeeps == TInv /\ HandleKeeps /\ [Next]_vars => HandleKeeps'
<1> SUFFICES ASSUME TInv, HandleKeeps, [Next]_vars PROVE HandleKeeps'
  OBVIOUS
<1> USE DEF TInv
<1>0. \A h \in Handles : opened[h].size \in Nat
  BY DEF TypeOK, Entries
<1>1. CASE UNCHANGED <<handle, opened>>
  BY <1>1 DEF HandleKeeps
<1>2. ASSUME NEW h \in Handles, NEW f \in Files, NEW m \in Modes, fs_open(h, f, m)
      PROVE  HandleKeeps'
  <2>1. /\ handle'[h].first = entry[f].first /\ handle'[h].size = entry[f].size
        /\ opened'[h] = entry[f] /\ entry[f].size \in Nat
        /\ \A g \in Handles \ {h} : handle'[g] = handle[g] /\ opened'[g] = opened[g]
    BY <1>2 DEF fs_open, TypeOK, Entries
  <2>2. QED
    BY <2>1 DEF HandleKeeps
<1>3. ASSUME NEW h \in Handles, NEW p \in Positions, fs_seek(h, p)
      PROVE  HandleKeeps'
  <2>1. /\ \A g \in Handles : /\ handle'[g].valid = handle[g].valid
                              /\ handle'[g].first = handle[g].first
                              /\ handle'[g].size = handle[g].size
        /\ opened' = opened
    BY <1>3 DEF fs_seek, TypeOK
  <2>2. QED
    BY <2>1 DEF HandleKeeps
<1>4. ASSUME NEW h \in Handles, ReadPass(h)
      PROVE  HandleKeeps'
  <2>1. /\ \A g \in Handles : /\ handle'[g].valid = handle[g].valid
                              /\ handle'[g].first = handle[g].first
                              /\ handle'[g].size = handle[g].size
        /\ opened' = opened
    BY <1>4 DEF ReadPass, TypeOK
  <2>2. QED
    BY <2>1 DEF HandleKeeps
<1>5. ASSUME NEW h \in Handles, WritePass(h)
      PROVE  HandleKeeps'
  <2>1. /\ Part(h) \in Nat /\ handle[h] \in Opened /\ handle[h].valid
        /\ handle[h].pos \in Nat /\ handle[h].size \in Nat
    BY <1>5, ReachedOpen, PartFits, OpenHandle DEF WritePass
  <2> DEFINE end == handle[h].pos + Part(h)
             size == IF end > handle[h].size THEN end ELSE handle[h].size
  <2>2. handle' = [handle EXCEPT ![h] = [@ EXCEPT !.pos = end, !.size = size]]
    BY <1>5 DEF WritePass
  <2>3. size \in Nat /\ size >= handle[h].size
    BY <2>1
  <2> HIDE DEF end, size
  <2>4. /\ handle'[h].first = handle[h].first /\ handle'[h].size = size
        /\ \A g \in Handles \ {h} : handle'[g] = handle[g]
    BY <2>1, <2>2 DEF TypeOK, Opened
  <2>5. opened' = opened
    BY <1>5 DEF WritePass
  <2>6. \A g \in Handles : handle[g].valid => handle[g].size \in Nat
    BY OpenHandle
  <2>7. ASSUME NEW g \in Handles, handle'[g].valid
        PROVE  /\ handle[g].valid /\ handle'[g].first = handle[g].first
               /\ handle[g].size \in Nat /\ handle'[g].size \in Nat /\ opened[g].size \in Nat
               /\ handle'[g].size >= handle[g].size
    <3>1. CASE g = h
      BY <1>0, <2>1, <2>3, <2>4, <3>1
    <3>2. CASE g # h
      <4>1. handle'[g] = handle[g]
        BY <2>4, <3>2
      <4>2. handle[g].valid /\ handle[g].size \in Nat
        BY <2>6, <2>7, <4>1
      <4>3. QED
        BY <1>0, <4>1, <4>2
    <3>3. QED
      BY <3>1, <3>2
  <2>8. QED
    BY <2>5, <2>7, OthersKeep
<1>6. ASSUME NEW h \in Handles, AddFirst(h)
      PROVE  HandleKeeps'
  <2>1. handle[h].valid /\ handle[h] \in Opened
    BY <1>6, OpenHandle DEF AddFirst, CallsOnOpen
  <2>2. opened[h].first = NONE
    BY <1>6, <2>1 DEF AddFirst, HandleKeeps
  <2>3. /\ handle'[h].size = handle[h].size /\ opened' = opened
        /\ \A g \in Handles \ {h} : handle'[g] = handle[g]
    BY <1>6, <2>1 DEF AddFirst, TypeOK, Opened
  <2>4. QED
    BY <2>1, <2>2, <2>3 DEF HandleKeeps
<1>7. ASSUME NEW h \in Handles, fs_close(h)
      PROVE  HandleKeeps'
  <2>1. /\ ~handle'[h].valid
        /\ \A g \in Handles \ {h} : handle'[g] = handle[g] /\ opened'[g] = opened[g]
    BY <1>7 DEF fs_close, TypeOK, Closed
  <2>2. QED
    BY <2>1 DEF HandleKeeps
<1>8. ASSUME NEW h \in Handles
      PROVE  /\ AddCluster(h) \/ Fail(h) => UNCHANGED <<handle, opened>>
             /\ \A n \in Lengths : fs_read(h, n) \/ fs_write(h, n) => UNCHANGED <<handle, opened>>
  BY DEF AddCluster, Fail, fs_read, fs_write
<1>9. fs_unmount \/ fs_mount_fat32 \/ UNCHANGED vars => UNCHANGED <<handle, opened>>
  BY DEF fs_unmount, fs_mount_fat32, vars
<1>10. QED
  BY <1>1, <1>2, <1>3, <1>4, <1>5, <1>6, <1>7, <1>8, <1>9 DEF Next

\* Only fs_close changes an entry: that of the handle's file, by its copies.
LEMMA EntryChanges ==
  ASSUME TInv, [Next]_vars, NEW f \in Files, entry'[f] # entry[f]
  PROVE  \E h \in Handles :
           /\ handle[h].valid /\ ~handle'[h].valid /\ handle[h].file = f
           /\ entry'[f] = [first |-> handle[h].first, size |-> handle[h].size]
<1> USE DEF TInv
<1>1. entry' # entry
  OBVIOUS
<1>2. PICK h \in Handles : fs_close(h)
  BY <1>1 DEF Next, vars, fs_unmount, fs_mount_fat32, fs_open, fs_seek, fs_read, fs_write,
              ReadPass, WritePass, AddFirst, AddCluster, Fail
<1>3. handle[h].valid /\ ~handle'[h].valid
  BY <1>2 DEF fs_close, TypeOK, Closed
<1>4. /\ handle[h].file = f
      /\ entry'[f] = [first |-> handle[h].first, size |-> handle[h].size]
  BY <1>2 DEF fs_close, TypeOK
<1>5. QED
  BY <1>3, <1>4

(* On every volume, with any number of handles: an entry gets a smaller     *)
(* size or another first cluster only from a handle that somebody's         *)
(* fs_close overtook.                                                       *)
THEOREM OverlapAloneLoses == Spec => OnlyOverlapLoses
<1> DEFINE Loses ==
      \A f \in Files :
        \/ entry'[f].size < entry[f].size
        \/ entry[f].first # NONE /\ entry'[f].first # entry[f].first
        => \E h \in Handles :
             handle[h].valid /\ ~handle'[h].valid /\ handle[h].file = f /\ Overlapped(h)
<1>1. ASSUME TInv, HandleKeeps, [Next]_vars
      PROVE  Loses
  <2>1. SUFFICES ASSUME NEW f \in Files,
                        \/ entry'[f].size < entry[f].size
                        \/ entry[f].first # NONE /\ entry'[f].first # entry[f].first
                 PROVE  \E h \in Handles :
                          handle[h].valid /\ ~handle'[h].valid /\ handle[h].file = f
                            /\ Overlapped(h)
    OBVIOUS
  <2>2. entry[f].size \in Nat
    BY <1>1 DEF TInv, TypeOK, Entries
  <2>3. entry'[f] # entry[f]
    BY <2>1, <2>2
  <2>4. PICK h \in Handles :
          /\ handle[h].valid /\ ~handle'[h].valid /\ handle[h].file = f
          /\ entry'[f] = [first |-> handle[h].first, size |-> handle[h].size]
    BY <1>1, <2>3, EntryChanges
  <2>5. handle[h].size \in Nat
    BY <1>1, <2>4, OpenHandle DEF TInv
  <2>6. ASSUME opened[h] = entry[f]
        PROVE  FALSE
    <3>1. /\ handle[h].size >= entry[f].size
          /\ entry[f].first # NONE => handle[h].first = entry[f].first
      BY <1>1, <2>4, <2>6 DEF HandleKeeps
    <3>2. ~(entry'[f].size < entry[f].size)
      BY <2>2, <2>4, <2>5, <3>1
    <3>3. QED
      BY <2>1, <2>4, <3>1, <3>2
  <2>7. QED
    BY <2>4, <2>6 DEF Overlapped
<1>2. TInv /\ HandleKeeps /\ [Next]_vars => [Loses]_vars
  BY <1>1
<1>3. QED
  BY <1>2, InitTInv, NextTInv, InitHandleKeeps, NextHandleKeeps, PTL
     DEF Spec, OnlyOverlapLoses

-----------------------------------------------------------------------------
(* Chains, in a FAT F that is sound.                                        *)
FATs == [Clusters -> Clusters \cup {FREE, EOC}]
Places == Clusters \cup {FREE, EOC, NONE}

SoundFAT(F) ==
  /\ F \in FATs
  /\ \A c \in Clusters : F[c] \in Clusters =>
       F[F[c]] # FREE /\ \A d \in Clusters : F[d] = F[c] => d = c

Begins(F, c) == c \in Clusters /\ F[c] # FREE /\ \A d \in Clusters : F[d] # c

\* There is a function that steps from place to place.
LEMMA Steps ==
  ASSUME NEW F \in FATs, NEW c \in Places, NEW N \in Nat
  PROVE  \E w \in [0..N -> Places] :
           w = [i \in 0..N |-> IF i = 0 THEN c ELSE Link(F, w[i - 1])]
<1> DEFINE Good(n) == \E w \in [0..n -> Places] :
             w[0] = c /\ \A i \in 1..n : w[i] = Link(F, w[i - 1])
           Bad == {n \in Nat : ~Good(n)}
<1>1. \A x \in Places : Link(F, x) \in Places
  BY DEF Link, FATs, Places
<1>2. Good(0)
  <2> DEFINE w == [i \in 0..0 |-> c]
  <2>1. w \in [0..0 -> Places] /\ w[0] = c
    OBVIOUS
  <2>2. \A i \in 1..0 : w[i] = Link(F, w[i - 1])
    OBVIOUS
  <2> HIDE DEF w
  <2>3. QED
    BY <2>1, <2>2
<1>3. ASSUME NEW n \in Nat, Good(n)
      PROVE  Good(n + 1)
  <2>1. PICK w \in [0..n -> Places] :
          w[0] = c /\ \A i \in 1..n : w[i] = Link(F, w[i - 1])
    BY <1>3
  <2> DEFINE v == [i \in 0..(n + 1) |-> IF i = n + 1 THEN Link(F, w[n]) ELSE w[i]]
  <2>2. v \in [0..(n + 1) -> Places]
    BY <1>1, <2>1
  <2>3. v[0] = c
    BY <2>1
  <2>4. ASSUME NEW i \in 1..(n + 1)
        PROVE  v[i] = Link(F, v[i - 1])
    <3>1. i - 1 \in 0..n /\ v[i - 1] = w[i - 1]
      BY <2>4
    <3>2. CASE i = n + 1
      BY <3>1, <3>2
    <3>3. CASE i # n + 1
      <4>1. i \in 1..n /\ v[i] = w[i]
        BY <3>3
      <4>2. QED
        BY <2>1, <3>1, <4>1
    <3>4. QED
      BY <3>2, <3>3
  <2>5. QED
    BY <2>2, <2>3, <2>4
<1> HIDE DEF Good
<1>4. Bad = {}
  <2>1. SUFFICES ASSUME Bad # {} PROVE FALSE
    OBVIOUS
  <2>2. PICK b \in Bad : \A a \in Bad : b <= a
    <3>1. Bad \in SUBSET Nat
      OBVIOUS
    <3> HIDE DEF Bad
    <3>2. QED
      BY <2>1, <3>1, LeastElement
  <2>3. b \in Nat /\ b # 0 /\ ~Good(b)
    BY <1>2, <2>2
  <2>4. b - 1 \in Nat /\ b - 1 < b /\ (b - 1) + 1 = b
    BY <2>3
  <2>5. Good(b - 1)
    BY <2>2, <2>4
  <2>6. QED
    BY <1>3, <2>3, <2>4, <2>5
<1>5. Good(N)
  BY <1>4
<1>6. PICK w \in [0..N -> Places] : w[0] = c /\ \A i \in 1..N : w[i] = Link(F, w[i - 1])
  BY <1>5 DEF Good
<1>7. w = [i \in 0..N |-> IF i = 0 THEN c ELSE Link(F, w[i - 1])]
  <2>1. ASSUME NEW i \in 0..N
        PROVE  w[i] = IF i = 0 THEN c ELSE Link(F, w[i - 1])
    <3>1. i = 0 \/ i \in 1..N
      OBVIOUS
    <3>2. QED
      BY <1>6, <3>1
  <2>2. QED
    BY <2>1
<1>8. QED
  BY <1>7

LEMMA WalkIs ==
  ASSUME NEW F \in FATs, NEW c \in Places
  PROVE  /\ WalkIn(F, c) \in [0..LastCluster -> Places]
         /\ WalkIn(F, c)[0] = c
         /\ \A i \in 1..LastCluster : WalkIn(F, c)[i] = Link(F, WalkIn(F, c)[i - 1])
<1> DEFINE Rec(w) == w = [i \in 0..LastCluster |-> IF i = 0 THEN c ELSE Link(F, w[i - 1])]
           W == CHOOSE w : Rec(w)
<1>1. LastCluster \in Nat
  BY Numbers
<1>2. PICK w \in [0..LastCluster -> Places] : Rec(w)
  BY <1>1, Steps
<1>3. Rec(W)
  <2> HIDE DEF Rec
  <2>1. QED
    BY <1>2
<1>4. WalkIn(F, c) = W
  BY DEF WalkIn
<1>5. W[0] = c /\ \A i \in 1..LastCluster : W[i] = Link(F, W[i - 1])
  <2> HIDE DEF W
  <2>1. QED
    BY <1>1, <1>3
<1>6. \A x \in Places : Link(F, x) \in Places
  BY DEF Link, FATs, Places
<1>7. \A i \in 0..LastCluster : W[i] \in Places
  <2> HIDE DEF W, Rec
  <2> DEFINE Bad == {i \in 0..LastCluster : W[i] \notin Places}
  <2>1. SUFFICES ASSUME Bad # {} PROVE FALSE
    OBVIOUS
  <2>2. PICK b \in Bad : \A a \in Bad : b <= a
    <3>1. Bad \in SUBSET Nat
      BY <1>1
    <3> HIDE DEF Bad
    <3>2. QED
      BY <2>1, <3>1, LeastElement
  <2>3. b \in 1..LastCluster /\ b - 1 \in 0..LastCluster /\ b - 1 < b
    BY <1>1, <1>5, <2>2
  <2>4. W[b - 1] \in Places
    BY <1>1, <2>2, <2>3
  <2>5. QED
    BY <1>5, <1>6, <2>2, <2>3, <2>4
<1>8. W \in [0..LastCluster -> Places]
  <2> HIDE DEF W
  <2>1. QED
    BY <1>3, <1>7
<1>9. QED
  <2> HIDE DEF W
  <2>1. QED
    BY <1>4, <1>5, <1>8

\* Before a cluster of the walk there are only clusters.
LEMMA WalkBefore ==
  ASSUME NEW F \in FATs, NEW c \in Places, NEW i \in 0..LastCluster,
         WalkIn(F, c)[i] \in Clusters, NEW j \in 0..i
  PROVE  WalkIn(F, c)[j] \in Clusters
<1> DEFINE W == WalkIn(F, c)
           Bad == {n \in Nat : n <= i /\ W[i - n] \notin Clusters}
<1>1. /\ LastCluster \in Nat /\ EOC \notin Clusters
      /\ \A n \in 1..LastCluster : W[n] = Link(F, W[n - 1])
  BY Numbers, WalkIs
<1> HIDE DEF W
<1>2. Bad = {}
  <2>1. SUFFICES ASSUME Bad # {} PROVE FALSE
    OBVIOUS
  <2>2. PICK b \in Bad : \A a \in Bad : b <= a
    <3>1. Bad \in SUBSET Nat
      OBVIOUS
    <3> HIDE DEF Bad
    <3>2. QED
      BY <2>1, <3>1, LeastElement
  <2>3. b \in Nat /\ b <= i /\ W[i - b] \notin Clusters /\ i \in Nat
    BY <1>1, <2>2
  <2>4. b # 0
    BY <2>3 DEF W
  <2>5. W[i - (b - 1)] \in Clusters
    <3>1. b - 1 \in Nat /\ b - 1 < b /\ b - 1 <= i
      BY <2>3, <2>4
    <3>2. b - 1 \notin Bad
      BY <2>2, <2>3, <3>1
    <3>3. QED
      BY <3>1, <3>2
  <2>6. i - (b - 1) \in 1..LastCluster /\ (i - (b - 1)) - 1 = i - b
    BY <1>1, <2>3, <2>4
  <2>7. W[i - (b - 1)] = Link(F, W[i - b])
    BY <1>1, <2>6
  <2>8. QED
    BY <1>1, <2>3, <2>5, <2>7 DEF Link
<1>3. i - j \in Nat /\ i - j <= i /\ i - (i - j) = j
  BY <1>1
<1>4. W[i - (i - j)] \in Clusters
  BY <1>2, <1>3
<1>5. QED
  BY <1>3, <1>4 DEF W

\* Two chains have nothing in common, and a chain never comes back.
LEMMA WalksApart ==
  ASSUME NEW F, SoundFAT(F), NEW c, Begins(F, c), NEW d, Begins(F, d),
         NEW i \in 0..LastCluster, NEW j \in 0..LastCluster,
         WalkIn(F, c)[i] \in Clusters, WalkIn(F, c)[i] = WalkIn(F, d)[j]
  PROVE  c = d /\ i = j
<1> DEFINE V == WalkIn(F, c)
           W == WalkIn(F, d)
           Bad == {n \in 0..LastCluster : \E m \in 0..LastCluster :
                     /\ V[n] \in Clusters /\ V[n] = W[m]
                     /\ ~(c = d /\ n = m)}
<1>1. /\ F \in FATs /\ c \in Clusters /\ d \in Clusters /\ c \in Places /\ d \in Places
      /\ \A x \in Clusters : F[x] # c /\ F[x] # d
      /\ \A x, y \in Clusters : F[x] \in Clusters /\ F[x] = F[y] => x = y
      /\ LastCluster \in Nat /\ EOC \notin Clusters
  BY Numbers DEF SoundFAT, Begins, Places
<1>2. /\ V[0] = c /\ W[0] = d
      /\ \A n \in 1..LastCluster : V[n] = Link(F, V[n - 1]) /\ W[n] = Link(F, W[n - 1])
  BY <1>1, WalkIs
<1> HIDE DEF V, W
\* What is reached by a step is no beginning, and was reached from one place.
<1>3. ASSUME NEW n \in 1..LastCluster
      PROVE  /\ V[n] \in Clusters => /\ V[n - 1] \in Clusters /\ V[n] = F[V[n - 1]]
                                     /\ V[n] # c /\ V[n] # d
             /\ W[n] \in Clusters => /\ W[n - 1] \in Clusters /\ W[n] = F[W[n - 1]]
                                     /\ W[n] # c /\ W[n] # d
  BY <1>1, <1>2 DEF Link
<1>4. Bad = {}
  <2>1. SUFFICES ASSUME Bad # {} PROVE FALSE
    OBVIOUS
  <2>2. PICK b \in Bad : \A a \in Bad : b <= a
    <3>1. Bad \in SUBSET Nat
      BY <1>1
    <3> HIDE DEF Bad
    <3>2. QED
      BY <2>1, <3>1, LeastElement
  <2>3. PICK m \in 0..LastCluster :
          V[b] \in Clusters /\ V[b] = W[m] /\ ~(c = d /\ b = m)
    BY <2>2
  <2>4. b \in 0..LastCluster
    BY <2>2
  <2>5. CASE b = 0
    <3>1. m = 0
      BY <1>1, <1>2, <1>3, <2>3, <2>5
    <3>2. QED
      BY <1>2, <2>3, <2>5, <3>1
  <2>6. CASE b # 0
    <3>1. b \in 1..LastCluster /\ b - 1 \in 0..LastCluster /\ ~(b <= b - 1)
      BY <1>1, <2>4, <2>6
    <3>2. m # 0
      BY <1>2, <1>3, <2>3, <3>1
    <3>3. m \in 1..LastCluster /\ m - 1 \in 0..LastCluster
      BY <1>1, <3>2
    <3>4. /\ V[b - 1] \in Clusters /\ W[m - 1] \in Clusters
          /\ F[V[b - 1]] \in Clusters /\ F[V[b - 1]] = F[W[m - 1]]
      BY <1>3, <2>3, <3>1, <3>3
    <3>5. V[b - 1] = W[m - 1]
      BY <1>1, <3>4
    <3>6. b - 1 \notin Bad
      BY <2>2, <3>1
    <3>7. c = d /\ b - 1 = m - 1
      BY <3>1, <3>3, <3>4, <3>5, <3>6
    <3>8. QED
      BY <1>1, <2>3, <3>1, <3>3, <3>7
  <2>7. QED
    BY <2>5, <2>6
<1>5. V[i] \in Clusters /\ V[i] = W[j]
  BY DEF V, W
<1>6. QED
  BY <1>4, <1>5

Length(F, c) == Cardinality(ChainIn(F, c))

\* A chain ends, and its clusters are the first so many of the walk.
LEMMA ChainLength ==
  ASSUME NEW F, SoundFAT(F), NEW c, Begins(F, c)
  PROVE  /\ Length(F, c) \in 1..(LastCluster - 1)
         /\ \A i \in 0..LastCluster : WalkIn(F, c)[i] \in Clusters <=> i < Length(F, c)
<1> DEFINE W == WalkIn(F, c)
           Out == {i \in 0..(LastCluster - 1) : W[i] \notin Clusters}
<1>1. /\ F \in FATs /\ c \in Places /\ c \in Clusters /\ LastCluster \in Nat /\ LastCluster >= 2
      /\ W \in [0..LastCluster -> Places] /\ W[0] = c
  BY Numbers, WalkIs DEF SoundFAT, Begins, Places, Clusters
<1>2. \A i, j \in 0..LastCluster : W[i] \in Clusters /\ W[i] = W[j] => i = j
  BY WalksApart
<1>3. ASSUME NEW i \in 0..LastCluster, W[i] \in Clusters, NEW j \in 0..i
      PROVE  W[j] \in Clusters
  BY <1>1, <1>3, WalkBefore
<1> HIDE DEF W
<1>4. Out # {}
  <2>1. SUFFICES ASSUME Out = {} PROVE FALSE
    OBVIOUS
  <2> DEFINE v == [i \in 0..(LastCluster - 1) |-> W[i]]
  <2>2. /\ v \in [0..(LastCluster - 1) -> Clusters]
        /\ \A i \in 0..(LastCluster - 1) : v[i] = W[i] /\ i \in 0..LastCluster
    BY <1>1, <2>1
  <2> HIDE DEF v
  <2>3. /\ IsFiniteSet(Clusters) /\ IsFiniteSet(0..(LastCluster - 1))
        /\ Cardinality(Clusters) = IF 2 > LastCluster THEN 0 ELSE LastCluster - 2 + 1
        /\ Cardinality(0..(LastCluster - 1)) = LastCluster
    BY <1>1, FS_Interval DEF Clusters
  <2>4. Cardinality(Clusters) < Cardinality(0..(LastCluster - 1))
    BY <1>1, <2>3
  <2>5. \E x, y \in 0..(LastCluster - 1) : x # y /\ v[x] = v[y]
    <3>1. PICK S, T : S = 0..(LastCluster - 1) /\ T = Clusters
      OBVIOUS
    <3>2. IsFiniteSet(S) /\ IsFiniteSet(T) /\ Cardinality(T) < Cardinality(S) /\ v \in [S -> T]
      BY <2>2, <2>3, <2>4, <3>1
    <3>3. \E x, y \in S : x # y /\ v[x] = v[y]
      BY ONLY <3>2, FS_PigeonHole
    <3>4. QED
      BY <3>1, <3>3
  <2>6. QED
    BY <1>2, <2>2, <2>5
<1>5. PICK k \in Out : \A i \in Out : k <= i
  <2>1. Out \in SUBSET Nat
    BY <1>1
  <2> HIDE DEF Out
  <2>2. QED
    BY <1>4, <2>1, LeastElement
<1>6. k \in 1..(LastCluster - 1) /\ W[k] \notin Clusters
  BY <1>1, <1>5
<1>7. ASSUME NEW i \in 0..LastCluster
      PROVE  W[i] \in Clusters <=> i < k
  <2>1. CASE i < k
    <3>1. i \in 0..(LastCluster - 1) /\ ~(k <= i)
      BY <1>1, <1>6, <2>1
    <3>2. i \notin Out
      BY <1>5, <3>1
    <3>3. QED
      BY <2>1, <3>1, <3>2
  <2>2. CASE k <= i
    <3>1. k \in 0..i
      BY <1>1, <1>6, <2>2
    <3>2. QED
      BY <1>1, <1>3, <1>6, <2>2, <3>1
  <2>3. QED
    BY <1>1, <1>6, <2>1, <2>2
<1>8. Length(F, c) = k
  <2> DEFINE f == [i \in 0..(k - 1) |-> W[i]]
  <2>1. \A i \in 0..(k - 1) : i \in 0..LastCluster /\ W[i] \in Clusters
    BY <1>1, <1>6, <1>7
  <2>2. ChainIn(F, c) = {W[i] : i \in 0..(k - 1)}
    <3>1. ASSUME NEW x \in ChainIn(F, c)
          PROVE  x \in {W[i] : i \in 0..(k - 1)}
      <4>1. PICK i \in 0..LastCluster : x = W[i] /\ W[i] \in Clusters
        BY <1>1 DEF ChainIn, W
      <4>2. i \in 0..(k - 1)
        BY <1>1, <1>6, <1>7, <4>1
      <4>3. QED
        BY <4>1, <4>2
    <3>2. ASSUME NEW i \in 0..(k - 1)
          PROVE  W[i] \in ChainIn(F, c)
      <4>1. i \in 0..(LastCluster - 2)
        BY <1>1, <1>6
      <4>2. QED
        BY <2>1, <4>1 DEF ChainIn, W
    <3>3. QED
      BY <3>1, <3>2
  <2>3. f \in [0..(k - 1) -> ChainIn(F, c)]
    BY <2>2
  <2>4. \A i, j \in 0..(k - 1) : f[i] = f[j] => i = j
    BY <1>2, <2>1
  <2>5. \A x \in ChainIn(F, c) : \E i \in 0..(k - 1) : f[i] = x
    BY <2>2
  <2> HIDE DEF f
  <2>6. f \in Bijection(0..(k - 1), ChainIn(F, c))
    <3>1. DOMAIN f = 0..(k - 1)
      BY <2>3
    <3>2. IsInjective(f)
      BY <2>4, <3>1 DEF IsInjective
    <3>3. f \in Injection(0..(k - 1), ChainIn(F, c))
      BY <2>3, <3>2 DEF Injection
    <3>4. f \in Surjection(0..(k - 1), ChainIn(F, c))
      BY <2>3, <2>5 DEF Surjection
    <3>5. QED
      BY <3>3, <3>4 DEF Bijection
  <2>7. ExistsBijection(0..(k - 1), ChainIn(F, c))
    BY <2>6 DEF ExistsBijection
  <2>8. IsFiniteSet(0..(k - 1)) /\ Cardinality(0..(k - 1)) = k
    <3>1. PICK m \in Int : m = k - 1 /\ ~(0 > m) /\ m - 0 + 1 = k
      BY <1>1, <1>6
    <3>2. IsFiniteSet(0..m) /\ Cardinality(0..m) = IF 0 > m THEN 0 ELSE m - 0 + 1
      BY ONLY FS_Interval, 0 \in Int, m \in Int
    <3>3. QED
      BY <3>1, <3>2
  <2>9. Cardinality(ChainIn(F, c)) = Cardinality(0..(k - 1))
    <3>1. PICK S, T : S = 0..(k - 1) /\ T = ChainIn(F, c)
      OBVIOUS
    <3>2. IsFiniteSet(S) /\ ExistsBijection(S, T)
      BY <2>7, <2>8, <3>1
    <3>3. Cardinality(T) = Cardinality(S)
      BY ONLY <3>2, FS_Bijection
    <3>4. QED
      BY <3>1, <3>3
  <2>10. QED
    BY <2>8, <2>9 DEF Length
<1>9. QED
  BY <1>6, <1>7, <1>8 DEF W

\* At its last cluster there is the mark for the end.
LEMMA ChainEnds ==
  ASSUME NEW F, SoundFAT(F), NEW c, Begins(F, c)
  PROVE  /\ WalkIn(F, c)[Length(F, c) - 1] \in Clusters
         /\ F[WalkIn(F, c)[Length(F, c) - 1]] = EOC
<1> DEFINE W == WalkIn(F, c)
<1>1. PICK k : k = Length(F, c)
  OBVIOUS
<1>2. /\ LastCluster \in Nat /\ k \in 1..LastCluster
      /\ W[k - 1] \in Clusters /\ W[k] \notin Clusters
  BY <1>1, ChainLength, Numbers
<1>3. /\ F \in FATs /\ c \in Places /\ F[c] # FREE /\ EOC \notin Clusters
      /\ W[0] = c /\ \A i \in 1..LastCluster : W[i] = Link(F, W[i - 1])
      /\ \A x \in Clusters : F[x] \in Clusters => F[F[x]] # FREE
  BY WalkIs, Numbers DEF SoundFAT, Begins, Places
<1> HIDE DEF W
<1>4. W[k] = F[W[k - 1]]
  BY <1>2, <1>3 DEF Link
<1>5. F[W[k - 1]] # FREE
  <2>1. CASE k = 1
    BY <1>3, <2>1
  <2>2. CASE k # 1
    <3>1. k - 1 \in 1..LastCluster /\ (k - 1) - 1 \in 0..LastCluster
      BY <1>2, <2>2
    <3>2. W[k - 1] = Link(F, W[(k - 1) - 1])
      BY <1>3, <3>1
    <3>3. W[(k - 1) - 1] \in Clusters /\ W[k - 1] = F[W[(k - 1) - 1]]
      BY <1>2, <1>3, <3>2 DEF Link
    <3>4. QED
      BY <1>2, <1>3, <3>3
  <2>3. QED
    BY <2>1, <2>2
<1>6. F[W[k - 1]] = EOC
  BY <1>2, <1>3, <1>4, <1>5 DEF FATs
<1>7. QED
  BY <1>1, <1>2, <1>6 DEF W

\* G is F with links added: those F has are kept.
Grows(F, G) ==
  F \in FATs /\ G \in FATs /\ \A x \in Clusters : F[x] \in Clusters => G[x] = F[x]

LEMMA WalkKept ==
  ASSUME NEW F, NEW G, Grows(F, G), NEW c \in Places,
         NEW i \in 0..LastCluster, WalkIn(F, c)[i] \in Clusters
  PROVE  WalkIn(G, c)[i] = WalkIn(F, c)[i]
<1> DEFINE V == WalkIn(F, c)
           W == WalkIn(G, c)
           Bad == {n \in 0..LastCluster : V[n] \in Clusters /\ W[n] # V[n]}
<1>1. /\ F \in FATs /\ G \in FATs /\ LastCluster \in Nat /\ EOC \notin Clusters
      /\ \A x \in Clusters : F[x] \in Clusters => G[x] = F[x]
  BY Numbers DEF Grows
<1>2. V[0] = c /\ \A n \in 1..LastCluster : V[n] = Link(F, V[n - 1])
  BY <1>1, WalkIs
<1>3. W[0] = c /\ \A n \in 1..LastCluster : W[n] = Link(G, W[n - 1])
  BY <1>1, WalkIs
<1> HIDE DEF V, W
<1>4. Bad = {}
  <2>1. SUFFICES ASSUME Bad # {} PROVE FALSE
    OBVIOUS
  <2>2. PICK b \in Bad : \A a \in Bad : b <= a
    <3>1. Bad \in SUBSET Nat
      BY <1>1
    <3> HIDE DEF Bad
    <3>2. QED
      BY <2>1, <3>1, LeastElement
  <2>3. b \in 0..LastCluster /\ V[b] \in Clusters /\ W[b] # V[b]
    BY <2>2
  <2>4. b \in 1..LastCluster /\ b - 1 \in 0..LastCluster /\ ~(b <= b - 1)
    BY <1>1, <1>2, <1>3, <2>3
  <2>5. V[b - 1] \in Clusters /\ V[b] = F[V[b - 1]]
    BY <1>1, <1>2, <2>3, <2>4 DEF Link
  <2>6. W[b - 1] = V[b - 1]
    BY <2>2, <2>4, <2>5
  <2>7. W[b] = G[V[b - 1]]
    BY <1>3, <2>4, <2>5, <2>6 DEF Link
  <2>8. QED
    BY <1>1, <2>3, <2>5, <2>7
<1>5. V[i] \in Clusters
  BY DEF V
<1>6. W[i] = V[i]
  BY <1>4, <1>5
<1>7. QED
  BY <1>6 DEF V, W

LEMMA ChainGrows ==
  ASSUME NEW F, NEW G, Grows(F, G), NEW c \in Places
  PROVE  /\ ChainIn(F, c) \subseteq ChainIn(G, c)
         /\ Length(F, c) \in Nat /\ Length(G, c) \in Nat /\ Length(F, c) <= Length(G, c)
<1>1. ASSUME NEW x \in ChainIn(F, c)
      PROVE  x \in ChainIn(G, c)
  <2>1. PICK i \in 0..(LastCluster - 2) :
          x = WalkIn(F, c)[i] /\ WalkIn(F, c)[i] \in Clusters
    BY DEF ChainIn
  <2>2. i \in 0..LastCluster
    BY Numbers
  <2>3. x = WalkIn(G, c)[i] /\ x \in Clusters
    BY <2>1, <2>2, WalkKept
  <2>4. QED
    BY <2>3 DEF ChainIn
<1>2. IsFiniteSet(Clusters)
  BY Numbers, FS_Interval DEF Clusters
<1>3. IsFiniteSet(ChainIn(F, c)) /\ IsFiniteSet(ChainIn(G, c))
  BY <1>2, FS_Subset DEF ChainIn
<1>4. QED
  BY <1>1, <1>3, FS_CardinalityType, FS_Subset DEF Length

-----------------------------------------------------------------------------
(* What is in progress was allowed on its handle, is not finished, and when *)
(* it is a read ends within the size.                                       *)
LegalCall(r, k) ==
  k.op # "none" =>
    /\ r.valid /\ k.op \in r.mode /\ k.left \in Nat /\ k.left > 0
    /\ k.op = "read" => r.pos + k.left <= r.size

CallsLegal == \A h \in Handles : LegalCall(handle[h], call[h])

\* A handle that cannot write has the first cluster it was opened with.
ReadersKeep ==
  \A h \in Handles : handle[h].valid /\ "write" \notin handle[h].mode =>
    handle[h].first = opened[h].first

\* A pass does something.
LEMMA PartIsSome ==
  ASSUME TInv, NEW h \in Handles, LegalCall(handle[h], call[h]), call[h].op # "none"
  PROVE  Part(h) > 0
<1>1. handle[h].pos \in Nat /\ call[h].left \in Nat /\ call[h].left > 0
  BY OpenHandle DEF TInv, LegalCall
<1>2. Sector \in Nat \ {0} /\ handle[h].pos % Sector \in 0..(Sector - 1)
  BY <1>1, Numbers, Division
<1>3. Sector - (handle[h].pos % Sector) > 0
  BY <1>2
<1>4. QED
  BY <1>1, <1>3 DEF Part

\* What a pass of a read changes.
LEMMA ReadEffect ==
  ASSUME TInv, NEW h \in Handles, ReadPass(h)
  PROVE  /\ handle[h] \in Opened /\ handle[h].valid /\ call[h].op = "read"
         /\ At(h) \in Clusters /\ Part(h) \in Nat
         /\ handle'[h] \in Opened
         /\ handle' = [handle EXCEPT ![h] = handle'[h]]
         /\ handle'[h].valid /\ handle'[h].mode = handle[h].mode
         /\ handle'[h].file = handle[h].file /\ handle'[h].first = handle[h].first
         /\ handle'[h].pos = handle[h].pos + Part(h)
         /\ handle'[h].size = handle[h].size
         /\ call' = After(h, Part(h))
<1> USE DEF TInv
<1>1. call[h].op = "read" /\ handle[h].valid /\ At(h) \in Clusters
  BY ReachedOpen DEF ReadPass
<1>2. Part(h) \in Nat /\ handle[h] \in Opened /\ handle[h].pos \in Nat
  BY <1>1, PartFits, OpenHandle
<1>3. PICK r : r = [handle[h] EXCEPT !.pos = handle[h].pos + Part(h)]
  OBVIOUS
<1>4. r \in Opened
  <2>1. handle[h].pos + Part(h) \in Nat
    BY <1>2
  <2>2. QED
    BY <1>1, <1>2, <1>3, <2>1, HandleMoves
<1>5. handle' = [handle EXCEPT ![h] = r]
  BY <1>3 DEF ReadPass
<1>6. handle'[h] = r /\ handle' = [handle EXCEPT ![h] = handle'[h]]
  BY <1>5 DEF TypeOK
<1>7. call' = After(h, Part(h))
  BY DEF ReadPass
<1>8. /\ r.valid /\ r.mode = handle[h].mode
      /\ r.file = handle[h].file /\ r.first = handle[h].first
      /\ r.pos = handle[h].pos + Part(h) /\ r.size = handle[h].size
  BY <1>2, <1>3 DEF Opened
<1>9. QED
  BY <1>1, <1>2, <1>4, <1>6, <1>7, <1>8

\* What a pass of a write changes in its handle.
LEMMA WriteEffect ==
  ASSUME TInv, NEW h \in Handles, WritePass(h)
  PROVE  /\ handle[h] \in Opened /\ handle[h].valid /\ call[h].op = "write"
         /\ At(h) \in Clusters /\ Part(h) \in Nat
         /\ handle'[h] \in Opened
         /\ handle' = [handle EXCEPT ![h] = handle'[h]]
         /\ handle'[h].valid /\ handle'[h].mode = handle[h].mode
         /\ handle'[h].file = handle[h].file /\ handle'[h].first = handle[h].first
         /\ handle'[h].pos = handle[h].pos + Part(h)
         /\ handle'[h].size = IF handle[h].pos + Part(h) > handle[h].size
                              THEN handle[h].pos + Part(h) ELSE handle[h].size
         /\ call' = After(h, Part(h))
<1> USE DEF TInv
<1>1. call[h].op = "write" /\ handle[h].valid /\ At(h) \in Clusters
  BY ReachedOpen DEF WritePass
<1>2. /\ Part(h) \in Nat /\ handle[h] \in Opened /\ handle[h].pos \in Nat
      /\ handle[h].size \in Nat
  BY <1>1, PartFits, OpenHandle
<1>3. PICK e \in Nat, n \in Nat :
        /\ e = handle[h].pos + Part(h)
        /\ n = IF handle[h].pos + Part(h) > handle[h].size
               THEN handle[h].pos + Part(h) ELSE handle[h].size
  BY <1>2
<1>4. PICK r : r = [handle[h] EXCEPT !.pos = e, !.size = n]
  OBVIOUS
<1>5. r \in Opened
  BY <1>1, <1>2, <1>3, <1>4, HandleMoves
<1>6. handle' = [handle EXCEPT ![h] = r]
  BY <1>3, <1>4 DEF WritePass
<1>7. handle'[h] = r /\ handle' = [handle EXCEPT ![h] = handle'[h]]
  BY <1>6 DEF TypeOK
<1>8. call' = After(h, Part(h))
  BY DEF WritePass
<1>9. /\ r.valid /\ r.mode = handle[h].mode
      /\ r.file = handle[h].file /\ r.first = handle[h].first
      /\ r.pos = e /\ r.size = n
  BY <1>2, <1>4 DEF Opened
<1>10. QED
  BY <1>1, <1>2, <1>3, <1>5, <1>7, <1>8, <1>9

\* What AddFirst changes.
LEMMA AddFirstEffect ==
  ASSUME TInv, NEW h \in Handles, AddFirst(h)
  PROVE  /\ FirstFree \in Clusters /\ fat[FirstFree] = FREE
         /\ fat' = [fat EXCEPT ![FirstFree] = EOC]
         /\ handle[h] \in Opened /\ handle[h].valid /\ handle[h].first = NONE
         /\ call[h].op = "write"
         /\ handle'[h] \in Opened
         /\ handle' = [handle EXCEPT ![h] = handle'[h]]
         /\ handle'[h].valid /\ handle'[h].mode = handle[h].mode
         /\ handle'[h].file = handle[h].file /\ handle'[h].first = FirstFree
         /\ handle'[h].size = handle[h].size
<1> USE DEF TInv
<1>1. FirstFree \in Clusters /\ fat[FirstFree] = FREE
  BY FirstFreeIsFree DEF AddFirst
<1>2. handle[h].valid /\ handle[h] \in Opened
  BY OpenHandle DEF AddFirst, CallsOnOpen
<1>3. PICK r : r = [handle[h] EXCEPT !.first = FirstFree]
  OBVIOUS
<1>4. r \in Opened
  BY <1>1, <1>2, <1>3 DEF Opened
<1>5. handle' = [handle EXCEPT ![h] = r]
  BY <1>3 DEF AddFirst
<1>6. handle'[h] = r /\ handle' = [handle EXCEPT ![h] = handle'[h]]
  BY <1>5 DEF TypeOK
<1>7. /\ r.valid /\ r.mode = handle[h].mode
      /\ r.file = handle[h].file /\ r.first = FirstFree /\ r.size = handle[h].size
  BY <1>2, <1>3 DEF Opened
<1>8. QED
  BY <1>1, <1>2, <1>4, <1>6, <1>7 DEF AddFirst

\* A call goes on or ends with a pass.
LEMMA PassLegal ==
  ASSUME TInv, NEW h \in Handles, LegalCall(handle[h], call[h]), call[h].op # "none",
         NEW r, r.valid, r.mode = handle[h].mode,
         r.pos = handle[h].pos + Part(h), r.size >= handle[h].size, r.size \in Nat
  PROVE  LegalCall(r, After(h, Part(h))[h])
<1>1. /\ Part(h) \in Nat /\ call[h].left \in Nat /\ Part(h) <= call[h].left
      /\ handle[h].pos \in Nat /\ handle[h].size \in Nat
      /\ call \in [Handles -> [op : {"none", "read", "write"}, left : Nat]]
  BY PartFits, OpenHandle DEF LegalCall, TInv, TypeOK
<1>2. CASE call[h].left = Part(h)
  <2>1. After(h, Part(h))[h].op = "none"
    BY <1>1, <1>2 DEF After
  <2>2. QED
    BY <2>1 DEF LegalCall
<1>3. CASE call[h].left # Part(h)
  <2>1. /\ After(h, Part(h))[h].op = call[h].op
        /\ After(h, Part(h))[h].left = call[h].left - Part(h)
    BY <1>1, <1>3 DEF After
  <2>2. PICK k : k = After(h, Part(h))[h]
    OBVIOUS
  <2>3. k.op = call[h].op /\ k.left = call[h].left - Part(h)
    BY <2>1, <2>2
  <2>4. k.left \in Nat /\ k.left > 0 /\ r.pos + k.left = handle[h].pos + call[h].left
    BY <1>1, <1>3, <2>3
  <2>5. k.op = "read" => r.pos + k.left <= r.size
    BY <1>1, <2>3, <2>4 DEF LegalCall
  <2>6. QED
    BY <2>2, <2>3, <2>4, <2>5 DEF LegalCall
<1>4. QED
  BY <1>2, <1>3

\* The other handles are left alone.
LEMMA OneCall ==
  ASSUME CallsLegal, NEW h \in Handles, LegalCall(handle'[h], call'[h]),
         \A g \in Handles \ {h} : handle'[g] = handle[g] /\ call'[g] = call[g]
  PROVE  CallsLegal'
  BY DEF CallsLegal

LEMMA InitCallsLegal == Init => CallsLegal
  BY DEF Init, CallsLegal, LegalCall

LEMMA NextCallsLegal == TInv /\ CallsLegal /\ [Next]_vars => CallsLegal'
<1> SUFFICES ASSUME TInv, CallsLegal, [Next]_vars PROVE CallsLegal'
  OBVIOUS
<1> USE DEF TInv
<1>1. CASE UNCHANGED <<handle, call>>
  BY <1>1 DEF CallsLegal
<1>2. ASSUME NEW h \in Handles, NEW f \in Files, NEW m \in Modes, fs_open(h, f, m)
      PROVE  CallsLegal'
  BY <1>2, OneCall DEF fs_open, TypeOK, LegalCall
<1>3. ASSUME NEW h \in Handles, NEW p \in Positions, fs_seek(h, p)
      PROVE  CallsLegal'
  BY <1>3, OneCall DEF fs_seek, TypeOK, LegalCall
<1>4. ASSUME NEW h \in Handles, NEW n \in Lengths, fs_read(h, n)
      PROVE  CallsLegal'
  <2>1. /\ handle[h].size \in Nat /\ handle[h].pos \in Nat /\ n \in Nat /\ n > 0
        /\ handle[h].valid /\ "read" \in handle[h].mode /\ handle[h].pos < handle[h].size
    BY <1>4, OpenHandle, FileSystemAssumption DEF fs_read, Usable
  <2>2. PICK rest \in Nat : rest = handle[h].size - handle[h].pos
    BY <2>1
  <2>3. PICK k : k = [op |-> "read", left |-> IF n > rest THEN rest ELSE n]
    OBVIOUS
  <2>4. call' = [call EXCEPT ![h] = k] /\ handle' = handle
    BY <1>4, <2>2, <2>3 DEF fs_read
  <2>5. /\ k.op = "read" /\ k.left \in Nat /\ k.left > 0
        /\ handle[h].pos + k.left <= handle[h].size
    BY <2>1, <2>2, <2>3
  <2>6. call'[h] = k /\ \A g \in Handles \ {h} : call'[g] = call[g]
    BY <2>4 DEF TypeOK
  <2>7. QED
    BY <2>1, <2>4, <2>5, <2>6, OneCall DEF LegalCall
<1>5. ASSUME NEW h \in Handles, NEW n \in Lengths, fs_write(h, n)
      PROVE  CallsLegal'
  <2>1. n \in Nat /\ n > 0
    BY FileSystemAssumption
  <2>2. handle' = handle /\ handle[h].valid /\ "write" \in handle[h].mode
    BY <1>5 DEF fs_write, Usable
  <2>3. /\ call'[h] = [op |-> "write", left |-> n]
        /\ \A g \in Handles \ {h} : call'[g] = call[g]
    BY <1>5 DEF fs_write, TypeOK
  <2>4. QED
    BY <2>1, <2>2, <2>3, OneCall DEF LegalCall
<1>6. ASSUME NEW h \in Handles, ReadPass(h) \/ WritePass(h)
      PROVE  CallsLegal'
  <2>1. PICK r \in Opened :
          /\ handle[h] \in Opened /\ handle[h].valid /\ call[h].op # "none"
          /\ Part(h) \in Nat /\ handle'[h] = r /\ handle' = [handle EXCEPT ![h] = r]
          /\ r.mode = handle[h].mode /\ r.pos = handle[h].pos + Part(h)
          /\ r.size >= handle[h].size
          /\ call' = After(h, Part(h))
    <3>1. CASE ReadPass(h)
      <4>1. handle[h].size \in Nat
        BY <3>1, ReadEffect DEF Opened
      <4>2. handle'[h].size >= handle[h].size
        BY <3>1, <4>1, ReadEffect
      <4>3. QED
        BY <3>1, <4>2, ReadEffect
    <3>2. CASE WritePass(h)
      <4>1. handle[h].size \in Nat /\ handle[h].pos \in Nat /\ Part(h) \in Nat
        BY <3>2, WriteEffect DEF Opened
      <4>2. handle'[h].size >= handle[h].size
        BY <3>2, <4>1, WriteEffect
      <4>3. QED
        BY <3>2, <4>2, WriteEffect
    <3>3. QED
      BY <1>6, <3>1, <3>2
  <2>2. LegalCall(handle[h], call[h])
    BY DEF CallsLegal
  <2>3. r.valid /\ r.size \in Nat
    BY DEF Opened
  <2>4. LegalCall(r, call'[h])
    BY <2>1, <2>2, <2>3, PassLegal
  <2>5. \A g \in Handles \ {h} : handle'[g] = handle[g] /\ call'[g] = call[g]
    BY <2>1 DEF TypeOK, After
  <2>6. QED
    BY <2>1, <2>4, <2>5, OneCall
<1>7. ASSUME NEW h \in Handles, AddFirst(h)
      PROVE  CallsLegal'
  <2>1. /\ handle'[h].valid = handle[h].valid /\ handle'[h].mode = handle[h].mode
        /\ call' = call /\ call[h].op = "write"
    BY <1>7, AddFirstEffect DEF AddFirst, Opened
  <2>2. \A g \in Handles \ {h} : handle'[g] = handle[g]
    BY <1>7 DEF AddFirst, TypeOK
  <2>3. LegalCall(handle'[h], call'[h])
    BY <2>1 DEF CallsLegal, LegalCall
  <2>4. QED
    BY <2>1, <2>2, <2>3, OneCall
<1>8. ASSUME NEW h \in Handles, AddCluster(h)
      PROVE  CallsLegal'
  BY <1>1, <1>8 DEF AddCluster
<1>9. ASSUME NEW h \in Handles, Fail(h) \/ fs_close(h)
      PROVE  CallsLegal'
  <2>1. call'[h].op = "none"
    BY <1>9 DEF Fail, fs_close, TypeOK
  <2>2. \A g \in Handles \ {h} : handle'[g] = handle[g] /\ call'[g] = call[g]
    BY <1>9 DEF Fail, fs_close, TypeOK
  <2>3. QED
    BY <2>1, <2>2, OneCall DEF LegalCall
<1>10. fs_unmount \/ fs_mount_fat32 \/ UNCHANGED vars => UNCHANGED <<handle, call>>
  BY DEF fs_unmount, fs_mount_fat32, vars
<1>11. QED
  BY <1>1, <1>2, <1>3, <1>4, <1>5, <1>6, <1>7, <1>8, <1>9, <1>10 DEF Next

LEMMA InitReadersKeep == Init => ReadersKeep
  BY DEF Init, ReadersKeep, Closed

LEMMA NextReadersKeep == TInv /\ CallsLegal /\ ReadersKeep /\ [Next]_vars => ReadersKeep'
<1> SUFFICES ASSUME TInv, CallsLegal, ReadersKeep, [Next]_vars PROVE ReadersKeep'
  OBVIOUS
<1> USE DEF TInv
<1>1. CASE UNCHANGED <<handle, opened>>
  BY <1>1 DEF ReadersKeep
<1>2. ASSUME NEW h \in Handles, NEW f \in Files, NEW m \in Modes, fs_open(h, f, m)
      PROVE  ReadersKeep'
  <2>1. /\ handle'[h].first = entry[f].first /\ opened'[h] = entry[f]
        /\ \A g \in Handles \ {h} : handle'[g] = handle[g] /\ opened'[g] = opened[g]
    BY <1>2 DEF fs_open, TypeOK
  <2>2. QED
    BY <2>1 DEF ReadersKeep
<1>3. ASSUME NEW h \in Handles,
             (\E p \in Positions : fs_seek(h, p)) \/ ReadPass(h) \/ WritePass(h)
      PROVE  ReadersKeep'
  <2>1. opened' = opened
    BY <1>3 DEF fs_seek, ReadPass, WritePass
  <2>2. /\ handle'[h].valid = handle[h].valid /\ handle'[h].mode = handle[h].mode
        /\ handle'[h].first = handle[h].first
        /\ \A g \in Handles \ {h} : handle'[g] = handle[g]
    <3>1. CASE \E p \in Positions : fs_seek(h, p)
      <4>1. PICK p \in Positions : handle' = [handle EXCEPT ![h].pos = p] /\ handle[h].valid
        BY <3>1 DEF fs_seek
      <4>2. handle[h] \in Opened
        BY <4>1, OpenHandle
      <4>3. QED
        BY <4>1, <4>2 DEF Opened, TypeOK
    <3>2. CASE ReadPass(h)
      <4>1. \A g \in Handles \ {h} : handle'[g] = handle[g]
        BY <3>2 DEF ReadPass, TypeOK
      <4>2. /\ handle[h].valid /\ handle'[h].valid
            /\ handle'[h].mode = handle[h].mode /\ handle'[h].first = handle[h].first
        BY <3>2, ReadEffect
      <4>3. QED
        BY <4>1, <4>2
    <3>3. CASE WritePass(h)
      <4>1. \A g \in Handles \ {h} : handle'[g] = handle[g]
        BY <3>3 DEF WritePass, TypeOK
      <4>2. /\ handle[h].valid /\ handle'[h].valid
            /\ handle'[h].mode = handle[h].mode /\ handle'[h].first = handle[h].first
        BY <3>3, WriteEffect
      <4>3. QED
        BY <4>1, <4>2
    <3>4. QED
      BY <1>3, <3>1, <3>2, <3>3
  <2>3. QED
    BY <2>1, <2>2 DEF ReadersKeep
<1>4. ASSUME NEW h \in Handles, AddFirst(h)
      PROVE  ReadersKeep'
  <2>1. opened' = opened /\ \A g \in Handles \ {h} : handle'[g] = handle[g]
    BY <1>4 DEF AddFirst, TypeOK
  <2>2. "write" \in handle'[h].mode
    BY <1>4, AddFirstEffect DEF CallsLegal, LegalCall, Opened
  <2>3. QED
    BY <2>1, <2>2 DEF ReadersKeep
<1>5. ASSUME NEW h \in Handles, fs_close(h)
      PROVE  ReadersKeep'
  <2>1. /\ ~handle'[h].valid
        /\ \A g \in Handles \ {h} : handle'[g] = handle[g] /\ opened'[g] = opened[g]
    BY <1>5 DEF fs_close, TypeOK, Closed
  <2>2. QED
    BY <2>1 DEF ReadersKeep
<1>6. ASSUME NEW h \in Handles
      PROVE  /\ AddCluster(h) \/ Fail(h) => UNCHANGED <<handle, opened>>
             /\ \A n \in Lengths : fs_read(h, n) \/ fs_write(h, n) => UNCHANGED <<handle, opened>>
  BY DEF AddCluster, Fail, fs_read, fs_write
<1>7. fs_unmount \/ fs_mount_fat32 \/ UNCHANGED vars => UNCHANGED <<handle, opened>>
  BY DEF fs_unmount, fs_mount_fat32, vars
<1>8. QED
  BY <1>1, <1>2, <1>3, <1>4, <1>5, <1>6, <1>7 DEF Next

-----------------------------------------------------------------------------
\* No step takes a link away.
LEMMA LinksStay ==
  ASSUME TInv, [Next]_vars
  PROVE  Grows(fat, fat')
<1>1. fat \in FATs /\ fat' \in FATs
  <2>1. TInv'
    BY NextTInv
  <2>2. QED
    BY <2>1 DEF TInv, TypeOK, FATs
<1>2. CASE fat' = fat
  BY <1>1, <1>2 DEF Grows
<1>3. ASSUME NEW h \in Handles, AddFirst(h)
      PROVE  Grows(fat, fat')
  BY <1>1, <1>3, AddFirstEffect, Numbers DEF Grows, FATs
<1>4. ASSUME NEW h \in Handles, AddCluster(h)
      PROVE  Grows(fat, fat')
  <2>1. FirstFree \in Clusters /\ fat[FirstFree] = FREE
    BY <1>4, FirstFreeIsFree DEF AddCluster
  <2>2. PICK t \in Clusters :
          fat[t] = EOC /\ fat' = [fat EXCEPT ![FirstFree] = EOC, ![t] = FirstFree]
    BY <1>4 DEF AddCluster
  <2>3. QED
    BY <1>1, <2>1, <2>2, Numbers DEF Grows, FATs
<1>5. QED
  BY <1>2, <1>3, <1>4
     DEF Next, vars, fs_unmount, fs_mount_fat32, fs_open, fs_seek, fs_read, fs_write,
         ReadPass, WritePass, Fail, fs_close

\* A first cluster begins a chain, in a FAT that is sound.
LEMMA HeadBegins ==
  ASSUME TypeOK, ChainsSound
  PROVE  /\ SoundFAT(fat)
         /\ \A f \in Files : \A c \in Heads(f) : Begins(fat, c) /\ c \in Places
<1>1. SoundFAT(fat)
  BY DEF TypeOK, ChainsSound, SoundFAT, FATs
<1>2. \A f \in Files : \A c \in Heads(f) : c \in Clusters
  BY HeadIsCluster
<1>3. QED
  BY <1>1, <1>2 DEF ChainsSound, Begins, Places

LEMMA HandleBegins ==
  ASSUME TypeOK, ChainsSound, NEW h \in Handles, handle[h].valid, handle[h].first # NONE
  PROVE  SoundFAT(fat) /\ Begins(fat, handle[h].first)
<1>1. handle[h].file \in Files
  BY OpenHandle
<1>2. handle[h].first \in Heads(handle[h].file)
  BY <1>1, HeadsAre
<1>3. QED
  BY <1>1, <1>2, HeadBegins

-----------------------------------------------------------------------------
\* A chain that begins with c has room for s bytes.
Room(F, c, s) == s > 0 => c # NONE /\ s <= Cluster * Length(F, c)

LEMMA RoomStays ==
  ASSUME NEW F, NEW G, Grows(F, G), NEW c \in Clusters \cup {NONE}, NEW s \in Nat,
         Room(F, c, s)
  PROVE  Room(G, c, s)
<1>1. PICK m \in Nat, n \in Nat : m = Length(F, c) /\ n = Length(G, c) /\ m <= n
  BY ChainGrows DEF Places
<1>2. PICK k \in Nat : k = Cluster
  BY Numbers
<1>3. k * m <= k * n /\ k * m \in Nat /\ k * n \in Nat
  BY <1>1, Z3
<1>4. s > 0 => c # NONE /\ s <= k * m
  BY <1>1, <1>2 DEF Room
<1>5. s > 0 => c # NONE /\ s <= k * n
  BY <1>3, <1>4
<1>6. QED
  BY <1>1, <1>2, <1>5 DEF Room

(* Covered, said of entries and handles one by one; of this state and of    *)
(* the next one.                                                            *)
LEMMA CoveredIs ==
  Covered <=>
    /\ \A f \in Files : Room(fat, entry[f].first, entry[f].size)
    /\ \A h \in Handles : handle[h].valid /\ handle[h].file \in Files =>
         Room(fat, handle[h].first, handle[h].size)
  BY DEF Covered, Names, Covers, Room, Length

LEMMA CoveredWillBe ==
  Covered' <=>
    /\ \A f \in Files : Room(fat', entry'[f].first, entry'[f].size)
    /\ \A h \in Handles : handle'[h].valid /\ handle'[h].file \in Files =>
         Room(fat', handle'[h].first, handle'[h].size)
  BY DEF Covered, Names, Covers, Room, Length

LEMMA InitCovered == Init => Covered
<1> SUFFICES ASSUME Init PROVE Covered
  OBVIOUS
<1>1. PICK v \in Volumes : fat = v.fat /\ entry = v.entry
  BY DEF Init
<1>2. SoundVolume(v)
  BY FileSystemAssumption
<1>3. \A f \in Files : Covers(fat, entry[f])
  BY <1>1, <1>2 DEF SoundVolume
<1>4. \A f \in Files : Names(f) = {entry[f]}
  BY DEF Names, Init, Closed
<1>5. QED
  BY <1>3, <1>4 DEF Covered

\* A pass ends within the chain.
LEMMA EndFits ==
  ASSUME TInv, ChainsSound, NEW h \in Handles, call[h].op # "none", Reached(h)
  PROVE  /\ handle[h].pos \in Nat /\ Part(h) \in Nat
         /\ Index(h) \in Nat /\ Index(h) < Length(fat, handle[h].first)
         /\ handle[h].pos + Part(h) <= Cluster * Length(fat, handle[h].first)
<1> USE DEF TInv
<1>1. handle[h].valid /\ handle[h].pos \in Nat
  BY ReachedOpen, OpenHandle
<1>2. PICK k \in Nat : k = Cluster /\ k > 0
  BY Numbers
<1>3. PICK p \in Nat, i \in Nat, b \in Nat :
        p = handle[h].pos /\ i = Index(h) /\ b = p % k /\ p = k * i + b
  <2>1. PICK p \in Nat : p = handle[h].pos
    BY <1>1
  <2>2. p \div k \in Nat /\ p % k \in Nat /\ p = k * (p \div k) + (p % k)
    BY <1>2, Division
  <2>3. Index(h) = p \div k
    BY <1>2, <2>1 DEF Index
  <2>4. QED
    BY <2>1, <2>2, <2>3
<1>4. PICK n \in Nat : n = Part(h) /\ b + n <= k
  BY <1>2, <1>3, PartFits
<1>5. SoundFAT(fat) /\ Begins(fat, handle[h].first)
  BY <1>1, HandleBegins DEF Reached
<1>6. PICK l \in Nat : l = Length(fat, handle[h].first)
  BY <1>5, ChainLength, Numbers
<1>7. i < l
  <2>1. i \in 0..LastCluster /\ WalkIn(fat, handle[h].first)[i] \in Clusters
    BY <1>3, Numbers DEF Reached, At, Walk
  <2>2. QED
    BY <1>5, <1>6, <2>1, ChainLength
<1>8. p + n <= k * l
  <2>1. k * (i + 1) <= k * l
    BY <1>7, Z3
  <2>2. k * (i + 1) = k * i + k
    BY Z3
  <2>3. k * l \in Nat /\ k * i \in Nat
    BY Z3
  <2>4. QED
    BY <1>3, <1>4, <2>1, <2>2, <2>3
<1>9. QED
  BY <1>2, <1>3, <1>4, <1>6, <1>7, <1>8

\* What every handle and entry had room for it still has.
LEMMA NextCovered ==
  TInv /\ ChainsSound /\ Covered /\ [Next]_vars => Covered'
<1> SUFFICES ASSUME TInv, ChainsSound, Covered, [Next]_vars PROVE Covered'
  OBVIOUS
<1>1. /\ TypeOK /\ TypeOK' /\ Grows(fat, fat')
  BY NextTInv, LinksStay DEF TInv
<1>2. /\ \A f \in Files : Room(fat, entry[f].first, entry[f].size)
      /\ \A h \in Handles : handle[h].valid => Room(fat, handle[h].first, handle[h].size)
  BY <1>1, CoveredIs, OpenHandle
<1>3. \A c \in Clusters \cup {NONE}, s \in Nat : Room(fat, c, s) => Room(fat', c, s)
  BY <1>1, RoomStays
<1>4. ASSUME NEW f \in Files
      PROVE  Room(fat', entry[f].first, entry[f].size)
  BY <1>1, <1>2, <1>3 DEF TypeOK, Entries
<1>5. ASSUME NEW h \in Handles, handle[h].valid
      PROVE  Room(fat', handle[h].first, handle[h].size)
  BY <1>1, <1>2, <1>3, <1>5, OpenHandle
\* It is enough to look at what has changed.
<1>6. ASSUME \A f \in Files : entry'[f] # entry[f] =>
               Room(fat', entry'[f].first, entry'[f].size),
             \A h \in Handles : handle'[h].valid /\ handle'[h] # handle[h] =>
               Room(fat', handle'[h].first, handle'[h].size)
      PROVE  Covered'
  <2>1. \A f \in Files : Room(fat', entry'[f].first, entry'[f].size)
    BY <1>4, <1>6
  <2>2. \A h \in Handles : handle'[h].valid => Room(fat', handle'[h].first, handle'[h].size)
    BY <1>5, <1>6
  <2>3. QED
    BY <2>1, <2>2, CoveredWillBe
<1>7. ASSUME NEW f \in Files, entry'[f] # entry[f]
      PROVE  Room(fat', entry'[f].first, entry'[f].size)
  <2>1. PICK h \in Handles :
          /\ handle[h].valid
          /\ entry'[f] = [first |-> handle[h].first, size |-> handle[h].size]
    BY <1>7, EntryChanges
  <2>2. QED
    BY <1>5, <2>1
<1>8. ASSUME NEW h \in Handles, handle'[h].valid, handle'[h] # handle[h]
      PROVE  Room(fat', handle'[h].first, handle'[h].size)
  <2>1. CASE \E f \in Files, m \in Modes : fs_open(h, f, m)
    <3>1. PICK f \in Files : /\ handle'[h].first = entry[f].first
                             /\ handle'[h].size = entry[f].size
      BY <1>1, <2>1 DEF fs_open, TypeOK
    <3>2. QED
      BY <1>4, <3>1
  <2>2. CASE \E p \in Positions : fs_seek(h, p)
    <3>1. PICK p \in Positions : handle' = [handle EXCEPT ![h].pos = p] /\ handle[h].valid
      BY <2>2 DEF fs_seek
    <3>2. handle[h] \in Opened
      BY <1>1, <3>1, OpenHandle
    <3>3. handle'[h].first = handle[h].first /\ handle'[h].size = handle[h].size
      BY <1>1, <3>1, <3>2 DEF Opened, TypeOK
    <3>4. QED
      BY <1>5, <3>1, <3>3
  <2>3. CASE ReadPass(h)
    <3>1. /\ handle[h].valid /\ handle'[h].first = handle[h].first
          /\ handle'[h].size = handle[h].size
      BY <2>3, ReadEffect
    <3>2. QED
      BY <1>5, <3>1
  <2>4. CASE WritePass(h)
    <3>1. /\ handle[h].valid /\ handle'[h].first = handle[h].first
          /\ handle'[h].size = IF handle[h].pos + Part(h) > handle[h].size
                               THEN handle[h].pos + Part(h) ELSE handle[h].size
      BY <2>4, WriteEffect
    <3>2. PICK e \in Nat : e = handle[h].pos + Part(h)
      BY <2>4, EndFits DEF WritePass
    <3>3. handle[h].first \in Clusters \cup {NONE}
      BY <1>1, <3>1, OpenHandle
    <3>4. Room(fat, handle[h].first, e)
      BY <2>4, <3>2, EndFits DEF WritePass, Room, Reached
    <3>5. Room(fat', handle[h].first, e)
      BY <1>3, <3>3, <3>4
    <3>6. QED
      BY <1>5, <3>1, <3>2, <3>5
  <2>5. CASE AddFirst(h)
    <3>1. /\ handle[h].valid /\ handle[h].first = NONE
          /\ handle'[h].size = handle[h].size
      BY <2>5, AddFirstEffect
    <3>2. ~(handle'[h].size > 0)
      BY <1>2, <3>1 DEF Room
    <3>3. QED
      BY <3>2 DEF Room
  <2>6. ~fs_close(h)
    BY <1>1, <1>8 DEF fs_close, TypeOK, Closed
  <2>7. ASSUME NEW g \in Handles \ {h},
               \/ \E f \in Files, m \in Modes : fs_open(g, f, m)
               \/ \E p \in Positions : fs_seek(g, p)
               \/ ReadPass(g) \/ WritePass(g) \/ AddFirst(g) \/ fs_close(g)
        PROVE  FALSE
    BY <1>1, <1>8, <2>7 DEF fs_open, fs_seek, ReadPass, WritePass, AddFirst, fs_close, TypeOK
  <2>8. handle' # handle
    BY <1>8
  <2>9. ASSUME NEW g \in Handles
        PROVE  /\ AddCluster(g) \/ Fail(g) => handle' = handle
               /\ \A n \in Lengths : fs_read(g, n) \/ fs_write(g, n) => handle' = handle
    BY DEF AddCluster, Fail, fs_read, fs_write
  <2>10. fs_unmount \/ fs_mount_fat32 \/ UNCHANGED vars => handle' = handle
    BY DEF fs_unmount, fs_mount_fat32, vars
  <2>11. PICK g \in Handles :
           \/ \E f \in Files, m \in Modes : fs_open(g, f, m)
           \/ \E p \in Positions : fs_seek(g, p)
           \/ ReadPass(g) \/ WritePass(g) \/ AddFirst(g) \/ fs_close(g)
    BY <2>8, <2>9, <2>10 DEF Next
  <2>12. g = h
    BY <2>7, <2>11
  <2>13. QED
    BY <2>1, <2>2, <2>3, <2>4, <2>5, <2>6, <2>11, <2>12
<1>9. QED
  BY <1>6, <1>7, <1>8

(* On every volume: the size in an entry or a handle is covered by the      *)
(* chain it leads to, after failed and interleaved calls as well.           *)
THEOREM SizesCovered == Spec => []Covered
  BY InitTInv, NextTInv, InitChainsSound, NextChainsSound, InitCovered, NextCovered, PTL
     DEF Spec

-----------------------------------------------------------------------------
\* What is in use, said without unions; of this state and of the next one.
LEMMA InUseIs ==
  ASSUME NEW x
  PROVE  x \in InUse <=> \E f \in Files : \E c \in Heads(f) : x \in ChainIn(fat, c)
  BY DEF InUse, Chain

LEMMA InUseWillBe ==
  ASSUME NEW x
  PROVE  x \in InUse' <=> \E f \in Files : \E c \in Heads(f)' : x \in ChainIn(fat', c)
  BY DEF InUse, Chain

\* Who changes a first cluster, or lets go of one.
LEMMA HandleLost ==
  ASSUME TInv, [Next]_vars, NEW h \in Handles, handle[h].valid, ~handle'[h].valid
  PROVE  fs_close(h)
<1> USE DEF TInv
<1>1. handle' # handle
  OBVIOUS
<1>2. ASSUME NEW g \in Handles
      PROVE  /\ AddCluster(g) \/ Fail(g) => handle' = handle
             /\ \A n \in Lengths : fs_read(g, n) \/ fs_write(g, n) => handle' = handle
             /\ ReadPass(g) \/ WritePass(g) \/ AddFirst(g) => handle'[h].valid
  <2>1. ASSUME ReadPass(g) PROVE handle'[h].valid
    BY <2>1, ReadEffect DEF ReadPass, TypeOK
  <2>2. ASSUME WritePass(g) PROVE handle'[h].valid
    BY <2>2, WriteEffect DEF WritePass, TypeOK
  <2>3. ASSUME AddFirst(g) PROVE handle'[h].valid
    BY <2>3, AddFirstEffect DEF AddFirst, TypeOK
  <2>4. QED
    BY <2>1, <2>2, <2>3 DEF AddCluster, Fail, fs_read, fs_write
<1>3. ASSUME NEW g \in Handles, NEW f \in Files, NEW m \in Modes, fs_open(g, f, m)
      PROVE  handle'[h].valid
  BY <1>3 DEF fs_open, TypeOK
<1>4. ASSUME NEW g \in Handles, NEW p \in Positions, fs_seek(g, p)
      PROVE  handle'[h].valid
  BY <1>4, OpenHandle DEF fs_seek, TypeOK, Opened
<1>5. ASSUME NEW g \in Handles, fs_close(g)
      PROVE  g = h
  BY <1>5 DEF fs_close, TypeOK
<1>6. fs_unmount \/ fs_mount_fat32 \/ UNCHANGED vars => handle' = handle
  BY DEF fs_unmount, fs_mount_fat32, vars
<1>7. QED
  BY <1>1, <1>2, <1>3, <1>4, <1>5, <1>6 DEF Next

(* On every volume, with any number of handles: a cluster that was in use   *)
(* is lost only with a handle that its caller drops, or closes after        *)
(* somebody else's close.                                                   *)
THEOREM DroppedAloneLeak == Spec => OnlyDroppedLeak
<1> DEFINE Leaks ==
      \A c \in InUse \ InUse' :
        \E h \in Handles :
          /\ handle[h].valid /\ handle'[h] # handle[h]
          /\ IF handle'[h].valid
             THEN c \in Chain(handle[h].first)
                    /\ handle[h].first # entry[handle[h].file].first
             ELSE Overlapped(h)
<1>1. ASSUME TInv, HandleKeeps, CallsLegal, ReadersKeep, [Next]_vars
      PROVE  Leaks
  <2> USE <1>1
  <2>1. SUFFICES ASSUME NEW x \in InUse \ InUse'
                 PROVE  \E h \in Handles :
                          /\ handle[h].valid /\ handle'[h] # handle[h]
                          /\ IF handle'[h].valid
                             THEN x \in Chain(handle[h].first)
                                    /\ handle[h].first # entry[handle[h].file].first
                             ELSE Overlapped(h)
    OBVIOUS
  <2>2. TypeOK /\ Grows(fat, fat')
    BY LinksStay DEF TInv
  <2>3. PICK f \in Files, c \in Clusters : c \in Heads(f) /\ x \in ChainIn(fat, c)
    BY <2>1, <2>2, InUseIs, HeadIsCluster
  <2>4. x \in ChainIn(fat', c)
    BY <2>2, <2>3, ChainGrows DEF Places
  <2>5. c \in Clusters /\ c # NONE
    BY Numbers
  <2>6. c \notin Heads(f)'
    BY <2>1, <2>4, InUseWillBe
  <2>7. /\ c # NONE /\ c # entry'[f].first
        /\ \A h \in Handles : ~(handle'[h].valid /\ handle'[h].file = f /\ handle'[h].first = c)
    BY <2>5, <2>6, HeadsWillBe
  <2>8. CASE c = entry[f].first
    <3>1. PICK h \in Handles :
            /\ handle[h].valid /\ ~handle'[h].valid /\ handle[h].file = f
            /\ entry'[f] = [first |-> handle[h].first, size |-> handle[h].size]
      BY <2>7, <2>8, EntryChanges
    <3>2. opened[h] # entry[f]
      <4>1. SUFFICES ASSUME opened[h] = entry[f] PROVE FALSE
        OBVIOUS
      <4>2. handle[h].first = entry[f].first
        BY <2>7, <2>8, <3>1, <4>1 DEF HandleKeeps
      <4>3. QED
        BY <2>7, <2>8, <3>1, <4>2
    <3>3. QED
      BY <3>1, <3>2 DEF Overlapped
  <2>9. CASE c # entry[f].first
    <3>1. PICK h \in Handles : handle[h].valid /\ handle[h].file = f /\ handle[h].first = c
      BY <2>3, <2>9, HeadsAre
    <3>2. handle'[h] # handle[h]
      BY <2>7, <3>1
    <3>3. CASE handle'[h].valid
      BY <2>3, <2>9, <3>1, <3>2, <3>3 DEF Chain
    <3>4. CASE ~handle'[h].valid
      <4>1. fs_close(h)
        BY <3>1, <3>4, HandleLost
      <4>2. "write" \notin handle[h].mode
        <5>1. SUFFICES ASSUME "write" \in handle[h].mode PROVE FALSE
          OBVIOUS
        <5>2. entry'[f].first = c
          BY <2>2, <3>1, <4>1, <5>1 DEF fs_close, TypeOK
        <5>3. QED
          BY <2>7, <5>2
      <4>3. opened[h].first = c
        BY <3>1, <4>2 DEF ReadersKeep
      <4>4. Overlapped(h)
        BY <2>9, <3>1, <4>3 DEF Overlapped
      <4>5. QED
        BY <3>1, <3>2, <3>4, <4>4
    <3>5. QED
      BY <3>3, <3>4
  <2>10. QED
    BY <2>8, <2>9
<1>2. TInv /\ HandleKeeps /\ CallsLegal /\ ReadersKeep /\ [Next]_vars
        => [Leaks]_<<fat, AllHeads>>
  BY <1>1
<1>3. QED
  BY <1>2, InitTInv, NextTInv, InitHandleKeeps, NextHandleKeeps, InitCallsLegal, NextCallsLegal,
     InitReadersKeep, NextReadersKeep, PTL DEF Spec, OnlyDroppedLeak

-----------------------------------------------------------------------------
(* The bytes of the chain that begins with c, with the FAT F and the        *)
(* clusters' bytes D, and with them what FileStore calls bodies.            *)
Datas == [Clusters -> [1..Cluster -> Bytes]]

TextOf(F, D, c) ==
  [i \in 1..(Cluster * Length(F, c)) |->
     D[WalkIn(F, c)[(i - 1) \div Cluster]][((i - 1) % Cluster) + 1]]

BodyOf(F, D) == [c \in Clusters |-> IF Begins(F, c) THEN TextOf(F, D, c) ELSE <<>>]

LEMMA TextIs ==
  Text = BodyOf(fat, data) /\ Text' = BodyOf(fat', data')
<1>1. \A c \in Clusters : First(c) <=> Begins(fat, c)
  BY DEF First, Begins
<1>2. \A c \in Clusters : First(c)' <=> Begins(fat', c)
  BY DEF First, Begins
<1>3. \A c \in Clusters : Contents(c) = TextOf(fat, data, c)
  BY DEF Contents, TextOf, Walk, Chain, Length
<1>4. \A c \in Clusters : Contents(c)' = TextOf(fat', data', c)
  BY DEF Contents, TextOf, Walk, Chain, Length
<1>5. Text = BodyOf(fat, data)
  BY <1>1, <1>3 DEF Text, BodyOf
<1>6. Text' = BodyOf(fat', data')
  BY <1>2, <1>4 DEF Text, BodyOf
<1>7. QED
  BY <1>5, <1>6

\* Where the i-th byte of k clusters is.
LEMMA PlaceOf ==
  ASSUME NEW k \in Nat, NEW i \in 1..(Cluster * k)
  PROVE  /\ (i - 1) \div Cluster \in 0..(k - 1)
         /\ (i - 1) % Cluster \in 0..(Cluster - 1)
         /\ i - 1 = Cluster * ((i - 1) \div Cluster) + ((i - 1) % Cluster)
<1>1. PICK e \in Nat \ {0} : e = Cluster
  BY Numbers
<1>2. e * k \in Nat /\ e * k = k * e
  BY Z3
<1>3. PICK n \in Nat : n = i - 1 /\ n < k * e
  BY <1>1, <1>2
<1>4. n \div e < k
  BY <1>3, Below
<1>5. n \div e \in Nat /\ n % e \in 0..(e - 1) /\ n = e * (n \div e) + (n % e)
  BY Division
<1>6. QED
  BY <1>1, <1>3, <1>4, <1>5

\* A place is known by its cluster and where in it it is.
LEMMA PlaceIs ==
  ASSUME NEW e \in Nat \ {0}, NEW j \in Nat, NEW m \in 0..(e - 1), NEW n \in Nat,
         n = e * j + m
  PROVE  n \div e = j /\ n % e = m
<1>1. j * e <= n /\ n < (j + 1) * e /\ n = j * e + m
  <2>1. e * j = j * e /\ (j + 1) * e = j * e + e /\ j * e \in Nat
    BY Z3
  <2>2. QED
    BY <2>1
<1>2. n % e = m
  BY <1>1, Remainder
<1>3. j <= n \div e /\ n \div e < j + 1
  BY <1>1, Above, Below
<1>4. n \div e \in Nat
  BY Division
<1>5. QED
  BY <1>2, <1>3, <1>4

LEMMA TextShape ==
  ASSUME NEW F, SoundFAT(F), NEW c, Begins(F, c), NEW D \in Datas
  PROVE  /\ Cluster * Length(F, c) \in Nat
         /\ TextOf(F, D, c) \in [1..(Cluster * Length(F, c)) -> Bytes]
         /\ TextOf(F, D, c) \in Seq(Bytes)
         /\ Len(TextOf(F, D, c)) = Cluster * Length(F, c)
<1>1. PICK k \in Nat : /\ k = Length(F, c)
                       /\ \A i \in 0..LastCluster : i < k => WalkIn(F, c)[i] \in Clusters
                       /\ k <= LastCluster
  BY ChainLength, Numbers
<1>2. PICK n \in Nat : n = Cluster * k
  <2>1. PICK e \in Nat : e = Cluster
    BY Numbers
  <2>2. e * k \in Nat
    BY Z3
  <2>3. QED
    BY <2>1, <2>2
<1>3. ASSUME NEW i \in 1..n
      PROVE  D[WalkIn(F, c)[(i - 1) \div Cluster]][((i - 1) % Cluster) + 1] \in Bytes
  <2>1. /\ (i - 1) \div Cluster \in 0..(k - 1)
        /\ (i - 1) % Cluster \in 0..(Cluster - 1)
    BY <1>2, PlaceOf
  <2>2. WalkIn(F, c)[(i - 1) \div Cluster] \in Clusters
    <3>1. PICK j \in 0..(k - 1) : j = (i - 1) \div Cluster
      BY <2>1
    <3>2. j \in 0..LastCluster /\ j < k
      BY <1>1, Numbers
    <3>3. QED
      BY <1>1, <3>1, <3>2
  <2>3. ((i - 1) % Cluster) + 1 \in 1..Cluster
    BY <2>1, Numbers
  <2>4. QED
    BY <2>2, <2>3 DEF Datas
<1>4. PICK t : t = TextOf(F, D, c)
  OBVIOUS
<1>5. t = [i \in 1..n |-> D[WalkIn(F, c)[(i - 1) \div Cluster]][((i - 1) % Cluster) + 1]]
  BY <1>1, <1>2, <1>4 DEF TextOf
<1>6. t \in [1..n -> Bytes]
  BY <1>3, <1>5
<1>7. t \in Seq(Bytes) /\ Len(t) = n
  BY <1>6
<1>8. QED
  BY <1>1, <1>2, <1>4, <1>6, <1>7

(* E is D with n bytes written in the j-th cluster of the chain that begins *)
(* with c, from the byte after b on.                                        *)
Overwrites(F, D, E, c, j, b, n, v) ==
  /\ SoundFAT(F) /\ Begins(F, c) /\ D \in Datas /\ E \in Datas
  /\ j \in 0..LastCluster /\ WalkIn(F, c)[j] \in Clusters
  /\ b \in Nat /\ n \in Nat /\ b + n <= Cluster
  /\ E = [D EXCEPT ![WalkIn(F, c)[j]] =
            [m \in 1..Cluster |-> IF m \in {b + q : q \in 1..n} THEN v
                                  ELSE D[WalkIn(F, c)[j]][m]]]

\* A byte of the chain changes if and only if it is one of those.
LEMMA OneByte ==
  ASSUME NEW F, NEW D, NEW E, NEW c, NEW j, NEW b, NEW n, NEW v,
         Overwrites(F, D, E, c, j, b, n, v),
         NEW i \in 1..(Cluster * Length(F, c))
  PROVE  TextOf(F, E, c)[i] =
           IF i \in (Cluster * j + b + 1)..(Cluster * j + b + n) THEN v
           ELSE TextOf(F, D, c)[i]
<1> USE DEF Overwrites
<1>1. PICK e \in Nat \ {0} : e = Cluster
  BY Numbers
<1>2. PICK k \in Nat : /\ k = Length(F, c) /\ k <= LastCluster
                       /\ \A q \in 0..LastCluster : WalkIn(F, c)[q] \in Clusters <=> q < k
  BY ChainLength, Numbers
<1>3. PICK J \in 0..(k - 1), m \in 0..(e - 1) :
        /\ J = (i - 1) \div Cluster /\ m = (i - 1) % Cluster /\ i - 1 = e * J + m
  BY <1>1, <1>2, PlaceOf
<1>4. /\ TextOf(F, E, c)[i] = E[WalkIn(F, c)[J]][m + 1]
      /\ TextOf(F, D, c)[i] = D[WalkIn(F, c)[J]][m + 1]
  BY <1>3 DEF TextOf
<1>5. J \in 0..LastCluster /\ J \in Nat /\ j \in Nat /\ WalkIn(F, c)[J] \in Clusters
  BY <1>2, Numbers
<1>6. m + 1 \in 1..Cluster /\ m \in Nat
  BY <1>1
<1>7. b \in Nat /\ n \in Nat /\ e * j \in Nat /\ e * J \in Nat /\ i \in Nat
  BY <1>1, <1>5, Z3
<1>8. CASE J = j
  <2>1. E[WalkIn(F, c)[j]] = [q \in 1..Cluster |-> IF q \in {b + r : r \in 1..n} THEN v
                                                   ELSE D[WalkIn(F, c)[j]][q]]
    BY DEF Datas
  <2>2. E[WalkIn(F, c)[j]][m + 1] = IF m + 1 \in {b + r : r \in 1..n} THEN v
                                    ELSE D[WalkIn(F, c)[j]][m + 1]
    BY <1>6, <2>1
  <2>3. m + 1 \in {b + r : r \in 1..n} <=> m + 1 >= b + 1 /\ m + 1 <= b + n
    <3>1. ASSUME m + 1 >= b + 1, m + 1 <= b + n
          PROVE  m + 1 \in {b + r : r \in 1..n}
      <4>1. (m + 1) - b \in 1..n /\ b + ((m + 1) - b) = m + 1
        BY <1>6, <1>7, <3>1
      <4>2. QED
        BY <4>1
    <3>2. ASSUME m + 1 \in {b + r : r \in 1..n}
          PROVE  m + 1 >= b + 1 /\ m + 1 <= b + n
      <4>1. PICK r \in 1..n : m + 1 = b + r
        BY <3>2
      <4>2. QED
        BY <1>7, <4>1
    <3>3. QED
      BY <3>1, <3>2
  <2>4. i = e * j + m + 1
    BY <1>3, <1>6, <1>7, <1>8
  <2>5. PICK z \in Nat : z = e * j
    BY <1>7
  <2>6. i \in (z + b + 1)..(z + b + n) <=> m + 1 >= b + 1 /\ m + 1 <= b + n
    BY <1>6, <1>7, <2>4, <2>5
  <2>7. QED
    BY <1>1, <1>4, <1>8, <2>2, <2>3, <2>5, <2>6
<1>9. CASE J # j
  <2>1. WalkIn(F, c)[J] # WalkIn(F, c)[j]
    BY <1>5, <1>9, WalksApart
  <2>2. E[WalkIn(F, c)[J]] = D[WalkIn(F, c)[J]]
    BY <1>5, <2>1 DEF Datas
  <2>3. i \notin (Cluster * j + b + 1)..(Cluster * j + b + n)
    <3>1. SUFFICES ASSUME i \in (Cluster * j + b + 1)..(Cluster * j + b + n) PROVE FALSE
      OBVIOUS
    <3>2. PICK z \in Nat : z = e * j
      BY <1>7
    <3>3. PICK x \in Nat : x = i - 1
      OBVIOUS
    <3>4. PICK y \in 0..(e - 1) : y = x - z
      BY <1>1, <1>7, <3>1, <3>2, <3>3
    <3>5. x = e * j + y
      BY <1>7, <3>2, <3>3, <3>4
    <3>6. x \div e = j
      BY ONLY <3>5, PlaceIs, e \in Nat \ {0}, j \in Nat, y \in 0..(e - 1), x \in Nat
    <3>7. QED
      BY <1>1, <1>3, <1>9, <3>3, <3>6
  <2>4. QED
    BY <1>4, <2>2, <2>3
<1>10. QED
  BY <1>8, <1>9

\* The bytes of other chains do not change.
LEMMA OtherText ==
  ASSUME NEW F, NEW D, NEW E, NEW c, NEW j, NEW b, NEW n, NEW v,
         Overwrites(F, D, E, c, j, b, n, v),
         NEW d, Begins(F, d), d # c
  PROVE  TextOf(F, E, d) = TextOf(F, D, d)
<1> USE DEF Overwrites
<1>1. PICK k \in Nat : /\ k = Length(F, d) /\ k <= LastCluster
                       /\ \A q \in 0..LastCluster : WalkIn(F, d)[q] \in Clusters <=> q < k
  BY ChainLength, Numbers
<1>2. ASSUME NEW i \in 1..(Cluster * k)
      PROVE  E[WalkIn(F, d)[(i - 1) \div Cluster]] = D[WalkIn(F, d)[(i - 1) \div Cluster]]
  <2>1. PICK J \in 0..(k - 1) : J = (i - 1) \div Cluster
    BY PlaceOf
  <2>2. J \in 0..LastCluster /\ WalkIn(F, d)[J] \in Clusters
    BY <1>1, Numbers
  <2>3. WalkIn(F, d)[J] # WalkIn(F, c)[j]
    BY <2>2, WalksApart
  <2>4. E[WalkIn(F, d)[J]] = D[WalkIn(F, d)[J]]
    BY <2>2, <2>3 DEF Datas
  <2>5. QED
    BY <2>1, <2>4
<1>3. QED
  BY <1>1, <1>2 DEF TextOf

\* A chain of F that G does not lengthen.
LEMMA SameChain ==
  ASSUME NEW F, NEW G, Grows(F, G), SoundFAT(F), SoundFAT(G), NEW c, Begins(F, c), Begins(G, c),
         G[WalkIn(F, c)[Length(F, c) - 1]] = EOC
  PROVE  /\ Length(G, c) = Length(F, c)
         /\ \A D \in Datas : TextOf(G, D, c) = TextOf(F, D, c)
<1>1. PICK k \in Nat : /\ k = Length(F, c) /\ k > 0 /\ k <= LastCluster
                       /\ \A q \in 0..LastCluster : WalkIn(F, c)[q] \in Clusters <=> q < k
  BY ChainLength, Numbers
<1>2. PICK l \in Nat : /\ l = Length(G, c)
                       /\ \A q \in 0..LastCluster : WalkIn(G, c)[q] \in Clusters <=> q < l
  BY ChainLength, Numbers
<1>3. LastCluster \in Nat /\ c \in Places /\ F \in FATs /\ G \in FATs /\ EOC \notin Clusters
  BY Numbers DEF Begins, Places, SoundFAT
<1>4. \A q \in 0..LastCluster : q < k => WalkIn(G, c)[q] = WalkIn(F, c)[q]
  BY <1>1, <1>3, WalkKept
<1>5. k <= l
  BY <1>1, <1>2, <1>3, ChainGrows
<1>6. ~(k < l)
  <2>1. k \in 1..LastCluster /\ k - 1 \in 0..LastCluster /\ k - 1 < k
    BY <1>1, <1>3
  <2>2. WalkIn(G, c)[k] = Link(G, WalkIn(G, c)[k - 1])
    BY <1>3, <2>1, WalkIs
  <2>3. /\ WalkIn(G, c)[k - 1] = WalkIn(F, c)[k - 1] /\ WalkIn(F, c)[k - 1] \in Clusters
        /\ G[WalkIn(F, c)[k - 1]] = EOC
    BY <1>1, <1>4, <2>1
  <2>4. WalkIn(G, c)[k] = EOC
    BY <2>2, <2>3 DEF Link
  <2>5. k \in 0..LastCluster
    BY <1>1, <1>3
  <2>6. QED
    BY <1>2, <1>3, <2>4, <2>5
<1>7. l = k
  BY <1>5, <1>6
<1>8. ASSUME NEW D \in Datas, NEW i \in 1..(Cluster * k)
      PROVE  D[WalkIn(G, c)[(i - 1) \div Cluster]] = D[WalkIn(F, c)[(i - 1) \div Cluster]]
  <2>1. PICK J \in 0..(k - 1) : J = (i - 1) \div Cluster
    BY PlaceOf
  <2>2. J \in 0..LastCluster /\ J < k
    BY <1>1, <1>3
  <2>3. QED
    BY <1>4, <2>1, <2>2
<1>9. ASSUME NEW D \in Datas
      PROVE  TextOf(G, D, c) = TextOf(F, D, c)
  BY <1>1, <1>2, <1>7, <1>8 DEF TextOf
<1>10. QED
  BY <1>1, <1>2, <1>7, <1>9

\* G is F with the new chain of one cluster n.
NewFirst(F, G, n) ==
  /\ SoundFAT(F) /\ SoundFAT(G)
  /\ n \in Clusters /\ F[n] = FREE /\ G = [F EXCEPT ![n] = EOC]
  /\ \A d \in Clusters : G[d] # n

LEMMA NewFirstText ==
  ASSUME NEW F, NEW G, NEW n, NewFirst(F, G, n), NEW D \in Datas
  PROVE  /\ BodyOf(F, D)[n] = <<>>
         /\ BodyOf(G, D)[n] \in [1..Cluster -> Bytes]
         /\ \A c \in Clusters \ {n} : BodyOf(G, D)[c] = BodyOf(F, D)[c]
<1>0. /\ n \in Clusters /\ F[n] = FREE /\ G = [F EXCEPT ![n] = EOC]
      /\ \A d \in Clusters : G[d] # n
  BY DEF NewFirst
<1>1. /\ SoundFAT(F) /\ SoundFAT(G) /\ F \in FATs /\ G \in FATs /\ n \in Places /\ Begins(G, n) /\ Grows(F, G)
      /\ LastCluster \in Nat /\ LastCluster > 1 /\ EOC \notin Clusters /\ FREE # EOC
      /\ FREE \notin Clusters
  BY <1>0, Numbers DEF NewFirst, SoundFAT, FATs, Begins, Places, Grows, Clusters
<1>2. BodyOf(F, D)[n] = <<>>
  BY <1>0 DEF BodyOf, Begins
<1>3. Length(G, n) = 1
  <2>1. WalkIn(G, n)[0] = n /\ WalkIn(G, n)[1] = Link(G, WalkIn(G, n)[1 - 1])
    BY <1>1, WalkIs
  <2>2. WalkIn(G, n)[1] = EOC
    BY <1>0, <1>1, <2>1 DEF Link, FATs
  <2>3. /\ Length(G, n) \in 1..(LastCluster - 1)
        /\ WalkIn(G, n)[1] \in Clusters <=> 1 < Length(G, n)
    BY <1>1, ChainLength
  <2>4. QED
    BY <1>1, <2>2, <2>3
<1>4. BodyOf(G, D)[n] \in [1..Cluster -> Bytes]
  <2>1. TextOf(G, D, n) \in [1..(Cluster * 1) -> Bytes]
    BY <1>1, <1>3, TextShape
  <2>2. Cluster * 1 = Cluster
    BY Numbers
  <2>3. QED
    BY <1>0, <1>1, <2>1, <2>2 DEF BodyOf
<1>5. ASSUME NEW c \in Clusters \ {n}
      PROVE  BodyOf(G, D)[c] = BodyOf(F, D)[c]
  <2>1. Begins(G, c) <=> Begins(F, c)
    BY <1>0, <1>1 DEF Begins, FATs
  <2>2. CASE Begins(F, c)
    <3>1. PICK t : t = WalkIn(F, c)[Length(F, c) - 1]
      OBVIOUS
    <3>2. t \in Clusters /\ F[t] = EOC
      BY <1>1, <2>2, <3>1, ChainEnds
    <3>3. G[t] = EOC
      BY <1>0, <1>1, <3>2 DEF FATs
    <3>4. TextOf(G, D, c) = TextOf(F, D, c)
      BY <1>1, <2>1, <2>2, <3>1, <3>3, SameChain
    <3>5. QED
      BY <2>1, <2>2, <3>4 DEF BodyOf
  <2>3. CASE ~Begins(F, c)
    BY <2>1, <2>3 DEF BodyOf
  <2>4. QED
    BY <2>2, <2>3
<1>6. QED
  BY <1>2, <1>4, <1>5

\* G is F with the cluster n linked to t, the end of the chain that begins with c.
Lengthens(F, G, c, t, n) ==
  /\ SoundFAT(F) /\ SoundFAT(G) /\ Begins(F, c)
  /\ n \in Clusters /\ F[n] = FREE
  /\ t \in Clusters /\ F[t] = EOC /\ \E i \in 0..LastCluster : t = WalkIn(F, c)[i]
  /\ G = [F EXCEPT ![n] = EOC, ![t] = n]

LEMMA LongerChain ==
  ASSUME NEW F, NEW G, NEW c, NEW t, NEW n, Lengthens(F, G, c, t, n)
  PROVE  /\ Begins(G, c) /\ Grows(F, G) /\ c # n
         /\ t = WalkIn(F, c)[Length(F, c) - 1]
         /\ Length(G, c) = Length(F, c) + 1
<1>0. /\ n \in Clusters /\ F[n] = FREE /\ t \in Clusters /\ F[t] = EOC
      /\ \E i \in 0..LastCluster : t = WalkIn(F, c)[i]
      /\ G = [F EXCEPT ![n] = EOC, ![t] = n]
  BY DEF Lengthens
<1>1. /\ SoundFAT(F) /\ SoundFAT(G) /\ Begins(F, c) /\ c \in Clusters
      /\ F \in FATs /\ G \in FATs /\ c \in Places
      /\ n # t /\ c # n /\ G[t] = n /\ G[n] = EOC /\ Grows(F, G) /\ Begins(G, c)
      /\ LastCluster \in Nat /\ EOC \notin Clusters /\ FREE # EOC /\ FREE \notin Clusters
  <2>1. /\ SoundFAT(F) /\ SoundFAT(G) /\ Begins(F, c) /\ c \in Clusters
        /\ F \in FATs /\ G \in FATs /\ c \in Places /\ F[c] # FREE
        /\ \A d \in Clusters : F[d] # c
    BY DEF Lengthens, SoundFAT, Begins, Places
  <2>2. /\ LastCluster \in Nat /\ EOC \notin Clusters /\ FREE # EOC /\ FREE \notin Clusters
    BY Numbers
  <2>3. n # t /\ c # n
    BY <1>0, <2>1, <2>2
  <2>4. /\ G[t] = n /\ G[n] = EOC
        /\ \A x \in Clusters : x # n /\ x # t => G[x] = F[x]
    BY <1>0, <2>1, <2>3 DEF FATs
  <2>5. Grows(F, G)
    BY <1>0, <2>1, <2>2, <2>4 DEF Grows
  <2>6. G[c] # FREE
    BY <1>0, <2>1, <2>2, <2>3, <2>4
  <2>7. \A d \in Clusters : G[d] # c
    BY <1>0, <2>1, <2>2, <2>3, <2>4
  <2>8. Begins(G, c)
    BY <2>1, <2>6, <2>7 DEF Begins
  <2>9. QED
    BY <2>1, <2>2, <2>3, <2>4, <2>5, <2>8
<1>2. PICK k \in Nat : /\ k = Length(F, c) /\ k > 0 /\ k <= LastCluster
                       /\ \A q \in 0..LastCluster : WalkIn(F, c)[q] \in Clusters <=> q < k
  BY <1>1, ChainLength
<1>3. PICK l \in Nat : /\ l = Length(G, c) /\ l < LastCluster
                       /\ \A q \in 0..LastCluster : WalkIn(G, c)[q] \in Clusters <=> q < l
  BY <1>1, ChainLength
<1>4. PICK i \in 0..LastCluster : t = WalkIn(F, c)[i]
  BY <1>0
<1>5. i = k - 1
  <2>1. i < k
    BY <1>0, <1>2, <1>4
  <2>2. SUFFICES ASSUME i # k - 1 PROVE FALSE
    OBVIOUS
  <2>3. PICK m \in 1..LastCluster : m - 1 = i /\ m < k /\ m \in 0..LastCluster
    <3>1. i + 1 \in 1..LastCluster /\ (i + 1) - 1 = i /\ i + 1 < k
      BY <1>1, <1>2, <2>1, <2>2
    <3>2. QED
      BY <1>1, <3>1
  <2>4. WalkIn(F, c)[m] = Link(F, WalkIn(F, c)[m - 1])
    BY <1>1, WalkIs
  <2>5. WalkIn(F, c)[m] = EOC
    BY <1>0, <1>4, <2>3, <2>4 DEF Link
  <2>6. QED
    BY <1>1, <1>2, <2>3, <2>5
<1>6. WalkIn(G, c)[k - 1] = t
  BY <1>0, <1>1, <1>4, <1>5, WalkKept
<1>7. WalkIn(G, c)[k] = n
  <2>1. k \in 1..LastCluster
    BY <1>1, <1>2
  <2>2. WalkIn(G, c)[k] = Link(G, WalkIn(G, c)[k - 1])
    BY <1>1, <2>1, WalkIs
  <2>3. QED
    BY <1>0, <1>1, <1>6, <2>2 DEF Link
<1>8. k < l
  <2>1. k \in 0..LastCluster
    BY <1>1, <1>2
  <2>2. QED
    BY <1>0, <1>3, <1>7, <2>1
<1>9. ~(k + 1 < l)
  <2>1. SUFFICES ASSUME k + 1 < l PROVE FALSE
    OBVIOUS
  <2>2. k + 1 \in 1..LastCluster /\ (k + 1) - 1 = k
    BY <1>1, <1>2, <1>3, <2>1
  <2>3. WalkIn(G, c)[k + 1] = Link(G, WalkIn(G, c)[(k + 1) - 1])
    BY <1>1, <2>2, WalkIs
  <2>4. WalkIn(G, c)[k + 1] = EOC
    BY <1>0, <1>1, <1>7, <2>2, <2>3 DEF Link
  <2>5. k + 1 \in 0..LastCluster
    BY <1>1, <2>2
  <2>6. QED
    BY <1>1, <1>3, <2>1, <2>4, <2>5
<1>10. l = k + 1
  BY <1>8, <1>9
<1>11. QED
  BY <1>1, <1>2, <1>3, <1>4, <1>5, <1>10

LEMMA LongerText ==
  ASSUME NEW F, NEW G, NEW c, NEW t, NEW n, Lengthens(F, G, c, t, n), NEW D \in Datas
  PROVE  /\ BodyOf(F, D)[c] \in Seq(Bytes) /\ BodyOf(G, D)[c] \in Seq(Bytes)
         /\ Len(BodyOf(G, D)[c]) = Len(BodyOf(F, D)[c]) + Cluster
         /\ \A i \in 1..Len(BodyOf(F, D)[c]) : BodyOf(G, D)[c][i] = BodyOf(F, D)[c][i]
         /\ \A d \in Clusters \ {c} : BodyOf(G, D)[d] = BodyOf(F, D)[d]
<1>0. /\ n \in Clusters /\ F[n] = FREE /\ t \in Clusters /\ F[t] = EOC
      /\ G = [F EXCEPT ![n] = EOC, ![t] = n]
  BY DEF Lengthens
<1>1. /\ SoundFAT(F) /\ SoundFAT(G) /\ Begins(F, c)
      /\ F \in FATs /\ G \in FATs /\ c \in Clusters /\ c \in Places
      /\ Grows(F, G) /\ Begins(G, c) /\ c # n
      /\ t = WalkIn(F, c)[Length(F, c) - 1]
      /\ Length(G, c) = Length(F, c) + 1
      /\ LastCluster \in Nat /\ EOC \notin Clusters /\ FREE # EOC /\ FREE \notin Clusters
  <2>1. /\ SoundFAT(F) /\ SoundFAT(G) /\ Begins(F, c)
        /\ F \in FATs /\ G \in FATs /\ c \in Clusters /\ c \in Places
    BY DEF Lengthens, SoundFAT, Begins, Places
  <2>2. QED
    BY <2>1, LongerChain, Numbers
<1>2. PICK k \in Nat : /\ k = Length(F, c) /\ k > 0 /\ k <= LastCluster
                       /\ \A q \in 0..LastCluster : WalkIn(F, c)[q] \in Clusters <=> q < k
  BY <1>1, ChainLength
<1>3. PICK V, W : V = TextOf(F, D, c) /\ W = TextOf(G, D, c)
  OBVIOUS
<1>4. BodyOf(F, D)[c] = V /\ BodyOf(G, D)[c] = W
  BY <1>1, <1>3 DEF BodyOf
<1>5. PICK a \in Nat, e \in Nat : a = Cluster * k /\ e = Cluster /\ a + e = Cluster * (k + 1)
  <2>1. PICK e \in Nat : e = Cluster
    BY Numbers
  <2>2. e * k \in Nat /\ e * k + e = e * (k + 1)
    BY Z3
  <2>3. QED
    BY <2>1, <2>2
<1>6. V \in Seq(Bytes) /\ Len(V) = a /\ W \in Seq(Bytes) /\ Len(W) = a + e
  BY <1>1, <1>2, <1>3, <1>5, TextShape
<1>7. ASSUME NEW i \in 1..a
      PROVE  W[i] = V[i]
  <2>1. PICK J \in 0..(k - 1) : J = (i - 1) \div Cluster
    BY <1>5, PlaceOf
  <2>2. J \in 0..LastCluster /\ J < k
    BY <1>1, <1>2
  <2>3. WalkIn(G, c)[J] = WalkIn(F, c)[J]
    BY <1>1, <1>2, <2>2, WalkKept
  <2>4. i \in 1..(Cluster * Length(F, c)) /\ i \in 1..(Cluster * Length(G, c))
    BY <1>1, <1>2, <1>5
  <2>5. QED
    BY <1>3, <2>1, <2>3, <2>4 DEF TextOf
<1>8. ASSUME NEW d \in Clusters \ {c}
      PROVE  BodyOf(G, D)[d] = BodyOf(F, D)[d]
  <2>1. Begins(G, d) <=> Begins(F, d)
    <3>1. CASE d = n
      <4>1. ~Begins(F, d)
        BY <1>0, <3>1 DEF Begins
      <4>2. G[t] = d
        BY <1>0, <1>1, <3>1 DEF FATs
      <4>3. QED
        BY <1>0, <4>1, <4>2 DEF Begins
    <3>2. CASE d # n
      <4>1. G[d] # FREE <=> F[d] # FREE
        BY <1>0, <1>1, <3>2 DEF FATs
      <4>2. \A x \in Clusters : G[x] = d <=> F[x] = d
        BY <1>0, <1>1, <3>2 DEF FATs
      <4>3. QED
        BY <4>1, <4>2 DEF Begins
    <3>3. QED
      BY <3>1, <3>2
  <2>2. CASE Begins(F, d)
    <3>0. PICK l \in Nat : l = Length(F, d) /\ l - 1 \in 0..LastCluster
      BY <1>1, <2>2, ChainLength
    <3>1. PICK u : u = WalkIn(F, d)[l - 1]
      OBVIOUS
    <3>2. u \in Clusters /\ F[u] = EOC
      BY <1>1, <2>2, <3>0, <3>1, ChainEnds
    <3>3. u # t
      <4>1. k - 1 \in 0..LastCluster
        BY <1>1, <1>2
      <4>2. QED
        BY <1>1, <1>2, <2>2, <3>0, <3>1, <3>2, <4>1, WalksApart
    <3>4. G[u] = EOC
      BY <1>0, <1>1, <3>2, <3>3 DEF FATs
    <3>5. TextOf(G, D, d) = TextOf(F, D, d)
      BY <1>1, <2>1, <2>2, <3>0, <3>1, <3>4, SameChain
    <3>6. QED
      BY <2>1, <2>2, <3>5 DEF BodyOf
  <2>3. CASE ~Begins(F, d)
    BY <2>1, <2>3 DEF BodyOf
  <2>4. QED
    BY <2>2, <2>3
<1>9. QED
  BY <1>4, <1>5, <1>6, <1>7, <1>8

-----------------------------------------------------------------------------
\* The steps of FileStore that FileSystem's steps are.
StoreInv == TInv /\ ChainsSound /\ Covered /\ CallsLegal

LEMMA StoreFacts ==
  ASSUME TypeOK, ChainsSound
  PROVE  SoundFAT(fat) /\ data \in Datas
  BY HeadBegins DEF TypeOK, Datas

LEMMA InitStore ==
  ASSUME Init
  PROVE  Store!Init
<1>1. TypeOK /\ ChainsSound /\ Covered
  BY InitTInv, InitChainsSound, InitCovered DEF TInv
<1>2. SoundFAT(fat) /\ data \in Datas /\ entry \in [Files -> Entries]
  BY <1>1, StoreFacts DEF TypeOK
<1>3. entry \in [Files -> [first : Clusters \cup {NONE}, size : Nat]]
  BY <1>2 DEF Entries
<1>4. Text = BodyOf(fat, data)
  BY TextIs
<1>5. ASSUME NEW c \in Clusters
      PROVE  BodyOf(fat, data)[c] \in Seq(Bytes)
  <2>1. CASE Begins(fat, c)
    BY <1>2, <2>1, TextShape DEF BodyOf
  <2>2. CASE ~Begins(fat, c)
    BY <2>2 DEF BodyOf
  <2>3. QED
    BY <2>1, <2>2
<1>6. Text \in [Clusters -> Seq(Bytes)]
  BY <1>4, <1>5 DEF BodyOf
<1>7. ASSUME NEW f \in Files
      PROVE  IF entry[f].first = NONE THEN entry[f].size = 0
             ELSE entry[f].size <= Len(Text[entry[f].first])
  <2>1. entry[f].size \in Nat /\ entry[f].first \in Clusters \cup {NONE}
    BY <1>3
  <2>2. Room(fat, entry[f].first, entry[f].size)
    BY <1>1, CoveredIs
  <2>3. CASE entry[f].first = NONE
    BY <2>1, <2>2, <2>3 DEF Room
  <2>4. CASE entry[f].first # NONE
    <3>1. PICK c \in Clusters : c = entry[f].first /\ Begins(fat, c)
      BY <1>1, <2>1, <2>4, HeadsAre, HeadBegins
    <3>2. /\ Cluster * Length(fat, c) \in Nat
          /\ Len(Text[c]) = Cluster * Length(fat, c)
      BY <1>2, <1>4, <3>1, TextShape DEF BodyOf
    <3>3. QED
      BY <2>1, <2>2, <2>4, <3>1, <3>2 DEF Room
  <2>5. QED
    BY <2>3, <2>4
<1>8. handle = [h \in Handles |-> Closed] /\ got = <<>>
  BY DEF Init
<1>9. QED
  BY <1>3, <1>6, <1>7, <1>8 DEF Store!Init

\* Nothing of the store changes.
LEMMA StoreSleeps ==
  ASSUME UNCHANGED <<fat, data, entry, handle>>, got' = <<>> \/ got' = got
  PROVE  Store!Next \/ UNCHANGED Store!vars
<1>1. Text' = Text
  BY TextIs
<1>2. QED
  BY <1>1 DEF Store!Next, Store!vars

LEMMA OpenIsOpen ==
  ASSUME NEW h \in Handles, NEW f \in Files, NEW m \in Modes, fs_open(h, f, m)
  PROVE  Store!Open(h) /\ got' = <<>>
<1>1. Text' = Text
  BY TextIs DEF fs_open
<1>2. m \in SUBSET {"read", "write"}
  BY FileSystemAssumption
<1>3. QED
  BY <1>1, <1>2 DEF fs_open, Store!Open

LEMMA SeekIsSeek ==
  ASSUME TypeOK, NEW h \in Handles, NEW p \in Positions, fs_seek(h, p)
  PROVE  Store!Seek(h) /\ got' = <<>>
<1>1. Text' = Text
  BY TextIs DEF fs_seek
<1>2. p \in Nat /\ handle[h] \in Opened
  BY FileSystemAssumption, OpenHandle DEF fs_seek
<1>3. handle'[h].pos = p
  BY <1>2 DEF fs_seek, TypeOK, Opened
<1>4. QED
  BY <1>1, <1>2, <1>3 DEF fs_seek, Store!Seek

LEMMA CloseIsClose ==
  ASSUME NEW h \in Handles, fs_close(h)
  PROVE  Store!Close(h) /\ got' = <<>>
<1>1. Text' = Text
  BY TextIs DEF fs_close
<1>2. QED
  BY <1>1 DEF fs_close, Store!Close

\* What every pass of a call goes by.
LEMMA PassFacts ==
  ASSUME StoreInv, NEW h \in Handles, call[h].op # "none", Reached(h)
  PROVE  \E c \in Clusters, p \in Nat, n \in 1..Cluster, j \in 0..LastCluster,
            b \in 0..(Cluster - 1) :
           /\ c = handle[h].first /\ p = handle[h].pos /\ n = Part(h)
           /\ handle[h].valid /\ c # NONE
           /\ SoundFAT(fat) /\ Begins(fat, c) /\ data \in Datas
           /\ At(h) = WalkIn(fat, c)[j] /\ At(h) \in Clusters
           /\ b = p % Cluster /\ p = Cluster * j + b /\ b + n <= Cluster
           /\ j < Length(fat, c) /\ p + n <= Cluster * Length(fat, c)
<1> USE DEF StoreInv, TInv
<1>1. handle[h].valid /\ At(h) \in Clusters /\ handle[h].pos \in Nat
  BY ReachedOpen, OpenHandle
<1>2. /\ handle[h].first # NONE /\ SoundFAT(fat) /\ Begins(fat, handle[h].first)
      /\ data \in Datas /\ handle[h].first \in Clusters
  BY <1>1, HandleBegins, StoreFacts DEF Reached, Begins
<1>3. /\ Part(h) \in Nat /\ Part(h) > 0 /\ (handle[h].pos % Cluster) + Part(h) <= Cluster
  BY PartFits, PartIsSome DEF CallsLegal
<1>4. PICK p \in Nat, e \in Nat \ {0} : p = handle[h].pos /\ e = Cluster
  BY <1>1, Numbers
<1>5. p \div e \in Nat /\ p % e \in 0..(e - 1) /\ p = e * (p \div e) + (p % e)
  BY Division
<1>6. PICK j \in Nat, b \in 0..(e - 1) : j = p \div e /\ b = p % e /\ p = e * j + b
  BY <1>5
<1>7. j = Index(h) /\ j \in 0..LastCluster /\ At(h) = WalkIn(fat, handle[h].first)[j]
  BY <1>4, <1>6, Numbers DEF Index, Reached, At, Walk
<1>8. PICK n \in 1..Cluster : n = Part(h) /\ b + n <= Cluster
  BY <1>3, <1>4, <1>6
<1>9. /\ j < Length(fat, handle[h].first)
      /\ p + n <= Cluster * Length(fat, handle[h].first)
  BY <1>4, <1>7, <1>8, EndFits
<1>10. PICK c \in Clusters : c = handle[h].first
  BY <1>2
<1>11. QED
  BY <1>1, <1>2, <1>4, <1>6, <1>7, <1>8, <1>9, <1>10

\* The q-th byte after b in the j-th cluster is where the text has it.
LEMMA ByteAt ==
  ASSUME NEW F, SoundFAT(F), NEW c, Begins(F, c), NEW D \in Datas,
         NEW j \in Nat, j < Length(F, c), NEW b \in 0..(Cluster - 1), NEW q \in 1..(Cluster - b)
  PROVE  TextOf(F, D, c)[Cluster * j + b + q] = D[WalkIn(F, c)[j]][b + q]
<1>1. PICK e \in Nat \ {0}, k \in Nat : e = Cluster /\ k = Length(F, c) /\ j < k
  BY Numbers, ChainLength
<1>2. PICK x \in Nat, y \in 0..(e - 1) : y = b + q - 1 /\ x = e * j + y
  <2>1. e * j \in Nat
    BY <1>1, Z3
  <2>2. b + q - 1 \in 0..(e - 1)
    BY <1>1
  <2>3. QED
    BY <2>1, <2>2
<1>3. x \div e = j /\ x % e = y
  <2>1. x = e * j + y
    BY <1>2
  <2>2. QED
    BY ONLY <2>1, PlaceIs, e \in Nat \ {0}, j \in Nat, y \in 0..(e - 1), x \in Nat
<1>4. PICK i \in Nat : i = Cluster * j + b + q /\ i - 1 = x /\ i > 0
  <2>1. PICK z \in Nat : z = e * j
    BY <1>1, Z3
  <2>2. x + 1 = z + b + q
    BY <1>1, <1>2, <2>1
  <2>3. QED
    BY <1>1, <2>1, <2>2
<1>5. i \in 1..(Cluster * k)
  <2>1. e * (j + 1) <= e * k /\ e * (j + 1) = e * j + e /\ e * j \in Nat /\ e * k \in Nat
    BY <1>1, Z3
  <2>2. QED
    BY <1>1, <1>2, <1>4, <2>1
<1>6. TextOf(F, D, c)[i] = D[WalkIn(F, c)[(i - 1) \div Cluster]][((i - 1) % Cluster) + 1]
  BY <1>1, <1>5 DEF TextOf
<1>7. (i - 1) \div Cluster = j /\ ((i - 1) % Cluster) + 1 = b + q
  BY <1>1, <1>2, <1>3, <1>4
<1>8. QED
  BY <1>4, <1>6, <1>7

\* Pieces of two strings that agree byte by byte.
Agree(S, s, t, b, p, n) ==
  /\ b \in Nat /\ p \in Nat /\ n \in Nat
  /\ \A q \in 1..n : s[b + q] \in S /\ s[b + q] = t[p + q]

SamePart(s, t, b, p, n) == SubSeq(s, b + 1, b + n) = SubSeq(t, p + 1, p + n)

LEMMA SamePiece ==
  ASSUME NEW S, NEW s, NEW t, NEW b, NEW p, NEW n, Agree(S, s, t, b, p, n)
  PROVE  SamePart(s, t, b, p, n)
<1> USE DEF Agree
<1>1. ASSUME NEW u, NEW a \in Nat, \A q \in 1..n : u[a + q] \in S
      PROVE  /\ SubSeq(u, a + 1, a + n) \in Seq(S)
             /\ Len(SubSeq(u, a + 1, a + n)) = n
             /\ \A q \in 1..n : SubSeq(u, a + 1, a + n)[q] = u[a + q]
  <2>1. ASSUME NEW i \in (a + 1)..(a + n)
        PROVE  u[i] \in S
    <3>1. i - a \in 1..n /\ a + (i - a) = i
      OBVIOUS
    <3>2. QED
      BY <1>1, <3>1
  <2>2. PICK x \in Int, y \in Int : x = a + 1 /\ y = a + n
    OBVIOUS
  <2>3. \A i \in x..y : u[i] \in S
    BY <2>1, <2>2
  <2>4. /\ SubSeq(u, x, y) \in Seq(S)
        /\ Len(SubSeq(u, x, y)) = IF x <= y THEN y - x + 1 ELSE 0
        /\ \A i \in 1..(y - x + 1) : SubSeq(u, x, y)[i] = u[x + i - 1]
    BY ONLY <2>3, SubSeqProperties, x \in Int, y \in Int
  <2>5. Len(SubSeq(u, x, y)) = n
    BY <2>2, <2>4
  <2>6. ASSUME NEW q \in 1..n
        PROVE  SubSeq(u, x, y)[q] = u[a + q]
    <3>1. q \in 1..(y - x + 1) /\ x + q - 1 = a + q
      BY <2>2
    <3>2. QED
      BY <2>4, <3>1
  <2>7. QED
    BY <2>2, <2>4, <2>5, <2>6
<1>2. PICK v, w : v = SubSeq(s, b + 1, b + n) /\ w = SubSeq(t, p + 1, p + n)
  OBVIOUS
<1>3. v \in Seq(S) /\ Len(v) = n /\ \A q \in 1..n : v[q] = s[b + q]
  BY <1>1, <1>2
<1>4. w \in Seq(S) /\ Len(w) = n /\ \A q \in 1..n : w[q] = t[p + q]
  BY <1>1, <1>2
<1>5. v = w
  BY <1>3, <1>4, SeqEqual
<1>6. QED
  BY <1>2, <1>5 DEF SamePart

LEMMA ReadIsGet ==
  ASSUME StoreInv, NEW h \in Handles, ReadPass(h)
  PROVE  Store!Next
<1> USE DEF StoreInv, TInv
<1>1. call[h].op = "read" /\ Reached(h)
  BY DEF ReadPass
<1>2. PICK c \in Clusters, p \in Nat, n \in 1..Cluster, j \in 0..LastCluster,
           b \in 0..(Cluster - 1) :
        /\ c = handle[h].first /\ p = handle[h].pos /\ n = Part(h)
        /\ handle[h].valid /\ c # NONE
        /\ SoundFAT(fat) /\ Begins(fat, c) /\ data \in Datas
        /\ At(h) = WalkIn(fat, c)[j] /\ At(h) \in Clusters
        /\ b = p % Cluster /\ p = Cluster * j + b /\ b + n <= Cluster
        /\ j < Length(fat, c) /\ p + n <= Cluster * Length(fat, c)
  BY <1>1, PassFacts
<1>3. Text' = Text /\ entry' = entry
  BY TextIs DEF ReadPass
<1>4. "read" \in handle[h].mode /\ p + n <= handle[h].size
  <2>1. /\ "read" \in handle[h].mode /\ p + call[h].left <= handle[h].size
        /\ call[h].left \in Nat /\ n <= call[h].left
    BY <1>1, <1>2, PartFits DEF CallsLegal, LegalCall
  <2>2. handle[h].size \in Nat
    BY <1>2, OpenHandle
  <2>3. QED
    BY <2>1, <2>2
<1>5. handle' = [handle EXCEPT ![h].pos = p + n]
  BY <1>2 DEF ReadPass
<1>6. PICK s, t : s = data[At(h)] /\ t = TextOf(fat, data, c)
  OBVIOUS
<1>7. Text[c] = t
  BY <1>2, <1>6, TextIs DEF BodyOf
<1>8. PICK l \in Nat :
        /\ l = Cluster * Length(fat, c)
        /\ s \in [1..Cluster -> Bytes] /\ t \in [1..l -> Bytes]
  BY <1>2, <1>6, TextShape DEF Datas
<1>9. ASSUME NEW q \in 1..n
      PROVE  s[b + q] = t[p + q]
  <2>1. q \in 1..(Cluster - b) /\ j \in Nat
    BY <1>2, Numbers
  <2>2. TextOf(fat, data, c)[Cluster * j + b + q] = data[WalkIn(fat, c)[j]][b + q]
    BY <1>2, <2>1, ByteAt
  <2>3. QED
    BY <1>2, <1>6, <2>2
<1>10. SubSeq(s, b + 1, b + n) = SubSeq(t, p + 1, p + n)
  <2>1. \A q \in 1..n : t[p + q] \in Bytes
    <3>1. p + n <= l /\ p \in Nat /\ n \in Nat /\ l \in Nat
      BY <1>2, <1>8, Numbers
    <3>2. ASSUME NEW q \in 1..n
          PROVE  p + q \in 1..l
      BY ONLY <3>1, q \in 1..n
    <3>3. QED
      BY <1>8, <3>2
  <2>2. \A q \in 1..n : s[b + q] \in Bytes
    BY <1>9, <2>1
  <2>3. \A q \in 1..n : s[b + q] \in Bytes /\ s[b + q] = t[p + q]
    BY <1>9, <2>2
  <2>4. b \in Nat /\ n \in Nat
    BY Numbers
  <2>5. Agree(Bytes, s, t, b, p, n)
    BY <2>3, <2>4 DEF Agree
  <2>6. SamePart(s, t, b, p, n)
    BY <2>5, SamePiece
  <2>7. QED
    BY <2>6 DEF SamePart
<1>11. got' = SubSeq(s, b + 1, b + n)
  BY <1>2, <1>6 DEF ReadPass
<1>12. Store!Get(h, n)
  BY <1>2, <1>3, <1>4, <1>5, <1>7, <1>10, <1>11 DEF Store!Get
<1>13. QED
  BY <1>12 DEF Store!Next

LEMMA WriteIsPut ==
  ASSUME StoreInv, NEW h \in Handles, WritePass(h)
  PROVE  Store!Next
<1> USE DEF StoreInv, TInv
<1>1. call[h].op = "write" /\ Reached(h)
  BY DEF WritePass
<1>2. PICK c \in Clusters, p \in Nat, n \in 1..Cluster, j \in 0..LastCluster,
           b \in 0..(Cluster - 1) :
        /\ c = handle[h].first /\ p = handle[h].pos /\ n = Part(h)
        /\ handle[h].valid /\ c # NONE
        /\ SoundFAT(fat) /\ Begins(fat, c) /\ data \in Datas
        /\ At(h) = WalkIn(fat, c)[j] /\ At(h) \in Clusters
        /\ b = p % Cluster /\ p = Cluster * j + b /\ b + n <= Cluster
        /\ j < Length(fat, c) /\ p + n <= Cluster * Length(fat, c)
  BY <1>1, PassFacts
<1>3. /\ Text = BodyOf(fat, data) /\ Text' = BodyOf(fat, data')
      /\ entry' = entry /\ got' = <<>>
  BY TextIs DEF WritePass
<1>4. "write" \in handle[h].mode
  BY <1>1 DEF CallsLegal, LegalCall
<1>5. handle' = [handle EXCEPT ![h].pos = p + n,
                               ![h].size = IF p + n > @ THEN p + n ELSE @]
  BY <1>2 DEF WritePass
<1>6. PICK D, E : D = data /\ E = data'
  OBVIOUS
<1>7. D \in Datas /\ E \in Datas
  BY <1>2, <1>6, NextTInv DEF Next, TypeOK, Datas
<1>8. Overwrites(fat, D, E, c, j, b, n, h)
  <2>1. Span(h) = {b + q : q \in 1..n}
    BY <1>2 DEF Span
  <2>2. E = [D EXCEPT ![WalkIn(fat, c)[j]] =
               [m \in 1..Cluster |-> IF m \in {b + q : q \in 1..n} THEN h
                                     ELSE D[WalkIn(fat, c)[j]][m]]]
    BY <1>2, <1>6, <2>1 DEF WritePass
  <2>3. b \in Nat /\ n \in Nat /\ WalkIn(fat, c)[j] \in Clusters
    BY <1>2, Numbers
  <2>4. QED
    BY <1>2, <1>7, <2>2, <2>3 DEF Overwrites
<1>9. PICK k \in Nat : k = Cluster * Length(fat, c) /\ p + n <= k
  BY <1>2, TextShape
<1>10. PICK V, W : V = TextOf(fat, D, c) /\ W = TextOf(fat, E, c)
  OBVIOUS
<1>11. /\ V \in [1..k -> Bytes] /\ W \in [1..k -> Bytes] /\ Len(V) = k
  BY <1>2, <1>7, <1>9, <1>10, TextShape
<1>12. W = [i \in DOMAIN V |-> IF i \in (p + 1)..(p + n) THEN h ELSE V[i]]
  <2>1. ASSUME NEW i \in 1..k
        PROVE  W[i] = IF i \in (p + 1)..(p + n) THEN h ELSE V[i]
    <3>1. W[i] = IF i \in (Cluster * j + b + 1)..(Cluster * j + b + n) THEN h ELSE V[i]
      BY <1>8, <1>9, <1>10, OneByte
    <3>2. QED
      BY <1>2, <3>1
  <2>2. QED
    BY <1>11, <2>1
<1>13. Text[c] = V /\ Text'[c] = W
  BY <1>2, <1>3, <1>6, <1>10 DEF BodyOf
<1>14. ASSUME NEW d \in Clusters \ {c}
       PROVE  Text'[d] = Text[d]
  <2>1. CASE Begins(fat, d)
    <3>1. TextOf(fat, E, d) = TextOf(fat, D, d)
      BY <1>8, <2>1, OtherText
    <3>2. QED
      BY <1>3, <1>6, <2>1, <3>1 DEF BodyOf
  <2>2. CASE ~Begins(fat, d)
    BY <1>3, <2>2 DEF BodyOf
  <2>3. QED
    BY <2>1, <2>2
<1>15. Text' = [Text EXCEPT ![c] =
                  [i \in DOMAIN @ |-> IF i \in (p + 1)..(p + n) THEN h ELSE @[i]]]
  <2>1. DOMAIN Text = Clusters /\ Text' = [d \in Clusters |-> Text'[d]]
        /\ Text = [d \in Clusters |-> Text[d]]
    BY <1>3 DEF BodyOf
  <2>2. PICK X, Y : X = Text /\ Y = Text'
    OBVIOUS
  <2>3. Y = [X EXCEPT ![c] = W]
    BY <1>13, <1>14, <2>1, <2>2
  <2>4. QED
    BY <1>12, <1>13, <2>2, <2>3
<1>16. p + n <= Len(Text[c])
  BY <1>9, <1>11, <1>13
<1>17. Store!Put(h, n, h)
  BY <1>2, <1>3, <1>4, <1>5, <1>15, <1>16 DEF Store!Put
<1>18. h \in Bytes
  BY DEF Bytes
<1>19. QED
  BY <1>3, <1>17, <1>18 DEF Store!Next

LEMMA AddFirstIsBegin ==
  ASSUME StoreInv, NEW h \in Handles, AddFirst(h)
  PROVE  Store!Next
<1> USE DEF StoreInv
<1>1. PICK n \in Clusters : n = FirstFree /\ fat[n] = FREE /\ fat' = [fat EXCEPT ![n] = EOC]
  BY AddFirstEffect
<1>2. handle[h].valid /\ handle[h].first = NONE
  BY AddFirstEffect
<1>3. /\ handle' = [handle EXCEPT ![h].first = n]
      /\ data' = data /\ entry' = entry /\ got' = <<>>
  BY <1>1 DEF AddFirst
<1>4. [Next]_vars
  BY DEF Next
<1>5. TypeOK /\ TypeOK' /\ ChainsSound'
  BY <1>4, NextTInv, NextChainsSound DEF TInv
<1>6. SoundFAT(fat) /\ SoundFAT(fat') /\ data \in Datas
  BY <1>5 DEF TypeOK, ChainsSound, SoundFAT, FATs, Datas
<1>7. \A d \in Clusters : fat'[d] # n
  BY <1>1, <1>6, Numbers DEF SoundFAT, FATs
<1>8. PICK G : G = fat'
  OBVIOUS
<1>9. NewFirst(fat, G, n)
  BY <1>1, <1>6, <1>7, <1>8 DEF NewFirst
<1>10. Text = BodyOf(fat, data) /\ Text' = BodyOf(G, data)
  BY <1>3, <1>8, TextIs
<1>11. /\ Text[n] = <<>> /\ Text'[n] \in [1..Cluster -> Bytes]
       /\ \A d \in Clusters \ {n} : Text'[d] = Text[d]
  BY <1>6, <1>9, <1>10, NewFirstText
<1>12. Text' = [Text EXCEPT ![n] = Text'[n]]
  <2>1. Text' = [d \in Clusters |-> Text'[d]] /\ Text = [d \in Clusters |-> Text[d]]
    BY <1>10 DEF BodyOf
  <2>2. PICK X, Y : X = Text /\ Y = Text'
    OBVIOUS
  <2>3. Y = [X EXCEPT ![n] = Y[n]]
    BY <1>11, <2>1, <2>2
  <2>4. QED
    BY <2>2, <2>3
<1>13. Store!Begin(h)
  BY <1>2, <1>3, <1>11, <1>12 DEF Store!Begin
<1>14. QED
  BY <1>3, <1>13 DEF Store!Next

\* A string that continues another one is it and the rest.
Continues(S, V, W, e) ==
  /\ V \in Seq(S) /\ W \in Seq(S) /\ e \in Nat /\ Len(W) = Len(V) + e
  /\ \A i \in 1..Len(V) : W[i] = V[i]

LEMMA Rest ==
  ASSUME NEW S, NEW V, NEW W, NEW e, Continues(S, V, W, e)
  PROVE  /\ SubSeq(W, Len(V) + 1, Len(W)) \in [1..e -> S]
         /\ W = V \o SubSeq(W, Len(V) + 1, Len(W))
<1> USE DEF Continues
<1>1. PICK a \in Nat : a = Len(V) /\ Len(W) = a + e
  OBVIOUS
<1>2. ASSUME NEW i \in (a + 1)..(a + e)
      PROVE  W[i] \in S
  BY <1>1, ElementOfSeq
<1>3. PICK x \in Int, y \in Int : x = a + 1 /\ y = a + e
  OBVIOUS
<1>4. PICK R : R = SubSeq(W, x, y)
  OBVIOUS
<1>5. \A i \in x..y : W[i] \in S
  BY <1>2, <1>3
<1>6. /\ SubSeq(W, x, y) \in Seq(S)
      /\ Len(SubSeq(W, x, y)) = IF x <= y THEN y - x + 1 ELSE 0
      /\ \A i \in 1..(y - x + 1) : SubSeq(W, x, y)[i] = W[x + i - 1]
  BY ONLY <1>5, SubSeqProperties, x \in Int, y \in Int
<1>7. /\ R \in Seq(S) /\ Len(R) = e
      /\ \A i \in 1..e : R[i] = W[a + i]
  <2>1. ASSUME NEW i \in 1..e
        PROVE  R[i] = W[a + i]
    <3>1. i \in 1..(y - x + 1) /\ x + i - 1 = a + i
      BY <1>3
    <3>2. QED
      BY <1>4, <1>6, <3>1
  <2>2. Len(R) = e
    <3>1. x <= y => y - x + 1 = e
      BY <1>3
    <3>2. ~(x <= y) => e = 0
      BY <1>3
    <3>3. QED
      BY <1>4, <1>6, <3>1, <3>2
  <2>3. QED
    BY <1>4, <1>6, <2>1, <2>2
<1>8. R \in [1..e -> S]
  BY <1>7, LenProperties
<1>9. /\ V \o R \in Seq(S) /\ Len(V \o R) = a + e
      /\ \A i \in 1..(a + e) : (V \o R)[i] = IF i <= a THEN V[i] ELSE R[i - a]
  BY <1>1, <1>7, ConcatProperties
<1>10. ASSUME NEW i \in 1..(a + e)
       PROVE  (V \o R)[i] = W[i]
  <2>1. CASE i <= a
    BY <1>1, <1>9, <2>1
  <2>2. CASE ~(i <= a)
    <3>1. i - a \in 1..e /\ a + (i - a) = i
      BY <2>2
    <3>2. QED
      BY <1>7, <1>9, <2>2, <3>1
  <2>3. QED
    BY <2>1, <2>2
<1>11. W = V \o R
  BY <1>1, <1>9, <1>10, SeqEqual
<1>12. QED
  BY <1>1, <1>3, <1>4, <1>8, <1>11

LEMMA AddClusterIsGrow ==
  ASSUME StoreInv, NEW h \in Handles, AddCluster(h)
  PROVE  Store!Next
<1> USE DEF StoreInv
<1>1. PICK n \in Clusters, t \in Clusters, i \in 0..LastCluster :
        /\ t = WalkIn(fat, handle[h].first)[i] /\ fat[n] = FREE /\ fat[t] = EOC
        /\ fat' = [fat EXCEPT ![n] = EOC, ![t] = n]
  BY FirstFreeIsFree DEF AddCluster, Walk
<1>2. handle[h].valid /\ handle[h].first # NONE
  BY DEF AddCluster, TInv, CallsOnOpen
<1>3. data' = data /\ entry' = entry /\ handle' = handle /\ got' = <<>>
  BY DEF AddCluster
<1>4. [Next]_vars
  BY DEF Next
<1>5. TypeOK /\ TypeOK' /\ ChainsSound'
  BY <1>4, NextTInv, NextChainsSound DEF TInv
<1>6. SoundFAT(fat) /\ SoundFAT(fat') /\ data \in Datas
  BY <1>5 DEF TypeOK, ChainsSound, SoundFAT, FATs, Datas
<1>7. PICK c \in Clusters : c = handle[h].first /\ Begins(fat, c)
  BY <1>2, <1>5, HandleBegins DEF Begins
<1>8. PICK G : G = fat'
  OBVIOUS
<1>9. Lengthens(fat, G, c, t, n)
  BY <1>1, <1>6, <1>7, <1>8 DEF Lengthens
<1>10. Text = BodyOf(fat, data) /\ Text' = BodyOf(G, data)
  BY <1>3, <1>8, TextIs
<1>11. PICK V, W : V = Text[c] /\ W = Text'[c]
  OBVIOUS
<1>12. /\ V \in Seq(Bytes) /\ W \in Seq(Bytes) /\ Len(W) = Len(V) + Cluster
       /\ \A q \in 1..Len(V) : W[q] = V[q]
       /\ \A d \in Clusters \ {c} : Text'[d] = Text[d]
  BY <1>6, <1>9, <1>10, <1>11, LongerText
<1>13. PICK R : R = SubSeq(W, Len(V) + 1, Len(W))
  OBVIOUS
<1>14. R \in [1..Cluster -> Bytes] /\ W = V \o R
  <2>1. PICK e \in Nat : e = Cluster
    BY Numbers
  <2>2. Continues(Bytes, V, W, e)
    BY <1>12, <2>1 DEF Continues
  <2>3. SubSeq(W, Len(V) + 1, Len(W)) \in [1..e -> Bytes]
    BY <2>2, Rest
  <2>4. W = V \o SubSeq(W, Len(V) + 1, Len(W))
    BY <2>2, Rest
  <2>5. QED
    BY <1>13, <2>1, <2>3, <2>4
<1>15. Text' = [Text EXCEPT ![c] = V \o R]
  <2>1. Text' = [d \in Clusters |-> Text'[d]] /\ Text = [d \in Clusters |-> Text[d]]
    BY <1>10 DEF BodyOf
  <2>2. PICK X, Y : X = Text /\ Y = Text'
    OBVIOUS
  <2>3. Y = [X EXCEPT ![c] = W]
    BY <1>11, <1>12, <2>1, <2>2
  <2>4. QED
    BY <1>14, <2>2, <2>3
<1>16. Store!Grow(h)
  BY <1>2, <1>3, <1>7, <1>11, <1>13, <1>14, <1>15 DEF Store!Grow
<1>17. QED
  BY <1>3, <1>16 DEF Store!Next

LEMMA NextStore ==
  ASSUME StoreInv, [Next]_vars
  PROVE  [Store!Next]_(Store!vars)
<1>1. TypeOK
  BY DEF StoreInv, TInv
<1>2. CASE fs_unmount \/ fs_mount_fat32
  BY <1>2, StoreSleeps DEF fs_unmount, fs_mount_fat32
<1>3. ASSUME NEW h \in Handles, NEW f \in Files, NEW m \in Modes, fs_open(h, f, m)
      PROVE  Store!Next
  BY <1>3, OpenIsOpen DEF Store!Next
<1>4. ASSUME NEW h \in Handles, NEW p \in Positions, fs_seek(h, p)
      PROVE  Store!Next
  BY <1>1, <1>4, SeekIsSeek DEF Store!Next
<1>5. ASSUME NEW h \in Handles, NEW n \in Lengths, fs_read(h, n) \/ fs_write(h, n)
      PROVE  Store!Next \/ UNCHANGED Store!vars
  BY <1>5, StoreSleeps DEF fs_read, fs_write
<1>6. ASSUME NEW h \in Handles, Fail(h)
      PROVE  Store!Next \/ UNCHANGED Store!vars
  BY <1>6, StoreSleeps DEF Fail
<1>7. ASSUME NEW h \in Handles, fs_close(h)
      PROVE  Store!Next
  BY <1>7, CloseIsClose DEF Store!Next
<1>8. CASE UNCHANGED vars
  BY <1>8, StoreSleeps DEF vars
<1>9. QED
  BY <1>2, <1>3, <1>4, <1>5, <1>6, <1>7, <1>8,
     ReadIsGet, WriteIsPut, AddFirstIsBegin, AddClusterIsGrow DEF Next

(* Behind the sectors there are files, on every volume and for any number   *)
(* of handles: each step of the driver is one step of FileStore or none.    *)
THEOREM FilesStored == Spec => ImplementsStore
<1>1. Init => Store!Init
  BY InitStore
<1>2. StoreInv /\ [Next]_vars => [Store!Next]_(Store!vars)
  BY NextStore
<1>3. Init => StoreInv
  BY InitTInv, InitChainsSound, InitCovered, InitCallsLegal DEF StoreInv
<1>4. StoreInv /\ [Next]_vars => StoreInv'
  BY NextTInv, NextChainsSound, NextCovered, NextCallsLegal DEF StoreInv
<1>5. QED
  BY <1>1, <1>2, <1>3, <1>4, PTL DEF Spec, ImplementsStore, Store!Spec
=============================================================================
