--------------------------- MODULE SchedulerProofs ---------------------------
(****************************************************************************)
(* Proofs about Scheduler, for any number of threads, mutexes, semaphores   *)
(* and stack blocks.                                                        *)
(****************************************************************************)
EXTENDS Scheduler, TLAPS

-----------------------------------------------------------------------------
(* Linked lists.  List l, whose links are nx, holds exactly the threads of  *)
(* S, in the order of their ranks, which run up by one from link to link.   *)

Links == [Threads -> Threads \cup {NULL}]
Ranks == [Threads -> Nat]
Groups == SUBSET Threads

IsList(l, nx, S, rk) ==
  /\ S = {} => l.head = NULL /\ l.tail = NULL
  /\ S # {} => l.head \in S /\ l.tail \in S /\ nx[l.tail] = NULL
  /\ \A t \in S : rk[l.head] <= rk[t] /\ rk[t] <= rk[l.tail]
  /\ \A t, u \in S : rk[t] = rk[u] => t = u
  /\ \A t \in S : t # l.tail => nx[t] \in S /\ rk[nx[t]] = rk[t] + 1

(* A list does not notice links and ranks that change outside it.           *)
LEMMA ListFrame ==
  ASSUME NEW l \in Lists, NEW nx \in Links, NEW S \in Groups,
         NEW rk \in Ranks, IsList(l, nx, S, rk),
         NEW ny \in Links, NEW rr \in Ranks,
         \A t \in S : ny[t] = nx[t] /\ rr[t] = rk[t]
  PROVE  IsList(l, ny, S, rr)
  BY DEF IsList, Groups

(* The rank a thread gets behind the last of a list.                        *)
Behind(l, S, rk, t) ==
  [rk EXCEPT ![t] = IF S = {} THEN 0 ELSE rk[l.tail] + 1]

(* Push appends, and leaves the links of other lists alone.                 *)
LEMMA PushAppends ==
  ASSUME NEW l \in Lists, NEW nx \in Links, NEW S \in Groups,
         NEW rk \in Ranks, IsList(l, nx, S, rk),
         NEW t \in Threads, t \notin S
  PROVE  /\ IsList(Push(l, nx, t).list, Push(l, nx, t).next, S \cup {t},
                   Behind(l, S, rk, t))
         /\ Push(l, nx, t).list \in Lists /\ Push(l, nx, t).next \in Links
         /\ Behind(l, S, rk, t) \in Ranks
         /\ \A u \in Threads \ (S \cup {t}) : Push(l, nx, t).next[u] = nx[u]
         /\ \A u \in Threads \ {t} : Behind(l, S, rk, t)[u] = rk[u]
<1> DEFINE k == Push(l, nx, t).list
           ny == Push(l, nx, t).next
           rr == Behind(l, S, rk, t)
<1>0. l \in Lists /\ nx \in Links /\ S \subseteq Threads /\ rk \in Ranks
  BY DEF Groups
<1>1. NULL \notin Threads
  BY ConstantsAssumption
<1>2. CASE S = {}
  <2>1. /\ k = [head |-> t, tail |-> t]
        /\ ny = [nx EXCEPT ![t] = NULL]
        /\ rr = [rk EXCEPT ![t] = 0]
    BY <1>2 DEF IsList, Push, Behind
  <2>2. k \in Lists /\ ny \in Links /\ rr \in Ranks /\ ny[t] = NULL
    BY <1>0, <2>1 DEF Links, Lists, Ranks
  <2>3. IsList(k, ny, S \cup {t}, rr)
    BY <1>0, <1>2, <2>1, <2>2 DEF IsList, Ranks
  <2>4. QED
    BY <1>0, <2>1, <2>2, <2>3 DEF Links, Ranks
<1>3. CASE S # {}
  <2>1. /\ l.head \in S /\ l.tail \in S /\ l.head \in Threads
        /\ l.tail \in Threads /\ l.tail # t /\ l.head # t /\ l.head # NULL
    BY <1>0, <1>1, <1>3 DEF IsList
  <2>2. rk[l.tail] \in Nat
    BY <1>0, <2>1 DEF Ranks
  <2>3. /\ k = [head |-> l.head, tail |-> t]
        /\ ny = [[nx EXCEPT ![t] = NULL] EXCEPT ![l.tail] = t]
        /\ rr = [rk EXCEPT ![t] = rk[l.tail] + 1]
    BY <1>3, <2>1 DEF Push, Behind
  <2>4. /\ k \in Lists /\ ny \in Links /\ rr \in Ranks
        /\ ny[t] = NULL /\ ny[l.tail] = t
        /\ \A u \in Threads : u # t /\ u # l.tail => ny[u] = nx[u]
        /\ rr[t] = rk[l.tail] + 1
        /\ \A u \in Threads : u # t => rr[u] = rk[u]
    BY <1>0, <2>1, <2>2, <2>3 DEF Links, Lists, Ranks
  <2>5. k.head = l.head /\ k.tail = t
    BY <2>3
  <2>6. \A u \in S : rk[u] \in Nat /\ rk[l.head] \in Nat /\ u # t
    BY <1>0, <2>1 DEF Ranks
  <2>7. \A u \in S \cup {t} : rr[l.head] <= rr[u] /\ rr[u] <= rr[t]
    BY <1>0, <2>1, <2>2, <2>4, <2>6 DEF IsList
  <2>8. \A u, v \in S \cup {t} : rr[u] = rr[v] => u = v
    <3>1. \A u \in S : rr[u] = rk[u] /\ rk[u] <= rk[l.tail] /\ rk[u] \in Nat
      BY <1>0, <2>4, <2>6 DEF IsList
    <3>2. \A u \in S : rr[u] # rr[t]
      BY <1>0, <2>2, <2>4, <3>1
    <3>3. \A u, v \in S : rr[u] = rr[v] => u = v
      BY <1>0, <3>1 DEF IsList
    <3>4. QED
      BY <3>2, <3>3
  <2>9. \A u \in S \cup {t} : u # t => ny[u] \in S \cup {t} /\ rr[ny[u]] = rr[u] + 1
    <3>1. SUFFICES ASSUME NEW u \in S
                   PROVE  ny[u] \in S \cup {t} /\ rr[ny[u]] = rr[u] + 1
      OBVIOUS
    <3>2. CASE u = l.tail
      BY <1>0, <2>1, <2>4, <3>2
    <3>3. CASE u # l.tail
      <4>1. nx[u] \in S /\ rk[nx[u]] = rk[u] + 1
        BY <1>0, <3>3 DEF IsList
      <4>2. QED
        BY <1>0, <2>4, <2>6, <3>3, <4>1
    <3>4. QED
      BY <3>2, <3>3
  <2>10. IsList(k, ny, S \cup {t}, rr)
    BY <1>0, <2>1, <2>4, <2>5, <2>7, <2>8, <2>9 DEF IsList
  <2>11. QED
    BY <1>0, <2>1, <2>4, <2>10
<1>4. QED
  BY <1>2, <1>3

(* Pop drops the first element, and leaves the links of other lists alone.  *)
LEMMA PopDrops ==
  ASSUME NEW l \in Lists, NEW nx \in Links, NEW S \in Groups,
         NEW rk \in Ranks, IsList(l, nx, S, rk), l.head # NULL
  PROVE  /\ l.head \in S /\ l.head \in Threads
         /\ IsList(Pop(l, nx).list, Pop(l, nx).next, S \ {l.head}, rk)
         /\ Pop(l, nx).list \in Lists /\ Pop(l, nx).next \in Links
         /\ \A u \in Threads \ {l.head} : Pop(l, nx).next[u] = nx[u]
<1> DEFINE k == Pop(l, nx).list
           ny == Pop(l, nx).next
           h == l.head
<1>0. l \in Lists /\ nx \in Links /\ S \subseteq Threads /\ rk \in Ranks
  BY DEF Groups
<1>1. /\ h \in S /\ h \in Threads /\ l.tail \in S /\ l.tail \in Threads
      /\ nx[l.tail] = NULL
  BY <1>0 DEF IsList
<1>2. NULL \notin Threads
  BY ConstantsAssumption
<1>3. /\ k.head = nx[h]
      /\ k.tail = IF nx[h] = NULL THEN NULL ELSE l.tail
      /\ ny = [nx EXCEPT ![h] = NULL]
      /\ k \in Lists
  BY <1>0, <1>1 DEF Pop, Links, Lists
<1>4. ny \in Links /\ \A u \in Threads \ {h} : ny[u] = nx[u]
  BY <1>0, <1>1, <1>3 DEF Links
<1>5. \A u \in S : rk[u] \in Nat
  BY <1>0 DEF Ranks
<1>6. CASE h = l.tail
  <2>1. \A u \in S : u = h
    BY <1>0, <1>1, <1>5, <1>6 DEF IsList
  <2>2. S \ {h} = {} /\ k.head = NULL /\ k.tail = NULL
    BY <1>0, <1>1, <1>3, <1>6, <2>1
  <2>3. IsList(k, ny, S \ {h}, rk)
    BY <1>0, <1>3, <1>4, <2>2 DEF IsList
  <2>4. QED
    BY <1>0, <1>1, <1>3, <1>4, <2>3
<1>7. CASE h # l.tail
  <2>1. nx[h] \in S /\ rk[nx[h]] = rk[h] + 1
    BY <1>0, <1>1, <1>7 DEF IsList
  <2>2. k.head = nx[h] /\ k.tail = l.tail /\ nx[h] # h /\ nx[h] \in Threads
    BY <1>0, <1>1, <1>2, <1>3, <1>5, <2>1
  <2>3. \A u \in S \ {h} : rk[nx[h]] <= rk[u]
    <3>1. \A u \in S \ {h} : rk[h] <= rk[u] /\ rk[h] # rk[u]
      BY <1>0, <1>1 DEF IsList
    <3>2. QED
      BY <1>0, <1>1, <1>5, <2>1, <3>1
  <2>4. \A u \in S \ {h} : u # l.tail => ny[u] \in S \ {h} /\ rk[ny[u]] = rk[u] + 1
    <3>1. SUFFICES ASSUME NEW u \in S \ {h}, u # l.tail
                   PROVE  ny[u] \in S \ {h} /\ rk[ny[u]] = rk[u] + 1
      OBVIOUS
    <3>2. nx[u] \in S /\ rk[nx[u]] = rk[u] + 1 /\ rk[h] <= rk[u] /\ ny[u] = nx[u]
      BY <1>0, <1>1, <1>4, <3>1 DEF IsList
    <3>3. nx[u] # h
      BY <1>0, <1>1, <1>5, <3>2
    <3>4. QED
      BY <1>0, <3>2, <3>3
  <2>5. ny[l.tail] = NULL
    BY <1>0, <1>1, <1>4, <1>7
  <2>6. IsList(k, ny, S \ {h}, rk)
    BY <1>0, <1>1, <1>3, <1>4, <1>7, <2>1, <2>2, <2>3, <2>4, <2>5 DEF IsList
  <2>7. QED
    BY <1>0, <1>1, <1>3, <1>4, <2>6
<1>8. QED
  BY <1>0, <1>6, <1>7

-----------------------------------------------------------------------------
(* All lists together: the run queue holds the threads of R and the wait    *)
(* list of w those of Z[w]; no thread is on two of them.                    *)

Ordered(r, ws, nx, R, Z, rk) ==
  /\ IsList(r, nx, R, rk)
  /\ \A w \in Waitables : IsList(ws[w], nx, Z[w], rk)
  /\ \A w \in Waitables : R \cap Z[w] = {}
  /\ \A v, w \in Waitables : v # w => Z[v] \cap Z[w] = {}

WaitLists == [Waitables -> Lists]
Sleepers == [Waitables -> Groups]

InOrder(r, ws, nx, R, Z) ==
  \E rk \in Ranks : Ordered(r, ws, nx, R, Z, rk)

Unlisted(t, R, Z) == t \notin R /\ \A w \in Waitables : t \notin Z[w]

LEMMA RunPush ==
  ASSUME NEW r \in Lists, NEW ws \in WaitLists, NEW nx \in Links,
         NEW R \in Groups, NEW Z \in Sleepers, NEW t \in Threads,
         InOrder(r, ws, nx, R, Z), Unlisted(t, R, Z)
  PROVE  /\ InOrder(Push(r, nx, t).list, ws, Push(r, nx, t).next, R \cup {t}, Z)
         /\ Push(r, nx, t).list \in Lists /\ Push(r, nx, t).next \in Links
<1> DEFINE ny == Push(r, nx, t).next
<1>0. /\ r \in Lists /\ ws \in WaitLists /\ nx \in Links
      /\ R \in Groups /\ R \subseteq Threads /\ Z \in Sleepers
      /\ t \in Threads /\ t \notin R /\ \A w \in Waitables : t \notin Z[w]
  BY DEF Groups, Unlisted
<1>1. PICK rk \in Ranks : Ordered(r, ws, nx, R, Z, rk)
  BY DEF InOrder
<1> DEFINE rr == Behind(r, R, rk, t)
<1>2. IsList(r, nx, R, rk)
  BY <1>1 DEF Ordered
<1>3. /\ IsList(Push(r, nx, t).list, ny, R \cup {t}, rr)
      /\ rr \in Ranks /\ ny \in Links /\ Push(r, nx, t).list \in Lists
      /\ \A u \in Threads \ (R \cup {t}) : ny[u] = nx[u]
      /\ \A u \in Threads \ {t} : rr[u] = rk[u]
  BY <1>0, <1>2, PushAppends
<1>4. ASSUME NEW w \in Waitables
      PROVE  IsList(ws[w], ny, Z[w], rr) /\ (R \cup {t}) \cap Z[w] = {}
  <2>1. /\ IsList(ws[w], nx, Z[w], rk) /\ R \cap Z[w] = {} /\ t \notin Z[w]
        /\ ws[w] \in Lists /\ Z[w] \in Groups /\ Z[w] \subseteq Threads
    BY <1>0, <1>1 DEF Ordered, WaitLists, Sleepers, Groups
  <2>2. \A u \in Z[w] : ny[u] = nx[u] /\ rr[u] = rk[u]
    BY <1>3, <2>1
  <2>3. QED
    BY <1>0, <1>3, <2>1, <2>2, ListFrame
<1>5. Ordered(Push(r, nx, t).list, ws, ny, R \cup {t}, Z, rr)
  BY <1>1, <1>3, <1>4 DEF Ordered
<1>6. QED
  BY <1>0, <1>3, <1>5 DEF InOrder

LEMMA RunPop ==
  ASSUME NEW r \in Lists, NEW ws \in WaitLists, NEW nx \in Links,
         NEW R \in Groups, NEW Z \in Sleepers,
         InOrder(r, ws, nx, R, Z), r.head # NULL
  PROVE  /\ r.head \in R /\ r.head \in Threads
         /\ InOrder(Pop(r, nx).list, ws, Pop(r, nx).next, R \ {r.head}, Z)
         /\ Pop(r, nx).list \in Lists /\ Pop(r, nx).next \in Links
<1> DEFINE ny == Pop(r, nx).next
<1>0. /\ r \in Lists /\ ws \in WaitLists /\ nx \in Links
      /\ R \in Groups /\ R \subseteq Threads /\ Z \in Sleepers
  BY DEF Groups
<1>1. PICK rk \in Ranks : Ordered(r, ws, nx, R, Z, rk)
  BY DEF InOrder
<1>2. IsList(r, nx, R, rk)
  BY <1>1 DEF Ordered
<1>3. /\ r.head \in R /\ r.head \in Threads
      /\ IsList(Pop(r, nx).list, ny, R \ {r.head}, rk)
      /\ ny \in Links /\ Pop(r, nx).list \in Lists
      /\ \A u \in Threads \ {r.head} : ny[u] = nx[u]
  BY <1>0, <1>2, PopDrops
<1>4. ASSUME NEW w \in Waitables
      PROVE  IsList(ws[w], ny, Z[w], rk) /\ (R \ {r.head}) \cap Z[w] = {}
  <2>1. /\ IsList(ws[w], nx, Z[w], rk) /\ R \cap Z[w] = {}
        /\ ws[w] \in Lists /\ Z[w] \in Groups /\ Z[w] \subseteq Threads
    BY <1>0, <1>1 DEF Ordered, WaitLists, Sleepers, Groups
  <2>2. \A u \in Z[w] : ny[u] = nx[u] /\ rk[u] = rk[u]
    BY <1>3, <2>1
  <2>3. QED
    BY <1>0, <1>3, <2>1, <2>2, ListFrame
<1>5. Ordered(Pop(r, nx).list, ws, ny, R \ {r.head}, Z, rk)
  BY <1>1, <1>3, <1>4 DEF Ordered
<1>6. QED
  BY <1>0, <1>3, <1>5 DEF InOrder

LEMMA WaitPush ==
  ASSUME NEW r \in Lists, NEW ws \in WaitLists, NEW nx \in Links,
         NEW R \in Groups, NEW Z \in Sleepers, NEW t \in Threads,
         NEW x \in Waitables,
         InOrder(r, ws, nx, R, Z), Unlisted(t, R, Z)
  PROVE  /\ InOrder(r, [ws EXCEPT ![x] = Push(ws[x], nx, t).list],
                    Push(ws[x], nx, t).next, R, [Z EXCEPT ![x] = @ \cup {t}])
         /\ Push(ws[x], nx, t).list \in Lists /\ Push(ws[x], nx, t).next \in Links
<1> DEFINE ny == Push(ws[x], nx, t).next
           wt == [ws EXCEPT ![x] = Push(ws[x], nx, t).list]
           Y == [Z EXCEPT ![x] = @ \cup {t}]
<1>0. /\ r \in Lists /\ ws \in WaitLists /\ nx \in Links
      /\ R \in Groups /\ R \subseteq Threads /\ Z \in Sleepers
      /\ t \in Threads /\ t \notin R /\ \A w \in Waitables : t \notin Z[w]
  BY DEF Groups, Unlisted
<1>1. PICK rk \in Ranks : Ordered(r, ws, nx, R, Z, rk)
  BY DEF InOrder
<1> DEFINE rr == Behind(ws[x], Z[x], rk, t)
<1>2. /\ \A w \in Waitables : /\ IsList(ws[w], nx, Z[w], rk) /\ R \cap Z[w] = {}
                              /\ ws[w] \in Lists /\ Z[w] \in Groups /\ Z[w] \subseteq Threads
      /\ IsList(r, nx, R, rk)
  BY <1>0, <1>1 DEF Ordered, WaitLists, Sleepers, Groups
<1>3. /\ IsList(Push(ws[x], nx, t).list, ny, Z[x] \cup {t}, rr)
      /\ rr \in Ranks /\ ny \in Links /\ Push(ws[x], nx, t).list \in Lists
      /\ \A u \in Threads \ (Z[x] \cup {t}) : ny[u] = nx[u]
      /\ \A u \in Threads \ {t} : rr[u] = rk[u]
  <2>1. IsList(ws[x], nx, Z[x], rk) /\ t \notin Z[x]
    BY <1>0, <1>2
  <2>2. PICK l \in Lists, S \in Groups : l = ws[x] /\ S = Z[x]
    BY <1>2
  <2>3. IsList(l, nx, S, rk) /\ t \notin S
    BY <2>1, <2>2
  <2>4. /\ IsList(Push(l, nx, t).list, Push(l, nx, t).next, S \cup {t},
                  Behind(l, S, rk, t))
        /\ Push(l, nx, t).list \in Lists /\ Push(l, nx, t).next \in Links
        /\ Behind(l, S, rk, t) \in Ranks
        /\ \A u \in Threads \ (S \cup {t}) : Push(l, nx, t).next[u] = nx[u]
        /\ \A u \in Threads \ {t} : Behind(l, S, rk, t)[u] = rk[u]
    BY <2>3, PushAppends
  <2>5. QED
    BY <2>2, <2>4
<1>4. /\ wt[x] = Push(ws[x], nx, t).list /\ Y[x] = Z[x] \cup {t}
      /\ \A w \in Waitables \ {x} : wt[w] = ws[w] /\ Y[w] = Z[w]
  BY <1>0 DEF WaitLists, Sleepers
<1>5. IsList(r, ny, R, rr)
  <2>1. \A u \in R : ny[u] = nx[u] /\ rr[u] = rk[u]
    BY <1>0, <1>2, <1>3
  <2>2. QED
    BY <1>0, <1>2, <1>3, <2>1, ListFrame
<1>6. ASSUME NEW w \in Waitables
      PROVE  IsList(wt[w], ny, Y[w], rr) /\ R \cap Y[w] = {}
  <2>1. CASE w = x
    <3>1. wt[w] = Push(ws[x], nx, t).list /\ Y[w] = Z[x] \cup {t}
      BY <1>4, <2>1
    <3>2. IsList(wt[w], ny, Y[w], rr)
      BY <1>3, <3>1
    <3>3. R \cap Z[x] = {}
      BY <1>2
    <3>4. R \cap Y[w] = {}
      BY <1>0, <3>1, <3>3
    <3>5. QED
      BY <3>2, <3>4
  <2>2. CASE w # x
    <3>1. \A u \in Z[w] : ny[u] = nx[u] /\ rr[u] = rk[u]
      <4>1. Z[w] \cap Z[x] = {} /\ t \notin Z[w]
        BY <1>0, <1>1, <2>2 DEF Ordered
      <4>2. QED
        BY <1>0, <1>2, <1>3, <4>1
    <3>2. QED
      BY <1>0, <1>2, <1>3, <1>4, <2>2, <3>1, ListFrame
  <2>3. QED
    BY <2>1, <2>2
<1>6a. wt \in WaitLists /\ Y \in Sleepers
  BY <1>0, <1>2, <1>3 DEF WaitLists, Sleepers, Groups
<1>7. ASSUME NEW v \in Waitables, NEW w \in Waitables, v # w
      PROVE  Y[v] \cap Y[w] = {}
  <2>1. Z[v] \cap Z[w] = {} /\ t \notin Z[v] /\ t \notin Z[w]
    BY <1>0, <1>1, <1>7 DEF Ordered
  <2>2. Y[v] = Z[v] \/ (v = x /\ Y[v] = Z[v] \cup {t})
    BY <1>4
  <2>3. Y[w] = Z[w] \/ (w = x /\ Y[w] = Z[w] \cup {t})
    BY <1>4
  <2>4. QED
    BY <1>7, <2>1, <2>2, <2>3
<1>8. Ordered(r, wt, ny, R, Y, rr)
  BY <1>5, <1>6, <1>7 DEF Ordered
<1>9. QED
  BY <1>0, <1>3, <1>6a, <1>8 DEF InOrder

LEMMA WaitPop ==
  ASSUME NEW r \in Lists, NEW ws \in WaitLists, NEW nx \in Links,
         NEW R \in Groups, NEW Z \in Sleepers, NEW x \in Waitables,
         InOrder(r, ws, nx, R, Z), ws[x].head # NULL
  PROVE  /\ ws[x].head \in Z[x] /\ ws[x].head \in Threads
         /\ InOrder(r, [ws EXCEPT ![x] = Pop(ws[x], nx).list],
                    Pop(ws[x], nx).next, R, [Z EXCEPT ![x] = @ \ {ws[x].head}])
         /\ Pop(ws[x], nx).list \in Lists /\ Pop(ws[x], nx).next \in Links
<1> DEFINE ny == Pop(ws[x], nx).next
           wt == [ws EXCEPT ![x] = Pop(ws[x], nx).list]
           Y == [Z EXCEPT ![x] = @ \ {ws[x].head}]
<1>0. /\ r \in Lists /\ ws \in WaitLists /\ nx \in Links
      /\ R \in Groups /\ R \subseteq Threads /\ Z \in Sleepers
  BY DEF Groups
<1>1. PICK rk \in Ranks : Ordered(r, ws, nx, R, Z, rk)
  BY DEF InOrder
<1>2. /\ \A w \in Waitables : /\ IsList(ws[w], nx, Z[w], rk) /\ R \cap Z[w] = {}
                              /\ ws[w] \in Lists /\ Z[w] \in Groups /\ Z[w] \subseteq Threads
      /\ IsList(r, nx, R, rk)
  BY <1>0, <1>1 DEF Ordered, WaitLists, Sleepers, Groups
<1>3. /\ ws[x].head \in Z[x] /\ ws[x].head \in Threads
      /\ IsList(Pop(ws[x], nx).list, ny, Z[x] \ {ws[x].head}, rk)
      /\ ny \in Links /\ Pop(ws[x], nx).list \in Lists
      /\ \A u \in Threads \ {ws[x].head} : ny[u] = nx[u]
  <2>1. /\ ws[x] \in Lists /\ Z[x] \in Groups
        /\ IsList(ws[x], nx, Z[x], rk)
    BY <1>2
  <2>2. QED
    BY <2>1, PopDrops
<1>4. /\ wt[x] = Pop(ws[x], nx).list /\ Y[x] = Z[x] \ {ws[x].head}
      /\ \A w \in Waitables \ {x} : wt[w] = ws[w] /\ Y[w] = Z[w]
  BY <1>0 DEF WaitLists, Sleepers
<1>5. IsList(r, ny, R, rk)
  <2>1. \A u \in R : ny[u] = nx[u] /\ rk[u] = rk[u]
    BY <1>0, <1>2, <1>3
  <2>2. QED
    BY <1>0, <1>2, <1>3, <2>1, ListFrame
<1>6. ASSUME NEW w \in Waitables
      PROVE  IsList(wt[w], ny, Y[w], rk) /\ R \cap Y[w] = {}
  <2>1. CASE w = x
    BY <1>2, <1>3, <1>4, <2>1
  <2>2. CASE w # x
    <3>1. \A u \in Z[w] : ny[u] = nx[u] /\ rk[u] = rk[u]
      <4>1. Z[w] \cap Z[x] = {}
        BY <1>0, <1>1, <2>2 DEF Ordered
      <4>2. QED
        BY <1>0, <1>2, <1>3, <4>1
    <3>2. QED
      BY <1>0, <1>2, <1>3, <1>4, <2>2, <3>1, ListFrame
  <2>3. QED
    BY <2>1, <2>2
<1>6a. wt \in WaitLists /\ Y \in Sleepers
  BY <1>0, <1>2, <1>3 DEF WaitLists, Sleepers, Groups
<1>7. \A v, w \in Waitables : v # w => Y[v] \cap Y[w] = {}
  BY <1>1, <1>4 DEF Ordered
<1>8. Ordered(r, wt, ny, R, Y, rk)
  BY <1>5, <1>6, <1>7 DEF Ordered
<1>9. QED
  BY <1>0, <1>3, <1>6a, <1>8 DEF InOrder

-----------------------------------------------------------------------------
(* The run queue holds the READY threads that are not in the making, the    *)
(* wait list of w those that sleep for w.                                   *)

Ready(st, p) == {t \in Threads : st[t] = "READY" /\ p[t] # "made"}
Asleep(st, ob) ==
  [w \in Waitables |-> {t \in Threads : st[t] = "SLEEPING" /\ ob[t] = w}]

QueueInv == InOrder(run, wait, next, Ready(state, pc), Asleep(state, obj))

States == [Threads -> ThreadStates]
Places == [Contexts -> Threads \cup Waitables \cup {NULL}]
PcFuns == [Contexts -> Labels]

(* A thread in the making has not run yet.                                  *)
Unmade(st, p) == \A t \in Threads : p[t] = "made" => st[t] \in {"UNUSED", "READY"}

(* What a switch does to the threads and to the processor.                  *)
Switched(st, pcs, n) ==
  /\ n \in Threads /\ st[n] = "READY" /\ pcs[n] # "made"
  /\ current' = n /\ cpu' = n
  /\ state'[n] = "RUNNING"
  /\ \A t \in Threads \ {n} :
       state'[t] = IF t = current /\ st[t] = "RUNNING" THEN "READY" ELSE st[t]
  /\ pc' = IF pcs[n] = "new" THEN [pcs EXCEPT ![n] = "run"] ELSE pcs

LEMMA ScheduleEffect ==
  ASSUME NEW st \in States, NEW nx \in Links, NEW pcs \in PcFuns, NEW ob \in Places,
         NEW ws \in WaitLists,
         run \in Lists, current \in Threads \cup {NULL},
         InOrder(run, ws, nx, Ready(st, pcs), Asleep(st, ob)), Unmade(st, pcs),
         Schedule(st, nx, pcs)
  PROVE  /\ state' \in States /\ next' \in Links /\ run' \in Lists
         /\ InOrder(run', ws, next', Ready(state', pc'), Asleep(state', ob))
         /\ \/ /\ run.head = NULL /\ Ready(st, pcs) = {}
               /\ state' = st /\ pc' = pcs
               /\ UNCHANGED <<current, cpu>>
            \/ run.head # NULL /\ Switched(st, pcs, run.head)
<1>1. Ready(st, pcs) \in Groups /\ Asleep(st, ob) \in Sleepers
  BY DEF Ready, Asleep, Sleepers, Groups
<1>2. CASE run.head = NULL
  <2>1. /\ state' = st /\ next' = nx /\ pc' = pcs
        /\ UNCHANGED <<run, current, cpu>>
    BY <1>2 DEF Schedule
  <2>2. Ready(st, pcs) = {}
    <3>1. PICK rk \in Ranks : IsList(run, nx, Ready(st, pcs), rk)
      BY DEF InOrder, Ordered
    <3>2. NULL \notin Threads
      BY ConstantsAssumption
    <3>3. QED
      BY <1>1, <1>2, <3>1, <3>2 DEF IsList, Groups
  <2>3. QED
    BY <1>2, <2>1, <2>2
<1>3. CASE run.head # NULL
  <2> DEFINE n == run.head
             popped == Pop(run, nx)
             pushed == Push(popped.list, popped.next, current)
  <2>1. /\ n \in Ready(st, pcs) /\ n \in Threads
        /\ InOrder(popped.list, ws, popped.next, Ready(st, pcs) \ {n}, Asleep(st, ob))
        /\ popped.list \in Lists /\ popped.next \in Links
    BY <1>1, <1>3, RunPop, Zenon
  <2>2. /\ run' = IF Requeues(st) THEN pushed.list ELSE popped.list
        /\ next' = IF Requeues(st) THEN pushed.next ELSE popped.next
        /\ state' = [t \in Threads |->
                       IF t = n THEN "RUNNING"
                       ELSE IF t = current /\ Requeues(st) THEN "READY"
                       ELSE st[t]]
        /\ current' = n /\ cpu' = n
        /\ pc' = IF pcs[n] = "new" THEN [pcs EXCEPT ![n] = "run"] ELSE pcs
    BY <1>3 DEF Schedule
  <2>3. st[n] = "READY" /\ pcs[n] # "made"
    BY <2>1 DEF Ready
  <2>3a. \A t \in Threads : pc'[t] = "made" <=> pcs[t] = "made"
    BY <2>1, <2>2, <2>3 DEF PcFuns, Contexts
  <2>4. NULL \notin Threads
    BY ConstantsAssumption
  <2>5. Switched(st, pcs, n)
    BY <2>1, <2>2, <2>3, <2>4 DEF Switched, Requeues
  <2>6. state' \in States
    BY <2>2 DEF States, ThreadStates
  <2>7. Asleep(state', ob) = Asleep(st, ob)
    BY <2>2, <2>3 DEF Asleep, Requeues
  <2>8. CASE Requeues(st)
    <3>1. current \in Threads /\ st[current] = "RUNNING" /\ pcs[current] # "made"
      BY <2>8 DEF Requeues, Unmade
    <3>2. Unlisted(current, Ready(st, pcs) \ {n}, Asleep(st, ob))
      BY <3>1 DEF Ready, Asleep, Unlisted
    <3>3. Ready(st, pcs) \ {n} \in Groups
      BY DEF Ready, Groups
    <3>4. /\ InOrder(pushed.list, ws, pushed.next,
                     (Ready(st, pcs) \ {n}) \cup {current}, Asleep(st, ob))
          /\ pushed.list \in Lists /\ pushed.next \in Links
      BY <1>1, <2>1, <3>1, <3>2, <3>3, RunPush
    <3>5. Ready(state', pc') = (Ready(st, pcs) \ {n}) \cup {current}
      BY <2>2, <2>3, <2>3a, <2>8, <3>1 DEF Ready
    <3>6. QED
      BY <1>3, <2>2, <2>5, <2>6, <2>7, <2>8, <3>3, <3>4, <3>5
  <2>9. CASE ~Requeues(st)
    <3>1. Ready(state', pc') = Ready(st, pcs) \ {n}
      BY <2>2, <2>3a, <2>9 DEF Ready
    <3>2. QED
      BY <1>3, <2>1, <2>2, <2>5, <2>6, <2>7, <2>9, <3>1
  <2>10. QED
    BY <2>8, <2>9
<1>4. QED
  BY <1>2, <1>3

(* mutex_unlock and sem_post: the first waiter becomes READY.               *)
LEMMA WakeEffect ==
  ASSUME NEW x \in Waitables, wait[x].head # NULL,
         run \in Lists, next \in Links, wait \in WaitLists,
         state \in States, obj \in Places, QueueInv, Unmade(state, pc),
         Wake(x), obj' = obj, pc' = pc
  PROVE  /\ run' \in Lists /\ next' \in Links /\ wait' \in WaitLists
         /\ state' \in States /\ QueueInv'
         /\ wait[x].head \in Threads
         /\ state[wait[x].head] = "SLEEPING" /\ obj[wait[x].head] = x
         /\ state' = [state EXCEPT ![wait[x].head] = "READY"]
<1> DEFINE t == wait[x].head
           R == Ready(state, pc)
           Z == Asleep(state, obj)
           popped == Pop(wait[x], next)
           wt == [wait EXCEPT ![x] = popped.list]
           Y == [Z EXCEPT ![x] = @ \ {t}]
           pushed == Push(run, popped.next, t)
<1>1. R \in Groups /\ Z \in Sleepers /\ Y \in Sleepers
  BY DEF Ready, Asleep, Sleepers, Groups
<1>2. /\ t \in Z[x] /\ t \in Threads
      /\ InOrder(run, wt, popped.next, R, Y)
      /\ popped.list \in Lists /\ popped.next \in Links
  BY <1>1, WaitPop DEF QueueInv
<1>3. wt \in WaitLists
  BY <1>2 DEF WaitLists
<1>4. state[t] = "SLEEPING" /\ obj[t] = x /\ pc[t] # "made"
  BY <1>2 DEF Asleep, Unmade
<1>5. /\ run' = pushed.list /\ next' = pushed.next /\ wait' = wt
      /\ state' = [state EXCEPT ![t] = "READY"]
  BY DEF Wake
<1>6. Unlisted(t, R, Y)
  BY <1>2, <1>4 DEF Ready, Asleep, Unlisted
<1>7. /\ InOrder(pushed.list, wt, pushed.next, R \cup {t}, Y)
      /\ pushed.list \in Lists /\ pushed.next \in Links
  BY <1>1, <1>2, <1>3, <1>6, RunPush
<1>8. Ready(state', pc') = R \cup {t}
  BY <1>2, <1>4, <1>5 DEF Ready, States
<1>9. Asleep(state', obj') = Y
  BY <1>2, <1>4, <1>5 DEF Asleep, States
<1>10. state' \in States
  BY <1>5 DEF States, ThreadStates
<1>11. QED
  BY <1>2, <1>3, <1>4, <1>5, <1>7, <1>8, <1>9, <1>10 DEF QueueInv

(* mutex_lock and sem_wait: the caller leaves RUNNING for the wait list of  *)
(* w, and since another thread is READY the processor goes to that one.     *)
Sleeping(c) == [state EXCEPT ![c] = "SLEEPING"]

LEMMA BlockEffect ==
  ASSUME NEW c \in Threads, NEW x \in Waitables, NEW label \in {"lock", "wait"},
         current = c, state[c] = "RUNNING", Ready(state, pc) # {},
         run \in Lists, next \in Links, wait \in WaitLists,
         state \in States, obj \in Places, pc \in PcFuns, QueueInv,
         Unmade(state, pc), Block(c, x, label)
  PROVE  /\ run' \in Lists /\ next' \in Links /\ wait' \in WaitLists
         /\ state' \in States /\ obj' \in Places /\ QueueInv'
         /\ \A w \in Waitables \ {x} : wait'[w] = wait[w]
         /\ obj' = [obj EXCEPT ![c] = x]
         /\ Switched(Sleeping(c), Goto(c, label), run.head)
<1> DEFINE st == Sleeping(c)
           p == Goto(c, label)
           pushed == Push(wait[x], next, c)
           wt == [wait EXCEPT ![x] = pushed.list]
           Y == [Asleep(state, obj) EXCEPT ![x] = @ \cup {c}]
<1>1. /\ Ready(state, pc) \in Groups
      /\ Asleep(state, obj) \in Sleepers /\ Y \in Sleepers
  BY DEF Ready, Asleep, Sleepers, Groups
<1>2. Unlisted(c, Ready(state, pc), Asleep(state, obj))
  BY DEF Ready, Asleep, Unlisted
<1>3. /\ InOrder(run, wt, pushed.next, Ready(state, pc), Y)
      /\ pushed.list \in Lists /\ pushed.next \in Links
  BY <1>1, <1>2, WaitPush DEF QueueInv
<1>4. /\ wait' = wt /\ obj' = [obj EXCEPT ![c] = x]
      /\ Schedule(st, pushed.next, p)
  BY DEF Block, Sleeping
<1>5. wt \in WaitLists /\ \A w \in Waitables \ {x} : wt[w] = wait[w]
  BY <1>3 DEF WaitLists
<1>6. obj' \in Places /\ c \in Contexts
  BY <1>4 DEF Places, Contexts
<1>7. st \in States /\ p \in PcFuns /\ Unmade(st, p) /\ Ready(st, p) = Ready(state, pc)
  <2>1. st \in States /\ p \in PcFuns
    BY DEF Sleeping, States, ThreadStates, Goto, PcFuns, Labels
  <2>2. /\ st[c] = "SLEEPING" /\ \A t \in Threads \ {c} : st[t] = state[t] /\ p[t] = pc[t]
        /\ p[c] = label
    BY <1>6 DEF Sleeping, States, Goto, PcFuns, Contexts
  <2>3. QED
    BY <2>1, <2>2 DEF Ready, Unmade
<1>8. Asleep(st, obj') = Y
  <2>1. /\ st[c] = "SLEEPING" /\ obj'[c] = x
        /\ \A t \in Threads \ {c} : st[t] = state[t] /\ obj'[t] = obj[t]
    BY <1>4, <1>6 DEF Sleeping, States, Places, Contexts
  <2>2. ASSUME NEW w \in Waitables
        PROVE  Asleep(st, obj')[w] = Y[w]
    <3>1. /\ Y[w] = Asleep(state, obj)[w] \cup (IF w = x THEN {c} ELSE {})
          /\ \A t \in Threads :
               t \in Asleep(state, obj)[w] <=> state[t] = "SLEEPING" /\ obj[t] = w
          /\ \A t \in Threads :
               t \in Asleep(st, obj')[w] <=> st[t] = "SLEEPING" /\ obj'[t] = w
          /\ Asleep(st, obj')[w] \subseteq Threads
          /\ Asleep(state, obj)[w] \subseteq Threads
      BY DEF Asleep
    <3> HIDE DEF st, Y
    <3>2. CASE w = x
      <4>1. \A t \in Threads : t \in Asleep(st, obj')[w] <=> t \in Y[w]
        BY <2>1, <3>1, <3>2
      <4>2. Y[w] \subseteq Threads
        BY <3>1, <3>2
      <4>3. QED
        BY <3>1, <4>1, <4>2
    <3>3. CASE w # x
      <4>1. \A t \in Threads : t \in Asleep(st, obj')[w] <=> t \in Y[w]
        BY <2>1, <3>1, <3>3
      <4>2. Y[w] \subseteq Threads
        BY <3>1, <3>3
      <4>3. QED
        BY <3>1, <4>1, <4>2
    <3>4. QED
      BY <3>2, <3>3
  <2>3. QED
    BY <1>1, <2>2 DEF Asleep
<1>9. InOrder(run, wt, pushed.next, Ready(st, p), Asleep(st, obj'))
  BY <1>3, <1>7, <1>8
<1>10. /\ state' \in States /\ next' \in Links /\ run' \in Lists
       /\ InOrder(run', wt, next', Ready(state', pc'), Asleep(state', obj'))
       /\ Switched(st, p, run.head)
  <2>1. current \in Threads \cup {NULL}
    OBVIOUS
  <2>2. PICK ob \in Places : ob = obj'
    BY <1>6
  <2>3. Ready(st, p) # {}
    BY <1>7
  <2>4. /\ state' \in States /\ next' \in Links /\ run' \in Lists
        /\ InOrder(run', wt, next', Ready(state', pc'), Asleep(state', ob))
        /\ \/ Ready(st, p) = {}
           \/ Switched(st, p, run.head)
    BY <1>3, <1>4, <1>5, <1>7, <1>9, <2>1, <2>2, ScheduleEffect
  <2>5. QED
    BY <2>2, <2>3, <2>4
<1>11. QED
  BY <1>4, <1>5, <1>6, <1>10 DEF QueueInv

-----------------------------------------------------------------------------
(* The invariant.  Its parts take the state they speak of as arguments, so  *)
(* that they can also be said of the state in which schedule() is called.   *)

Exiting == {"free", "detach", "leave", "spin"}
Creating == {"store", "enqueue"}
Executing == {"run", "yield"} \cup Creating

(* Where a thread can be in each of its states.                             *)
Placed(st, p, ob, hs, t) ==
  /\ p[t] = "none" => st[t] = "UNUSED"
  /\ p[t] = "made" => st[t] \in {"UNUSED", "READY"}
  /\ p[t] = "new" => st[t] = "READY"
  /\ st[t] = "UNUSED" => p[t] \in {"none", "made"}
  /\ st[t] = "SLEEPING" => p[t] \in {"lock", "wait"}
  /\ st[t] = "ZOMBIE" <=> p[t] \in Exiting
  /\ p[t] = "lock" => ob[t] \in Mutexes
  /\ p[t] = "wait" => ob[t] \in Sems /\ t \notin Resident
  /\ t \in Resident => p[t] \notin Exiting
  /\ hs[t] # {} => p[t] \in Executing

PlaceInv ==
  /\ pc[Boot] \in Executing
  /\ \A t \in Threads : Placed(state, pc, obj, holds, t)

(* A creator works on a thread of its own that nobody else knows of yet.    *)
Creation(st, p, ob, c) ==
  p[c] \in Creating =>
    /\ ob[c] \in Threads /\ p[ob[c]] = "made"
    /\ st[ob[c]] = IF p[c] = "store" THEN "UNUSED" ELSE "READY"
    /\ \A d \in Contexts \ {c} : p[d] \in Creating => ob[d] # ob[c]

CreateInv == \A c \in Contexts : Creation(state, pc, obj, c)

(* Only the current thread is RUNNING, and the processor executes it; there *)
(* is no current thread before the first switch and at the end of an exit.  *)
OnlyRunning(st) == \A t \in Threads : st[t] = "RUNNING" => t = current

CpuInv ==
  /\ OnlyRunning(state)
  /\ current # NULL => cpu = current /\ state[current] \in {"RUNNING", "ZOMBIE"}
  /\ current = NULL => cpu = Boot \/ pc[cpu] \in {"leave", "spin"}

MutexInv == MutualExclusion /\ LockAccounted

IInv == TypeOK /\ QueueInv /\ PlaceInv /\ CreateInv /\ CpuInv /\ MutexInv

LEMMA Types ==
  ASSUME TypeOK
  PROVE  /\ state \in States /\ next \in Links /\ run \in Lists
         /\ wait \in WaitLists /\ obj \in Places /\ pc \in PcFuns
         /\ current \in Threads \cup {NULL}
  BY DEF TypeOK, States, Links, WaitLists, Places, PcFuns

(* A switch keeps every thread in its place.                                *)
LEMMA SwitchPlaces ==
  ASSUME NEW st \in States, NEW p \in PcFuns, NEW ob, NEW hs, NEW n,
         p[Boot] \in Executing, \A t \in Threads : Placed(st, p, ob, hs, t),
         Switched(st, p, n)
  PROVE  /\ pc' \in PcFuns /\ pc'[Boot] \in Executing
         /\ \A t \in Threads : Placed(state', pc', ob, hs, t)
<1>1. n \in Threads /\ n \in Contexts /\ n # Boot
  BY ConstantsAssumption DEF Switched, Contexts
<1>2. pc' \in PcFuns
  BY <1>1 DEF Switched, PcFuns, Labels
<1>3. /\ p[n] # "new" => pc' = p
      /\ p[n] = "new" => pc'[n] = "run"
      /\ \A c \in Contexts \ {n} : pc'[c] = p[c]
  BY <1>1 DEF Switched, PcFuns
<1>4. pc'[Boot] = p[Boot]
  BY <1>1, <1>3 DEF Contexts
<1>5. Placed(state', pc', ob, hs, n)
  <2>1. Placed(st, p, ob, hs, n) /\ st[n] = "READY" /\ state'[n] = "RUNNING"
    BY <1>1 DEF Switched
  <2>2. CASE p[n] = "new"
    BY <1>3, <2>1, <2>2 DEF Placed, Exiting, Executing
  <2>3. CASE p[n] # "new"
    <3>1. p[n] # "made"
      BY DEF Switched
    <3>2. QED
      BY <1>3, <2>1, <2>3, <3>1 DEF Placed
  <2>4. QED
    BY <2>2, <2>3
<1>6. ASSUME NEW t \in Threads, t # n
      PROVE  Placed(state', pc', ob, hs, t)
  <2>1. Placed(st, p, ob, hs, t) /\ pc'[t] = p[t]
    BY <1>3, <1>6 DEF Contexts
  <2>2. state'[t] = st[t] \/ (st[t] = "RUNNING" /\ state'[t] = "READY")
    BY <1>6 DEF Switched
  <2>3. QED
    BY <2>1, <2>2 DEF Placed
<1>7. QED
  BY <1>2, <1>4, <1>5, <1>6

LEMMA SwitchCreation ==
  ASSUME NEW st \in States, NEW p \in PcFuns, NEW ob, NEW n,
         \A c \in Contexts : Creation(st, p, ob, c), Switched(st, p, n)
  PROVE  \A c \in Contexts : Creation(state', pc', ob, c)
<1>1. n \in Threads /\ n \in Contexts /\ p[n] # "made"
  BY DEF Switched, Contexts
<1>2. \A c \in Contexts : pc'[c] = p[c] \/ (p[c] = "new" /\ pc'[c] = "run" /\ c = n)
  BY <1>1 DEF Switched, PcFuns
<1>3. \A t \in Threads :
        p[t] = "made" /\ st[t] # "RUNNING" => state'[t] = st[t] /\ pc'[t] = "made"
  BY <1>1, <1>2 DEF Switched, Contexts
<1>4. QED
  <2>1. SUFFICES ASSUME NEW c \in Contexts, pc'[c] \in Creating
                 PROVE  Creation(state', pc', ob, c)
    BY DEF Creation
  <2>2. p[c] \in Creating /\ pc'[c] = p[c]
    BY <1>2, <2>1 DEF Creating
  <2>3. /\ ob[c] \in Threads /\ p[ob[c]] = "made"
        /\ st[ob[c]] = IF p[c] = "store" THEN "UNUSED" ELSE "READY"
    BY <2>2 DEF Creation
  <2>4. pc'[ob[c]] = "made" /\ state'[ob[c]] = st[ob[c]]
    BY <1>3, <2>3
  <2>5. ASSUME NEW d \in Contexts \ {c}, pc'[d] \in Creating
        PROVE  ob[d] # ob[c]
    <3>1. p[d] \in Creating
      BY <1>2, <2>5 DEF Creating
    <3>2. QED
      BY <2>2, <3>1 DEF Creation
  <2>6. QED
    BY <2>2, <2>3, <2>4, <2>5 DEF Creation

LEMMA SwitchCpu ==
  ASSUME NEW st, NEW p, NEW n, OnlyRunning(st), Switched(st, p, n)
  PROVE  CpuInv'
<1>1. n \in Threads /\ n # NULL
  BY ConstantsAssumption DEF Switched
<1>2. \A t \in Threads : state'[t] = "RUNNING" => t = n
  BY DEF Switched, OnlyRunning
<1>3. QED
  BY <1>1, <1>2 DEF Switched, CpuInv, OnlyRunning

(* What the mutexes see of a step.                                          *)
LEMMA MutexFrame ==
  ASSUME MutexInv, locked' = locked,
         \A t \in Threads, m \in Mutexes : Owns(t, m)' <=> Owns(t, m),
         \A m \in Mutexes :
           wait'[m].head # NULL => wait[m].head # NULL \/ locked[m]
  PROVE  MutexInv'
<1>1. MutualExclusion'
  BY DEF MutexInv, MutualExclusion
<1>2. LockAccounted'
  BY DEF MutexInv, LockAccounted
<1>3. QED
  BY <1>1, <1>2 DEF MutexInv

-----------------------------------------------------------------------------
(* The context the processor executes is the current thread, and RUNNING    *)
(* until thread_exit makes it a zombie.                                     *)
LEMMA Runner ==
  ASSUME IInv, NEW c \in Threads, NEW label \in Labels, Runs(c, label),
         label \notin {"leave", "spin"}
  PROVE  /\ current = c
         /\ label \notin Exiting => state[c] = "RUNNING"
         /\ label \in Exiting => state[c] = "ZOMBIE"
<1>1. c # Boot /\ c # NULL
  BY ConstantsAssumption
<1>2. current = c /\ state[c] \in {"RUNNING", "ZOMBIE"}
  BY <1>1 DEF IInv, CpuInv, Runs
<1>3. Placed(state, pc, obj, holds, c)
  BY DEF IInv, PlaceInv
<1>4. QED
  BY <1>2, <1>3 DEF Placed, Runs

(* Some thread other than c is READY while c runs and the mutex m is owned. *)
LEMMA OwnerReady ==
  ASSUME IInv, NEW c \in Threads, Runs(c, "run"), holds[c] = {},
         NEW m \in Mutexes, locked[m]
  PROVE  Ready(state, pc) # {}
<1>1. PICK t \in Threads : Owns(t, m)
  BY DEF IInv, MutexInv, LockAccounted
<1>2. t # c
  BY <1>1 DEF Owns, Runs
<1>3. current = c
  BY Runner DEF Labels
<1>4. Placed(state, pc, obj, holds, t) /\ (state[t] = "RUNNING" => t = current)
  BY DEF IInv, PlaceInv, CpuInv, OnlyRunning
<1>5. pc[t] \in Executing \cup {"lock"} /\ state[t] # "SLEEPING"
  BY <1>1, <1>4 DEF Owns, Placed, Executing, Creating
<1>6. state[t] \notin {"UNUSED", "ZOMBIE", "RUNNING"}
  BY <1>2, <1>3, <1>4, <1>5 DEF Placed, Executing, Creating, Exiting
<1>7. state[t] = "READY" /\ pc[t] # "made"
  BY <1>5, <1>6, Types DEF IInv, States, ThreadStates, Executing, Creating
<1>8. QED
  BY <1>7 DEF Ready

(* So is one while c is about to wait on a semaphore: a resident is READY   *)
(* itself, or it sleeps for a mutex whose owner is.                         *)
LEMMA ResidentReady ==
  ASSUME IInv, NeedResident, NEW c \in Threads, Runs(c, "run"), MayWait(c)
  PROVE  Ready(state, pc) # {}
<1>1. PICK r \in Resident : r \in Threads /\ pc[r] \notin {"none", "made"}
  BY ConstantsAssumption DEF MayWait, Enqueued
<1>2. r # c /\ holds[c] = {}
  BY <1>1 DEF MayWait
<1>3. current = c
  BY Runner DEF Labels
<1>4. Placed(state, pc, obj, holds, r) /\ (state[r] = "RUNNING" => r = current)
  BY <1>1 DEF IInv, PlaceInv, CpuInv, OnlyRunning
<1>5. state[r] \in {"READY", "SLEEPING"}
  <2>1. state[r] \notin {"UNUSED", "RUNNING", "ZOMBIE"}
    BY <1>1, <1>2, <1>3, <1>4 DEF Placed
  <2>2. QED
    BY <1>1, <2>1, Types DEF IInv, States, ThreadStates
<1>6. CASE state[r] = "READY"
  BY <1>1, <1>6 DEF Ready
<1>7. CASE state[r] = "SLEEPING"
  <2>1. pc[r] = "lock" /\ obj[r] \in Mutexes
    BY <1>1, <1>4, <1>7 DEF Placed
  <2>2. PICK m \in Mutexes : m = obj[r]
    BY <2>1
  <2>3. m \in Waitables /\ r \in Asleep(state, obj)[m]
    BY <1>1, <1>7, <2>2 DEF Asleep, Waitables
  <2>4. wait[m].head # NULL
    <3>1. PICK rk \in Ranks : IsList(wait[m], next, Asleep(state, obj)[m], rk)
      BY <2>3 DEF IInv, QueueInv, InOrder, Ordered
    <3>2. wait[m].head \in Threads
      BY <2>3, <3>1 DEF IsList, Asleep
    <3>3. QED
      BY <3>2, ConstantsAssumption
  <2>5. locked[m]
    BY <2>4 DEF IInv, MutexInv, LockAccounted
  <2>6. QED
    BY <1>2, <2>5, OwnerReady
<1>8. QED
  BY <1>5, <1>6, <1>7

(* A switch disturbs nothing that the owners of mutexes depend on.          *)
LEMMA SwitchOwns ==
  ASSUME NEW st \in States, NEW p \in PcFuns, NEW n, Switched(st, p, n)
  PROVE  \A t \in Threads :
           /\ pc'[t] = "lock" <=> p[t] = "lock"
           /\ state'[t] = "SLEEPING" <=> st[t] = "SLEEPING"
  BY DEF Switched, PcFuns, Contexts

(* The threads at the place l are those there now.                          *)
SameAt(p, l) == \A t \in Threads : p[t] = l <=> pc[t] = l

(* A step that is a schedule() with threads and links as they are.          *)
LEMMA SwitchStep ==
  ASSUME IInv, NEW p \in PcFuns, Schedule(state, next, p),
         UNCHANGED <<wait, obj, holds, locked>>,
         p[Boot] \in Executing,
         \A t \in Threads : Placed(state, p, obj, holds, t),
         \A c \in Contexts : Creation(state, p, obj, c),
         SameAt(p, "lock") /\ SameAt(p, "made"),
         UNCHANGED <<current, cpu, state>> /\ pc' = p => CpuInv'
  PROVE  /\ QueueInv' /\ PlaceInv' /\ CreateInv' /\ CpuInv' /\ MutexInv'
         /\ state' \in States /\ next' \in Links /\ run' \in Lists
         /\ pc' \in PcFuns
         /\ current' \in Threads \cup {NULL}
         /\ cpu' \in Contexts
<1>1. /\ state \in States /\ next \in Links /\ run \in Lists
      /\ wait \in WaitLists /\ obj \in Places /\ pc \in PcFuns
      /\ current \in Threads \cup {NULL}
  BY Types DEF IInv
<1>2. InOrder(run, wait, next, Ready(state, p), Asleep(state, obj))
  <2>1. Ready(state, p) = Ready(state, pc)
    BY DEF Ready, SameAt
  <2>2. QED
    BY <2>1 DEF IInv, QueueInv
<1>2a. Unmade(state, p)
  BY DEF Placed, Unmade
<1>3. /\ state' \in States /\ next' \in Links /\ run' \in Lists
      /\ InOrder(run', wait, next', Ready(state', pc'), Asleep(state', obj))
      /\ \/ /\ state' = state /\ pc' = p
            /\ UNCHANGED <<current, cpu>>
         \/ Switched(state, p, run.head)
  BY <1>1, <1>2, <1>2a, ScheduleEffect
<1>4. QueueInv'
  BY <1>3 DEF QueueInv
<1>5. CASE state' = state /\ pc' = p /\ UNCHANGED <<current, cpu>>
  <2>1. PlaceInv' /\ CreateInv' /\ CpuInv'
    BY <1>5 DEF PlaceInv, CreateInv
  <2>2. \A t \in Threads, m \in Mutexes : Owns(t, m)' <=> Owns(t, m)
    BY <1>5 DEF Owns, SameAt
  <2>3. MutexInv'
    BY <2>2, MutexFrame DEF IInv
  <2>4. cpu' \in Contexts
    BY <1>5 DEF IInv, TypeOK
  <2>5. QED
    BY <1>1, <1>3, <1>4, <1>5, <2>1, <2>3, <2>4
<1>6. CASE Switched(state, p, run.head)
  <2>1. PlaceInv' /\ pc' \in PcFuns
    BY <1>1, <1>6, SwitchPlaces DEF PlaceInv
  <2>2. CreateInv'
    BY <1>1, <1>6, SwitchCreation DEF CreateInv
  <2>3. CpuInv'
    BY <1>6, SwitchCpu DEF IInv, CpuInv
  <2>4. \A t \in Threads, m \in Mutexes : Owns(t, m)' <=> Owns(t, m)
    BY <1>1, <1>6, SwitchOwns DEF Owns, SameAt
  <2>5. MutexInv'
    BY <2>4, MutexFrame DEF IInv
  <2>6. current' \in Threads \cup {NULL} /\ cpu' \in Contexts
    BY <1>6 DEF Switched, Contexts
  <2>7. QED
    BY <1>3, <1>4, <2>1, <2>2, <2>3, <2>5, <2>6
<1>7. QED
  BY <1>3, <1>5, <1>6

(* What the lists see of a step that pushes and pops nothing.               *)
SameMade == \A t \in Threads : pc'[t] = "made" <=> pc[t] = "made"

LEMMA QueueFrame ==
  ASSUME QueueInv, SameMade, UNCHANGED <<state, run, next, wait, obj>>
  PROVE  QueueInv'
<1>1. Ready(state', pc') = Ready(state, pc)
  BY DEF Ready, SameMade
<1>2. QED
  BY <1>1 DEF QueueInv

-----------------------------------------------------------------------------
(* Each action keeps the invariant.                                         *)

LEMMA TickStep ==
  ASSUME IInv, Tick
  PROVE  IInv'
<1>1. pc \in PcFuns
  BY Types DEF IInv
<1>2. /\ Schedule(state, next, pc) /\ run.head # NULL
      /\ UNCHANGED <<wait, obj, threadVars, syncVars>>
  BY DEF Tick
<1>3. /\ pc[Boot] \in Executing
      /\ \A t \in Threads : Placed(state, pc, obj, holds, t)
      /\ \A c \in Contexts : Creation(state, pc, obj, c)
  BY DEF IInv, PlaceInv, CreateInv
<1>4. UNCHANGED <<current, cpu, state>> /\ pc' = pc => CpuInv'
  BY DEF IInv, CpuInv, OnlyRunning
<1>5. /\ QueueInv' /\ PlaceInv' /\ CreateInv' /\ CpuInv' /\ MutexInv'
      /\ state' \in States /\ next' \in Links /\ run' \in Lists
      /\ pc' \in PcFuns /\ current' \in Threads \cup {NULL} /\ cpu' \in Contexts
  BY <1>1, <1>2, <1>3, <1>4, SwitchStep DEF syncVars, SameAt
<1>6. TypeOK'
  BY <1>2, <1>5 DEF IInv, TypeOK, States, Links, PcFuns, threadVars, syncVars
<1>7. QED
  BY <1>5, <1>6 DEF IInv

LEMMA YieldCheckStep ==
  ASSUME IInv, NEW c \in Contexts, YieldCheck(c)
  PROVE  IInv'
<1>1. /\ pc[c] = "run" /\ cpu = c /\ pc' = [pc EXCEPT ![c] = "yield"]
      /\ UNCHANGED <<state, listVars, current, cpu, obj, threadVars, syncVars>>
  BY DEF YieldCheck, Runs, Goto
<1>2. pc \in PcFuns
  BY Types DEF IInv
<1>3. pc'[c] = "yield" /\ \A d \in Contexts \ {c} : pc'[d] = pc[d]
  BY <1>1, <1>2 DEF PcFuns
<1>4. TypeOK'
  BY <1>1 DEF IInv, TypeOK, Labels, listVars, threadVars, syncVars
<1>5. QueueInv'
  BY <1>1, <1>3, QueueFrame DEF IInv, SameMade, Contexts, listVars
<1>6. PlaceInv'
  <2>1. pc'[Boot] \in Executing
    BY <1>1, <1>3 DEF IInv, PlaceInv, Executing, Contexts
  <2>2. ASSUME NEW t \in Threads
        PROVE  Placed(state', pc', obj', holds', t)
    BY <1>1, <1>3, <2>2
       DEF IInv, PlaceInv, Placed, Executing, Exiting, Contexts, syncVars
  <2>3. QED
    BY <2>1, <2>2 DEF PlaceInv
<1>7. CreateInv'
  BY <1>1, <1>3 DEF IInv, CreateInv, Creation, Creating, Contexts
<1>8. CpuInv'
  BY <1>1, <1>3 DEF IInv, CpuInv, OnlyRunning
<1>9. MutexInv'
  <2>1. \A t \in Threads, m \in Mutexes : Owns(t, m)' <=> Owns(t, m)
    BY <1>1, <1>3 DEF Owns, Contexts, syncVars
  <2>2. QED
    BY <1>1, <2>1, MutexFrame DEF IInv, listVars, syncVars
<1>10. QED
  BY <1>4, <1>5, <1>6, <1>7, <1>8, <1>9 DEF IInv

LEMMA YieldSwitchStep ==
  ASSUME IInv, NEW c \in Contexts, YieldSwitch(c)
  PROVE  IInv'
<1> DEFINE p == Goto(c, "run")
<1>1. /\ pc[c] = "yield" /\ cpu = c /\ Schedule(state, next, p)
      /\ UNCHANGED <<wait, obj, threadVars, syncVars>>
  BY DEF YieldSwitch, Runs
<1>2. /\ pc \in PcFuns /\ p \in PcFuns
      /\ p[c] = "run" /\ \A d \in Contexts \ {c} : p[d] = pc[d]
  BY Types DEF IInv, Goto, PcFuns, Labels
<1>3. p[Boot] \in Executing
  BY <1>2 DEF IInv, PlaceInv, Executing, Contexts
<1>4. ASSUME NEW t \in Threads
      PROVE  Placed(state, p, obj, holds, t)
  BY <1>1, <1>2, <1>4
     DEF IInv, PlaceInv, Placed, Executing, Exiting, Contexts
<1>5. ASSUME NEW d \in Contexts
      PROVE  Creation(state, p, obj, d)
  BY <1>1, <1>2, <1>5 DEF IInv, CreateInv, Creation, Creating, Contexts
<1>6. SameAt(p, "lock") /\ SameAt(p, "made")
  BY <1>1, <1>2 DEF SameAt, Contexts
<1>7. UNCHANGED <<current, cpu, state>> /\ pc' = p => CpuInv'
  BY <1>1, <1>2 DEF IInv, CpuInv, OnlyRunning
<1>8. /\ QueueInv' /\ PlaceInv' /\ CreateInv' /\ CpuInv' /\ MutexInv'
      /\ state' \in States /\ next' \in Links /\ run' \in Lists
      /\ pc' \in PcFuns /\ current' \in Threads \cup {NULL} /\ cpu' \in Contexts
  <2>1. UNCHANGED <<wait, obj, holds, locked>>
    BY <1>1 DEF syncVars
  <2>2. QED
    BY <1>1, <1>2, <1>3, <1>4, <1>5, <1>6, <1>7, <2>1, SwitchStep
<1>9. TypeOK'
  BY <1>1, <1>8 DEF IInv, TypeOK, States, Links, PcFuns, threadVars, syncVars
<1>10. QED
  BY <1>8, <1>9 DEF IInv

LEMMA CreateAllocStep ==
  ASSUME IInv, NEW c \in Contexts, NEW t \in Threads, NEW s \in StackMem,
         CreateAlloc(c, t, s)
  PROVE  IInv'
<1>1. /\ pc[c] = "run" /\ cpu = c /\ pc[t] = "none" /\ t # c /\ t # Boot
      /\ pc' = [pc EXCEPT ![c] = "store", ![t] = "made"]
      /\ obj' = [obj EXCEPT ![c] = t]
      /\ UNCHANGED <<state, listVars, current, cpu, esp, id, next_tid, syncVars>>
  BY ConstantsAssumption DEF CreateAlloc, Runs
<1>2. pc \in PcFuns /\ obj \in Places /\ t \in Contexts
  BY Types DEF IInv, Contexts
<1>3. /\ pc'[c] = "store" /\ pc'[t] = "made" /\ obj'[c] = t
      /\ \A d \in Contexts \ {c, t} : pc'[d] = pc[d]
      /\ \A d \in Contexts \ {c} : obj'[d] = obj[d]
  BY <1>1, <1>2 DEF PcFuns, Places
<1>4. TypeOK'
  <2>1. stack' \in [Threads -> StackMem \cup {NULL}]
        /\ reg' \in [Contexts -> Nat]
    BY DEF CreateAlloc, IInv, TypeOK
  <2>2. pc' \in [Contexts -> Labels]
        /\ obj' \in [Contexts -> Threads \cup Waitables \cup {NULL}]
    BY <1>1, <1>2 DEF PcFuns, Places, Labels
  <2>3. QED
    BY <1>1, <2>1, <2>2 DEF IInv, TypeOK, listVars, syncVars
<1>5. Placed(state, pc, obj, holds, t) /\ state[t] = "UNUSED"
  BY <1>1 DEF IInv, PlaceInv, Placed
<1>6. QueueInv'
  <2>1. \A u \in Threads : state[u] = "SLEEPING" => obj'[u] = obj[u]
    <3>1. ASSUME NEW u \in Threads, state[u] = "SLEEPING"
          PROVE  u # c
      BY <1>1, <3>1 DEF IInv, PlaceInv, Placed
    <3>2. QED
      BY <1>3, <3>1 DEF Contexts
  <2>2. Asleep(state', obj') = Asleep(state, obj)
    BY <1>1, <2>1 DEF Asleep
  <2>3. Ready(state', pc') = Ready(state, pc)
    <3>1. ASSUME NEW u \in Threads, state[u] = "READY"
          PROVE  u # t /\ (pc'[u] = "made" <=> pc[u] = "made")
      BY <1>1, <1>3, <1>5, <3>1 DEF Contexts
    <3>2. QED
      BY <1>1, <3>1 DEF Ready
  <2>4. QED
    BY <1>1, <2>2, <2>3 DEF IInv, QueueInv, listVars
<1>7. PlaceInv'
  <2>1. pc'[Boot] \in Executing
    BY <1>1, <1>3 DEF IInv, PlaceInv, Executing, Creating, Contexts
  <2>2. ASSUME NEW u \in Threads
        PROVE  Placed(state', pc', obj', holds', u)
    <3>1. Placed(state, pc, obj, holds, u)
      BY DEF IInv, PlaceInv
    <3>2. CASE u = t
      BY <1>1, <1>3, <1>5, <3>2
         DEF Placed, Exiting, Executing, Creating, syncVars
    <3>3. CASE u = c
      BY <1>1, <1>3, <3>1, <3>3
         DEF Placed, Exiting, Executing, Creating, syncVars
    <3>4. CASE u # t /\ u # c
      BY <1>1, <1>3, <3>1, <3>4 DEF Placed, Contexts, syncVars
    <3>5. QED
      BY <3>2, <3>3, <3>4
  <2>3. QED
    BY <2>1, <2>2 DEF PlaceInv
<1>8. CreateInv'
  <2>1. ASSUME NEW d \in Contexts, d # c, pc'[d] \in Creating
        PROVE  /\ pc[d] \in Creating /\ obj'[d] = obj[d] /\ obj[d] # t
               /\ obj[d] # c
    <3>1. pc[d] \in Creating
      BY <1>3, <2>1 DEF Creating
    <3>2. pc[obj[d]] = "made"
      BY <3>1 DEF IInv, CreateInv, Creation
    <3>3. QED
      BY <1>1, <1>3, <2>1, <3>1, <3>2
  <2>2. Creation(state', pc', obj', c)
    BY <1>1, <1>3, <1>5, <2>1 DEF Creation
  <2>3. ASSUME NEW d \in Contexts, d # c, pc'[d] \in Creating
        PROVE  Creation(state', pc', obj', d)
    <3>1. /\ pc[d] \in Creating /\ obj'[d] = obj[d] /\ obj[d] # t
          /\ obj[d] # c
      BY <2>1, <2>3
    <3>2. /\ obj[d] \in Threads /\ pc[obj[d]] = "made" /\ d # t
          /\ state[obj[d]] = IF pc[d] = "store" THEN "UNUSED" ELSE "READY"
      BY <1>1, <3>1 DEF IInv, CreateInv, Creation, Creating
    <3>3. pc'[d] = pc[d] /\ pc'[obj[d]] = "made"
      BY <1>3, <2>3, <3>1, <3>2 DEF Contexts
    <3>4. \A e \in Contexts \ {d} : pc'[e] \in Creating => obj'[e] # obj[d]
      <4>1. ASSUME NEW e \in Contexts \ {d}, pc'[e] \in Creating
            PROVE  obj'[e] # obj[d]
        <5>1. CASE e = c
          BY <1>3, <3>1, <5>1
        <5>2. CASE e # c
          <6>1. pc[e] \in Creating /\ obj'[e] = obj[e]
            BY <2>1, <4>1, <5>2
          <6>2. QED
            BY <3>1, <4>1, <6>1 DEF IInv, CreateInv, Creation
        <5>3. QED
          BY <5>1, <5>2
      <4>2. QED
        BY <4>1
    <3>5. QED
      BY <1>1, <3>1, <3>2, <3>3, <3>4 DEF Creation
  <2>4. QED
    BY <2>2, <2>3 DEF CreateInv, Creation
<1>9. CpuInv'
  BY <1>1, <1>3, ConstantsAssumption DEF IInv, CpuInv, OnlyRunning
<1>10. MutexInv'
  <2>1. \A u \in Threads, m \in Mutexes : Owns(u, m)' <=> Owns(u, m)
    BY <1>1, <1>3 DEF Owns, Contexts, syncVars
  <2>2. QED
    BY <1>1, <2>1, MutexFrame DEF IInv, listVars, syncVars
<1>11. QED
  BY <1>4, <1>6, <1>7, <1>8, <1>9, <1>10 DEF IInv

LEMMA CreateStoreStep ==
  ASSUME IInv, NEW c \in Contexts, CreateStore(c)
  PROVE  IInv'
<1> DEFINE t == obj[c]
<1>1. /\ pc[c] = "store" /\ cpu = c /\ pc' = [pc EXCEPT ![c] = "enqueue"]
      /\ state' = [state EXCEPT ![t] = "READY"]
      /\ UNCHANGED <<listVars, current, cpu, obj, stack, esp, syncVars>>
  BY DEF CreateStore, Runs, Goto
<1>2. pc \in PcFuns /\ state \in States
  BY Types DEF IInv
<1>3. Creation(state, pc, obj, c) /\ pc[c] \in Creating
  BY <1>1 DEF IInv, CreateInv, Creating
<1>4. t \in Threads /\ pc[t] = "made" /\ state[t] = "UNUSED" /\ t # c
  BY <1>1, <1>3 DEF Creation
<1>5. /\ pc'[c] = "enqueue" /\ \A d \in Contexts \ {c} : pc'[d] = pc[d]
      /\ state'[t] = "READY" /\ \A u \in Threads \ {t} : state'[u] = state[u]
  BY <1>1, <1>2, <1>4 DEF PcFuns, States
<1>6. TypeOK'
  <2>1. id' \in [Threads -> Nat] /\ next_tid' \in Nat /\ reg' \in [Contexts -> Nat]
    <3>1. id \in [Threads -> Nat] /\ reg \in [Contexts -> Nat] /\ reg[c] \in Nat
      BY DEF IInv, TypeOK
    <3>2. /\ id' = [id EXCEPT ![t] = reg[c]] /\ next_tid' = reg[c] + 1
          /\ reg' = [reg EXCEPT ![c] = 0]
      BY DEF CreateStore
    <3>3. id' \in [Threads -> Nat]
      BY <1>4, <3>1, <3>2
    <3>4. reg' \in [Contexts -> Nat]
      BY <3>1, <3>2
    <3>5. QED
      BY <3>1, <3>2, <3>3, <3>4
  <2>2. pc' \in [Contexts -> Labels] /\ state' \in [Threads -> ThreadStates]
    BY <1>1, <1>2 DEF PcFuns, Labels, States, ThreadStates
  <2>3. QED
    BY <1>1, <2>1, <2>2 DEF IInv, TypeOK, listVars, syncVars
<1>7. QueueInv'
  <2>1. Ready(state', pc') = Ready(state, pc)
    <3>1. \A u \in Threads : pc'[u] = "made" <=> pc[u] = "made"
      BY <1>1, <1>5 DEF Contexts
    <3>2. QED
      BY <1>4, <1>5, <3>1 DEF Ready
  <2>2. Asleep(state', obj) = Asleep(state, obj)
    BY <1>4, <1>5 DEF Asleep
  <2>3. QED
    BY <1>1, <2>1, <2>2 DEF IInv, QueueInv, listVars
<1>8. PlaceInv'
  <2>1. pc'[Boot] \in Executing
    BY <1>1, <1>5 DEF IInv, PlaceInv, Executing, Creating, Contexts
  <2>2. ASSUME NEW u \in Threads
        PROVE  Placed(state', pc', obj', holds', u)
    <3>1. Placed(state, pc, obj, holds, u) /\ holds' = holds /\ u \in Contexts
      BY <1>1 DEF IInv, PlaceInv, syncVars, Contexts
    <3>2. CASE u = t
      BY <1>1, <1>4, <1>5, <3>1, <3>2 DEF Placed, Exiting
    <3>3. CASE u = c
      BY <1>1, <1>4, <1>5, <3>1, <3>3 DEF Placed, Exiting, Executing, Creating
    <3>4. CASE u # t /\ u # c
      BY <1>1, <1>5, <3>1, <3>4 DEF Placed
    <3>5. QED
      BY <3>2, <3>3, <3>4
  <2>3. QED
    BY <2>1, <2>2 DEF PlaceInv
<1>9. CreateInv'
  <2>1. \A d \in Contexts : pc'[d] \in Creating <=> pc[d] \in Creating
    BY <1>1, <1>5 DEF Creating
  <2>2. Creation(state', pc', obj', c)
    BY <1>1, <1>3, <1>4, <1>5, <2>1 DEF Creation, Contexts
  <2>3. ASSUME NEW d \in Contexts, d # c, pc'[d] \in Creating
        PROVE  Creation(state', pc', obj', d)
    <3>1. /\ pc[d] \in Creating /\ pc'[d] = pc[d]
          /\ Creation(state, pc, obj, d)
      BY <1>5, <2>1, <2>3 DEF IInv, CreateInv
    <3>2. /\ obj[d] \in Threads /\ pc[obj[d]] = "made" /\ obj[d] # t /\ obj[d] # c
      BY <1>1, <1>3, <2>3, <3>1 DEF Creation
    <3>3. pc'[obj[d]] = "made" /\ state'[obj[d]] = state[obj[d]]
      BY <1>5, <3>2 DEF Contexts
    <3>4. QED
      BY <1>1, <2>1, <3>1, <3>2, <3>3 DEF Creation
  <2>4. QED
    BY <2>2, <2>3 DEF CreateInv, Creation
<1>10. CpuInv'
  <2>1. current # t
    BY <1>4, ConstantsAssumption DEF IInv, CpuInv
  <2>2. OnlyRunning(state)'
    BY <1>1, <1>5 DEF IInv, CpuInv, OnlyRunning
  <2>3. current # NULL => state'[current] = state[current]
    BY <1>5, <2>1, Types DEF IInv
  <2>4. QED
    BY <1>1, <1>5, <2>2, <2>3 DEF IInv, CpuInv
<1>11. MutexInv'
  <2>1. ASSUME NEW u \in Threads, NEW m \in Mutexes
        PROVE  Owns(u, m)' <=> Owns(u, m)
    <3>1. holds' = holds /\ obj' = obj /\ u \in Contexts
      BY <1>1 DEF syncVars, Contexts
    <3>2. pc'[u] = "lock" <=> pc[u] = "lock"
      BY <1>1, <1>5, <3>1
    <3>3. pc[u] = "lock" => u # t
      BY <1>4
    <3>4. QED
      BY <1>5, <3>1, <3>2, <3>3 DEF Owns
  <2>2. QED
    BY <1>1, <2>1, MutexFrame DEF IInv, listVars, syncVars
<1>12. QED
  BY <1>6, <1>7, <1>8, <1>9, <1>10, <1>11 DEF IInv

LEMMA CreateEnqueueStep ==
  ASSUME IInv, NEW c \in Contexts, CreateEnqueue(c)
  PROVE  IInv'
<1> DEFINE t == obj[c]
           pushed == Push(run, next, t)
<1>1. /\ pc[c] = "enqueue" /\ cpu = c
      /\ pc' = [pc EXCEPT ![c] = "run", ![t] = "new"]
      /\ run' = pushed.list /\ next' = pushed.next
      /\ esp' = [esp EXCEPT ![t] = stack[t]]
      /\ obj' = [obj EXCEPT ![c] = NULL]
      /\ UNCHANGED <<state, wait, current, cpu, stack, id, next_tid, reg, syncVars>>
  BY DEF CreateEnqueue, Runs
<1>2. /\ pc \in PcFuns /\ obj \in Places /\ state \in States
      /\ run \in Lists /\ next \in Links /\ wait \in WaitLists
  BY Types DEF IInv
<1>3. Creation(state, pc, obj, c) /\ pc[c] \in Creating
  BY <1>1 DEF IInv, CreateInv, Creating
<1>4. /\ t \in Threads /\ t \in Contexts /\ t # Boot
      /\ pc[t] = "made" /\ state[t] = "READY" /\ t # c
  BY <1>1, <1>3, ConstantsAssumption DEF Creation, Contexts
<1>5. /\ pc'[c] = "run" /\ pc'[t] = "new"
      /\ \A d \in Contexts \ {c, t} : pc'[d] = pc[d]
      /\ obj'[c] = NULL /\ \A d \in Contexts \ {c} : obj'[d] = obj[d]
  BY <1>1, <1>2, <1>4 DEF PcFuns, Places
<1>6. QueueInv' /\ run' \in Lists /\ next' \in Links
  <2>1. Ready(state, pc) \in Groups /\ Asleep(state, obj) \in Sleepers
    BY DEF Ready, Asleep, Sleepers, Groups
  <2>2. Unlisted(t, Ready(state, pc), Asleep(state, obj))
    BY <1>4 DEF Unlisted, Ready, Asleep
  <2>3. /\ InOrder(run', wait, next', Ready(state, pc) \cup {t}, Asleep(state, obj))
        /\ run' \in Lists /\ next' \in Links
    BY <1>1, <1>2, <1>4, <2>1, <2>2, RunPush DEF IInv, QueueInv
  <2>4. Ready(state', pc') = Ready(state, pc) \cup {t}
    <3>1. \A u \in Threads \ {t} : pc'[u] = "made" <=> pc[u] = "made"
      BY <1>1, <1>5 DEF Contexts
    <3>2. state' = state /\ t \in Threads /\ state[t] = "READY" /\ pc'[t] # "made"
      BY <1>1, <1>4, <1>5
    <3> HIDE DEF t
    <3>3. \A u : u \in Ready(state', pc') <=> u \in Ready(state, pc) \cup {t}
      BY <3>1, <3>2 DEF Ready
    <3>4. QED
      BY <3>3, Zenon
  <2>5. \A u \in Threads : state[u] = "SLEEPING" => u # c
    BY <1>1 DEF IInv, PlaceInv, Placed
  <2>6. \A w \in Waitables, u \in Threads :
          state[u] = "SLEEPING" /\ obj'[u] = w
            <=> state[u] = "SLEEPING" /\ obj[u] = w
    BY <1>5, <2>5 DEF Contexts
  <2>7. Asleep(state, obj') = Asleep(state, obj)
    BY <2>6 DEF Asleep
  <2>8. QED
    BY <1>1, <2>3, <2>4, <2>7 DEF QueueInv
<1>7. TypeOK'
  <2>1. pc' \in [Contexts -> Labels]
        /\ obj' \in [Contexts -> Threads \cup Waitables \cup {NULL}]
    BY <1>1, <1>2 DEF PcFuns, Places, Labels
  <2>2. esp' \in [Threads -> StackMem \cup {NULL}]
    BY <1>1, <1>4 DEF IInv, TypeOK
  <2>3. QED
    BY <1>1, <1>6, <2>1, <2>2 DEF IInv, TypeOK, Links, syncVars
<1>8. PlaceInv'
  <2>1. pc'[Boot] \in Executing
    BY <1>1, <1>4, <1>5 DEF IInv, PlaceInv, Executing, Contexts
  <2>2. ASSUME NEW u \in Threads
        PROVE  Placed(state', pc', obj', holds', u)
    <3>1. Placed(state, pc, obj, holds, u) /\ holds' = holds /\ u \in Contexts
      BY <1>1 DEF IInv, PlaceInv, syncVars, Contexts
    <3>2. CASE u = t
      BY <1>1, <1>4, <1>5, <3>1, <3>2 DEF Placed, Exiting, Executing, Creating
    <3>3. CASE u = c
      BY <1>1, <1>4, <1>5, <3>1, <3>3 DEF Placed, Exiting, Executing, Creating
    <3>4. CASE u # t /\ u # c
      BY <1>1, <1>5, <3>1, <3>4 DEF Placed
    <3>5. QED
      BY <3>2, <3>3, <3>4
  <2>3. QED
    BY <2>1, <2>2 DEF PlaceInv
<1>9. CreateInv'
  <2>1. ASSUME NEW d \in Contexts, pc'[d] \in Creating
        PROVE  Creation(state', pc', obj', d)
    <3>1. /\ d # c /\ d # t /\ pc'[d] = pc[d] /\ pc[d] \in Creating
          /\ obj'[d] = obj[d]
      BY <1>5, <2>1 DEF Creating
    <3>2. /\ obj[d] \in Threads /\ pc[obj[d]] = "made"
          /\ state[obj[d]] = IF pc[d] = "store" THEN "UNUSED" ELSE "READY"
          /\ obj[d] # t
          /\ \A e \in Contexts \ {d} : pc[e] \in Creating => obj[e] # obj[d]
      BY <1>3, <3>1 DEF IInv, CreateInv, Creation
    <3>3. obj[d] # c
      BY <1>1, <3>2
    <3>4. pc'[obj[d]] = "made"
      BY <1>5, <3>2, <3>3 DEF Contexts
    <3>5. \A e \in Contexts \ {d} : pc'[e] \in Creating => obj'[e] # obj[d]
      BY <1>5, <3>2 DEF Creating
    <3>6. QED
      BY <1>1, <3>1, <3>2, <3>4, <3>5 DEF Creation
  <2>2. QED
    BY <2>1 DEF CreateInv, Creation
<1>10. CpuInv'
  BY <1>1, <1>4, <1>5 DEF IInv, CpuInv, OnlyRunning
<1>11. MutexInv'
  <2>1. \A u \in Threads, m \in Mutexes : Owns(u, m)' <=> Owns(u, m)
    <3>1. SUFFICES ASSUME NEW u \in Threads, NEW m \in Mutexes
                   PROVE  Owns(u, m)' <=> Owns(u, m)
      OBVIOUS
    <3>2. holds' = holds /\ state' = state /\ u \in Contexts
      BY <1>1 DEF syncVars, Contexts
    <3>3. CASE u = t \/ u = c
      BY <1>1, <1>4, <1>5, <3>2, <3>3 DEF Owns
    <3>4. CASE u # t /\ u # c
      BY <1>5, <3>2, <3>4 DEF Owns
    <3>5. QED
      BY <3>3, <3>4
  <2>2. QED
    BY <1>1, <2>1, MutexFrame DEF IInv, syncVars
<1>12. QED
  BY <1>6, <1>7, <1>8, <1>9, <1>10, <1>11 DEF IInv

LEMMA ExitZombieStep ==
  ASSUME IInv, NEW c \in Contexts, ExitZombie(c)
  PROVE  IInv'
<1>1. /\ pc[c] = "run" /\ cpu = c /\ pc' = [pc EXCEPT ![c] = "free"]
      /\ c \in Threads \ Resident /\ holds[c] = {}
      /\ state' = [state EXCEPT ![current] = "ZOMBIE"]
      /\ UNCHANGED <<listVars, current, cpu, obj, threadVars, syncVars>>
  BY DEF ExitZombie, MayExit, Runs, Goto
<1>2. pc \in PcFuns /\ state \in States
  BY Types DEF IInv
<1>3. current = c /\ state[c] = "RUNNING"
  BY <1>1, Runner DEF Runs, Labels, Exiting
<1>4. /\ pc'[c] = "free" /\ \A d \in Contexts \ {c} : pc'[d] = pc[d]
      /\ state'[c] = "ZOMBIE" /\ \A u \in Threads \ {c} : state'[u] = state[u]
  BY <1>1, <1>2, <1>3 DEF PcFuns, States
<1>5. TypeOK'
  <2>1. pc' \in [Contexts -> Labels] /\ state' \in [Threads -> ThreadStates]
    BY <1>1, <1>2 DEF PcFuns, States, Labels, ThreadStates
  <2>2. QED
    BY <1>1, <2>1 DEF IInv, TypeOK, listVars, threadVars, syncVars
<1>6. QueueInv'
  <2>1. \A u \in Threads : /\ state'[u] = "READY" <=> state[u] = "READY"
                           /\ state'[u] = "SLEEPING" <=> state[u] = "SLEEPING"
    BY <1>3, <1>4
  <2>2. \A u \in Threads : pc'[u] = "made" <=> pc[u] = "made"
    BY <1>1, <1>4 DEF Contexts
  <2>2a. /\ Ready(state', pc') = Ready(state, pc)
         /\ Asleep(state', obj) = Asleep(state, obj)
    BY <2>1, <2>2 DEF Ready, Asleep
  <2>3. QED
    BY <1>1, <2>2a DEF IInv, QueueInv, listVars
<1>7. PlaceInv'
  <2>1. pc'[Boot] \in Executing
    BY <1>1, <1>4, ConstantsAssumption DEF IInv, PlaceInv, Contexts
  <2>2. ASSUME NEW u \in Threads
        PROVE  Placed(state', pc', obj', holds', u)
    <3>1. Placed(state, pc, obj, holds, u) /\ holds' = holds /\ obj' = obj
      BY <1>1 DEF IInv, PlaceInv, syncVars
    <3>2. CASE u = c
      BY <1>1, <1>4, <3>1, <3>2 DEF Placed, Exiting
    <3>3. CASE u # c
      BY <1>4, <3>1, <3>3 DEF Placed, Contexts
    <3>4. QED
      BY <3>2, <3>3
  <2>3. QED
    BY <2>1, <2>2 DEF PlaceInv
<1>8. CreateInv'
  <2>1. \A d \in Contexts : pc'[d] \in Creating <=> pc[d] \in Creating
    BY <1>1, <1>4 DEF Creating
  <2>2. \A d \in Contexts : pc[d] = "made" => pc'[d] = "made"
    BY <1>1, <1>4
  <2>3. \A u \in Threads : pc[u] = "made" => state'[u] = state[u]
    BY <1>1, <1>4
  <2>4. ASSUME NEW d \in Contexts, pc'[d] \in Creating
        PROVE  Creation(state', pc', obj', d)
    <3>1. Creation(state, pc, obj, d) /\ pc[d] \in Creating /\ pc'[d] = pc[d]
      BY <1>1, <1>4, <2>1, <2>4 DEF IInv, CreateInv, Creating
    <3>2. QED
      BY <1>1, <2>1, <2>2, <2>3, <3>1 DEF Creation, Contexts
  <2>5. QED
    BY <2>4 DEF CreateInv, Creation
<1>9. CpuInv'
  BY <1>1, <1>3, <1>4 DEF IInv, CpuInv, OnlyRunning
<1>10. MutexInv'
  <2>1. ASSUME NEW t \in Threads, NEW m \in Mutexes
        PROVE  Owns(t, m)' <=> Owns(t, m)
    BY <1>1, <1>3, <1>4, <2>1 DEF Owns, Contexts, syncVars
  <2>2. QED
    BY <1>1, <2>1, MutexFrame DEF IInv, listVars, syncVars
<1>11. QED
  BY <1>5, <1>6, <1>7, <1>8, <1>9, <1>10 DEF IInv

(* Only a thread is ever inside thread_exit.                                *)
LEMMA ExitFromPlace ==
  ASSUME IInv, NEW c \in Contexts, pc[c] \in Exiting
  PROVE  c \in Threads /\ state[c] = "ZOMBIE" /\ holds[c] = {} /\ c \notin Resident
<1>1. c # Boot
  BY DEF IInv, PlaceInv, Executing, Creating, Exiting
<1>2. c \in Threads
  BY <1>1 DEF Contexts
<1>3. Placed(state, pc, obj, holds, c)
  BY <1>2 DEF IInv, PlaceInv
<1>4. QED
  BY <1>2, <1>3 DEF Placed, Executing, Creating, Exiting

LEMMA ExitFreeStep ==
  ASSUME IInv, NEW c \in Contexts, ExitFree(c)
  PROVE  IInv'
<1>1. /\ pc[c] = "free" /\ cpu = c /\ pc' = [pc EXCEPT ![c] = "detach"]
      /\ stack' = [stack EXCEPT ![current] = NULL]
      /\ UNCHANGED <<state, listVars, current, cpu, obj, esp, id, next_tid, reg,
                     syncVars>>
  BY DEF ExitFree, Runs, Goto
<1>2. c \in Threads /\ state[c] = "ZOMBIE" /\ pc \in PcFuns
  BY <1>1, ExitFromPlace, Types DEF IInv, Exiting
<1>3. pc'[c] = "detach" /\ \A d \in Contexts \ {c} : pc'[d] = pc[d]
  BY <1>1, <1>2 DEF PcFuns
<1>4. TypeOK'
  <2>1. pc' \in [Contexts -> Labels]
    BY <1>1, <1>2 DEF PcFuns, Labels
  <2>2. stack' \in [Threads -> StackMem \cup {NULL}]
    BY <1>1 DEF IInv, TypeOK
  <2>3. QED
    BY <1>1, <2>1, <2>2 DEF IInv, TypeOK, listVars, syncVars
<1>5. QueueInv'
  BY <1>1, <1>3, QueueFrame DEF IInv, SameMade, Contexts, listVars
<1>6. PlaceInv'
  <2>1. pc'[Boot] \in Executing
    BY <1>2, <1>3, ConstantsAssumption DEF IInv, PlaceInv, Contexts
  <2>2. ASSUME NEW t \in Threads
        PROVE  Placed(state', pc', obj', holds', t)
    <3>1. Placed(state, pc, obj, holds, t) /\ holds' = holds /\ t \in Contexts
      BY <1>1 DEF IInv, PlaceInv, syncVars, Contexts
    <3>2. QED
      BY <1>1, <1>3, <3>1 DEF Placed, Exiting, Executing, Creating
  <2>3. QED
    BY <2>1, <2>2 DEF PlaceInv
<1>7. CreateInv'
  BY <1>1, <1>3 DEF IInv, CreateInv, Creation, Creating, Contexts
<1>8. CpuInv'
  BY <1>1, <1>3 DEF IInv, CpuInv, OnlyRunning
<1>9. MutexInv'
  <2>1. \A t \in Threads, m \in Mutexes : Owns(t, m)' <=> Owns(t, m)
    BY <1>1, <1>3 DEF Owns, Contexts, syncVars
  <2>2. QED
    BY <1>1, <2>1, MutexFrame DEF IInv, listVars, syncVars
<1>10. QED
  BY <1>4, <1>5, <1>6, <1>7, <1>8, <1>9 DEF IInv

LEMMA ExitDetachStep ==
  ASSUME IInv, NEW c \in Contexts, ExitDetach(c)
  PROVE  IInv'
<1>1. /\ pc[c] = "detach" /\ cpu = c /\ pc' = [pc EXCEPT ![c] = "leave"]
      /\ current' = NULL
      /\ UNCHANGED <<state, listVars, cpu, obj, threadVars, syncVars>>
  BY DEF ExitDetach, Runs, Goto
<1>2. c \in Threads /\ state[c] = "ZOMBIE" /\ pc \in PcFuns
  BY <1>1, ExitFromPlace, Types DEF IInv, Exiting
<1>3. pc'[c] = "leave" /\ \A d \in Contexts \ {c} : pc'[d] = pc[d]
  BY <1>1, <1>2 DEF PcFuns
<1>4. TypeOK'
  <2>1. pc' \in [Contexts -> Labels]
    BY <1>1, <1>2 DEF PcFuns, Labels
  <2>2. QED
    BY <1>1, <2>1 DEF IInv, TypeOK, listVars, threadVars, syncVars
<1>5. QueueInv'
  BY <1>1, <1>3, QueueFrame DEF IInv, SameMade, Contexts, listVars
<1>6. PlaceInv'
  <2>1. pc'[Boot] \in Executing
    BY <1>2, <1>3, ConstantsAssumption DEF IInv, PlaceInv, Contexts
  <2>2. ASSUME NEW t \in Threads
        PROVE  Placed(state', pc', obj', holds', t)
    <3>1. Placed(state, pc, obj, holds, t) /\ holds' = holds /\ t \in Contexts
      BY <1>1 DEF IInv, PlaceInv, syncVars, Contexts
    <3>2. QED
      BY <1>1, <1>3, <3>1 DEF Placed, Exiting, Executing, Creating
  <2>3. QED
    BY <2>1, <2>2 DEF PlaceInv
<1>7. CreateInv'
  BY <1>1, <1>3 DEF IInv, CreateInv, Creation, Creating, Contexts
<1>8. CpuInv'
  <2>1. \A t \in Threads : state[t] # "RUNNING"
    BY <1>1, <1>2, Runner DEF IInv, CpuInv, OnlyRunning, Runs, Labels
  <2>2. QED
    BY <1>1, <1>3, <2>1 DEF CpuInv, OnlyRunning
<1>9. MutexInv'
  <2>1. \A t \in Threads, m \in Mutexes : Owns(t, m)' <=> Owns(t, m)
    BY <1>1, <1>3 DEF Owns, Contexts, syncVars
  <2>2. QED
    BY <1>1, <2>1, MutexFrame DEF IInv, listVars, syncVars
<1>10. QED
  BY <1>4, <1>5, <1>6, <1>7, <1>8, <1>9 DEF IInv

LEMMA ExitSwitchStep ==
  ASSUME IInv, NEW c \in Contexts, ExitSwitch(c)
  PROVE  IInv'
<1> DEFINE p == Goto(c, "spin")
<1>1. /\ pc[c] = "leave" /\ cpu = c /\ Schedule(state, next, p)
      /\ UNCHANGED <<wait, obj, threadVars, syncVars>>
  BY DEF ExitSwitch, Runs
<1>2. /\ pc \in PcFuns /\ p \in PcFuns
      /\ p[c] = "spin" /\ \A d \in Contexts \ {c} : p[d] = pc[d]
  BY Types DEF IInv, Goto, PcFuns, Labels
<1>3. c \in Threads
  BY <1>1, ExitFromPlace DEF Exiting
<1>4. p[Boot] \in Executing
  BY <1>2, <1>3, ConstantsAssumption DEF IInv, PlaceInv, Contexts
<1>5. ASSUME NEW t \in Threads
      PROVE  Placed(state, p, obj, holds, t)
  <2>1. Placed(state, pc, obj, holds, t) /\ t \in Contexts
    BY DEF IInv, PlaceInv, Contexts
  <2>2. QED
    BY <1>1, <1>2, <2>1 DEF Placed, Exiting, Executing, Creating
<1>6. ASSUME NEW d \in Contexts
      PROVE  Creation(state, p, obj, d)
  BY <1>1, <1>2, <1>6 DEF IInv, CreateInv, Creation, Creating, Contexts
<1>7. SameAt(p, "lock") /\ SameAt(p, "made")
  BY <1>1, <1>2 DEF SameAt, Contexts
<1>8. UNCHANGED <<current, cpu, state>> /\ pc' = p => CpuInv'
  BY <1>1, <1>2 DEF IInv, CpuInv, OnlyRunning
<1>9. /\ QueueInv' /\ PlaceInv' /\ CreateInv' /\ CpuInv' /\ MutexInv'
      /\ state' \in States /\ next' \in Links /\ run' \in Lists
      /\ pc' \in PcFuns /\ current' \in Threads \cup {NULL} /\ cpu' \in Contexts
  <2>1. UNCHANGED <<wait, obj, holds, locked>>
    BY <1>1 DEF syncVars
  <2>2. QED
    BY <1>1, <1>2, <1>4, <1>5, <1>6, <1>7, <1>8, <2>1, SwitchStep
<1>10. TypeOK'
  BY <1>1, <1>9 DEF IInv, TypeOK, States, Links, PcFuns, threadVars, syncVars
<1>11. QED
  BY <1>9, <1>10 DEF IInv

LEMMA BlockStep ==
  ASSUME IInv, NEW c \in Threads, Runs(c, "run"), holds[c] = {},
         NEW x \in Waitables, NEW label, Ready(state, pc) # {},
         \/ label = "lock" /\ x \in Mutexes /\ locked[x]
         \/ label = "wait" /\ x \in Sems /\ c \notin Resident,
         Block(c, x, label), UNCHANGED <<threadVars, syncVars>>
  PROVE  IInv'
<1> DEFINE st == Sleeping(c)
           p == Goto(c, label)
           n == run.head
<1>1. /\ state \in States /\ next \in Links /\ run \in Lists
      /\ wait \in WaitLists /\ obj \in Places /\ pc \in PcFuns
      /\ c \in Contexts /\ c # Boot
  BY Types, ConstantsAssumption DEF IInv, Contexts
<1>2. current = c /\ state[c] = "RUNNING" /\ pc[c] = "run"
  BY Runner DEF Labels, Exiting, Runs
<1>3. /\ run' \in Lists /\ next' \in Links /\ wait' \in WaitLists
      /\ state' \in States /\ obj' \in Places /\ QueueInv'
      /\ \A w \in Waitables \ {x} : wait'[w] = wait[w]
      /\ obj' = [obj EXCEPT ![c] = x]
      /\ Switched(st, p, n)
  <2>1. Unmade(state, pc) /\ QueueInv
    BY DEF IInv, PlaceInv, Placed, Unmade
  <2>2. QED
    BY <1>1, <1>2, <2>1, BlockEffect
<1>4. /\ st \in States /\ st[c] = "SLEEPING"
      /\ \A u \in Threads \ {c} : st[u] = state[u]
      /\ p \in PcFuns /\ p[c] = label
      /\ \A d \in Contexts \ {c} : p[d] = pc[d]
      /\ obj'[c] = x /\ \A d \in Contexts \ {c} : obj'[d] = obj[d]
  BY <1>1, <1>3
     DEF Sleeping, Goto, States, ThreadStates, PcFuns, Labels, Places
<1>5. holds' = holds /\ locked' = locked
  BY DEF syncVars
<1>6. PlaceInv' /\ pc' \in PcFuns
  <2>1. p[Boot] \in Executing
    BY <1>1, <1>4 DEF IInv, PlaceInv, Contexts
  <2>2. ASSUME NEW u \in Threads
        PROVE  Placed(st, p, obj', holds, u)
    <3>1. Placed(state, pc, obj, holds, u) /\ u \in Contexts
      BY DEF IInv, PlaceInv, Contexts
    <3>2. CASE u = c
      BY <1>4, <3>2 DEF Placed, Exiting
    <3>3. CASE u # c
      BY <1>4, <3>1, <3>3 DEF Placed
    <3>4. QED
      BY <3>2, <3>3
  <2>3. /\ pc' \in PcFuns /\ pc'[Boot] \in Executing
        /\ \A u \in Threads : Placed(state', pc', obj', holds, u)
    BY <1>3, <1>4, <2>1, <2>2, SwitchPlaces
  <2>4. QED
    BY <1>5, <2>3 DEF PlaceInv
<1>7. CreateInv'
  <2>1. ASSUME NEW d \in Contexts, p[d] \in Creating
        PROVE  Creation(st, p, obj', d)
    <3>1. d # c /\ pc[d] \in Creating /\ obj'[d] = obj[d]
      BY <1>4, <2>1 DEF Creating
    <3>2. /\ obj[d] \in Threads /\ pc[obj[d]] = "made"
          /\ state[obj[d]] = IF pc[d] = "store" THEN "UNUSED" ELSE "READY"
          /\ \A e \in Contexts \ {d} : pc[e] \in Creating => obj[e] # obj[d]
      BY <3>1 DEF IInv, CreateInv, Creation
    <3>3. obj[d] # c
      BY <1>2, <3>2
    <3>4. p[obj[d]] = "made" /\ st[obj[d]] = state[obj[d]]
      BY <1>4, <3>2, <3>3 DEF Contexts
    <3>5. \A e \in Contexts \ {d} : p[e] \in Creating => obj'[e] # obj[d]
      BY <1>4, <3>2 DEF Creating
    <3>6. QED
      BY <1>4, <3>1, <3>2, <3>4, <3>5 DEF Creation
  <2>2. \A d \in Contexts : Creation(st, p, obj', d)
    BY <2>1 DEF Creation
  <2>3. QED
    BY <1>3, <1>4, <2>2, SwitchCreation DEF CreateInv
<1>8. CpuInv'
  <2>1. OnlyRunning(st)
    BY <1>4 DEF IInv, CpuInv, OnlyRunning
  <2>2. QED
    BY <1>3, <2>1, SwitchCpu
<1>9. MutexInv'
  <2>1. ASSUME NEW u \in Threads, NEW m \in Mutexes
        PROVE  Owns(u, m)' <=> Owns(u, m)
    <3>1. /\ pc'[u] = "lock" <=> p[u] = "lock"
          /\ state'[u] = "SLEEPING" <=> st[u] = "SLEEPING"
      BY <1>3, <1>4, SwitchOwns
    <3>2. CASE u = c
      BY <1>2, <1>4, <1>5, <3>1, <3>2 DEF Owns
    <3>3. CASE u # c
      BY <1>4, <1>5, <3>1, <3>3 DEF Owns, Contexts
    <3>4. QED
      BY <3>2, <3>3
  <2>2. ASSUME NEW m \in Mutexes, wait'[m].head # NULL
        PROVE  wait[m].head # NULL \/ locked[m]
    <3>1. CASE m = x
      BY <3>1, ConstantsAssumption
    <3>2. CASE m # x
      BY <1>3, <2>2, <3>2 DEF Waitables
    <3>3. QED
      BY <3>1, <3>2
  <2>3. QED
    BY <1>5, <2>1, <2>2, MutexFrame DEF IInv
<1>10. TypeOK'
  <2>1. current' \in Threads \cup {NULL} /\ cpu' \in Contexts
    BY <1>3 DEF Switched, Contexts
  <2>2. QED
    BY <1>3, <1>6, <2>1
       DEF IInv, TypeOK, States, Links, WaitLists, Places, PcFuns, threadVars,
           syncVars
<1>11. QED
  BY <1>3, <1>6, <1>7, <1>8, <1>9, <1>10 DEF IInv

LEMMA LockBlockStep ==
  ASSUME IInv, NEW c \in Contexts, NEW m \in Mutexes, LockBlock(c, m)
  PROVE  IInv'
<1>1. /\ c \in Threads /\ Runs(c, "run") /\ holds[c] = {} /\ locked[m]
      /\ m \in Waitables /\ Block(c, m, "lock")
      /\ UNCHANGED <<threadVars, syncVars>>
  BY DEF LockBlock, MayLock, Waitables
<1>2. Ready(state, pc) # {}
  BY <1>1, OwnerReady
<1>3. QED
  BY <1>1, <1>2, BlockStep

LEMMA WaitBlockStep ==
  ASSUME IInv, NeedResident, NEW c \in Contexts, NEW s \in Sems,
         WaitBlock(c, s)
  PROVE  IInv'
<1>1. /\ c \in Threads /\ Runs(c, "run") /\ holds[c] = {} /\ c \notin Resident
      /\ MayWait(c) /\ s \in Waitables /\ Block(c, s, "wait")
      /\ UNCHANGED <<threadVars, syncVars>>
  BY DEF WaitBlock, MayWait, Waitables
<1>2. Ready(state, pc) # {}
  BY <1>1, ResidentReady
<1>3. QED
  BY <1>1, <1>2, BlockStep

(* A step that only changes what the mutexes and semaphores record.         *)
LEMMA QuietStep ==
  ASSUME IInv, NEW c \in Threads, pc[c] = "run",
         UNCHANGED <<state, listVars, current, cpu, pc, obj>>,
         \A t \in Threads \ {c} : holds'[t] = holds[t]
  PROVE  QueueInv' /\ PlaceInv' /\ CreateInv' /\ CpuInv'
<1>1. QueueInv' /\ CreateInv' /\ CpuInv'
  BY DEF IInv, QueueInv, CreateInv, CpuInv, OnlyRunning, listVars
<1>2. ASSUME NEW t \in Threads
      PROVE  Placed(state', pc', obj', holds', t)
  BY DEF IInv, PlaceInv, Placed, Executing
<1>3. QED
  BY <1>1, <1>2 DEF IInv, PlaceInv

LEMMA LockFreeStep ==
  ASSUME IInv, NEW c \in Contexts, NEW m \in Mutexes, LockFree(c, m)
  PROVE  IInv'
<1>1. /\ c \in Threads /\ Runs(c, "run") /\ holds[c] = {} /\ ~locked[m]
      /\ locked' = [locked EXCEPT ![m] = TRUE]
      /\ holds' = [holds EXCEPT ![c] = @ \cup {m}]
      /\ UNCHANGED <<state, listVars, current, cpu, pc, obj, threadVars, count,
                     posted, taken>>
  BY DEF LockFree, MayLock
<1>2. /\ holds \in [Threads -> SUBSET Mutexes] /\ locked \in [Mutexes -> BOOLEAN]
  BY DEF IInv, TypeOK
<1>3. holds'[c] = {m} /\ \A t \in Threads \ {c} : holds'[t] = holds[t]
  BY <1>1, <1>2
<1>4. locked'[m] /\ \A k \in Mutexes \ {m} : locked'[k] = locked[k]
  BY <1>1, <1>2
<1>5. QueueInv' /\ PlaceInv' /\ CreateInv' /\ CpuInv'
  BY <1>1, <1>3, QuietStep DEF Runs
<1>6. TypeOK'
  <2>1. holds' \in [Threads -> SUBSET Mutexes] /\ locked' \in [Mutexes -> BOOLEAN]
    BY <1>1, <1>2
  <2>2. QED
    BY <1>1, <2>1 DEF IInv, TypeOK, listVars, threadVars
<1>7. MutexInv'
  <2>1. \A t \in Threads, k \in Mutexes :
          Owns(t, k)' <=> Owns(t, k) \/ (t = c /\ k = m)
    BY <1>1, <1>3 DEF Owns, Runs
  <2>2. \A t \in Threads : ~Owns(t, m)
    BY <1>1 DEF IInv, MutexInv, LockAccounted
  <2>3. MutualExclusion'
    BY <2>1, <2>2 DEF IInv, MutexInv, MutualExclusion
  <2>4. LockAccounted'
    BY <1>1, <1>4, <2>1 DEF IInv, MutexInv, LockAccounted, listVars
  <2>5. QED
    BY <2>3, <2>4 DEF MutexInv
<1>8. QED
  BY <1>5, <1>6, <1>7 DEF IInv

LEMMA WaitTakeStep ==
  ASSUME IInv, NEW c \in Contexts, NEW s \in Sems, WaitTake(c, s)
  PROVE  IInv'
<1>1. /\ c \in Threads /\ Runs(c, "run") /\ count[s] > 0
      /\ count' = [count EXCEPT ![s] = @ - 1]
      /\ taken' = [taken EXCEPT ![s] = @ + 1]
      /\ UNCHANGED <<state, listVars, current, cpu, pc, obj, threadVars, locked,
                     holds, posted>>
  BY DEF WaitTake, MayWait
<1>2. QueueInv' /\ PlaceInv' /\ CreateInv' /\ CpuInv'
  BY <1>1, QuietStep DEF Runs
<1>3. TypeOK'
  <2>1. count \in [Sems -> Nat] /\ taken \in [Sems -> Nat] /\ count[s] - 1 \in Nat
    BY <1>1 DEF IInv, TypeOK
  <2>2. count' \in [Sems -> Nat] /\ taken' \in [Sems -> Nat]
    BY <1>1, <2>1
  <2>3. QED
    BY <1>1, <2>2 DEF IInv, TypeOK, listVars, threadVars
<1>4. MutexInv'
  <2>1. \A t \in Threads, m \in Mutexes : Owns(t, m)' <=> Owns(t, m)
    BY <1>1 DEF Owns
  <2>2. QED
    BY <1>1, <2>1, MutexFrame DEF IInv, listVars
<1>5. QED
  BY <1>2, <1>3, <1>4 DEF IInv

(* A thread that leaves mutex_lock or sem_wait with the processor.          *)
LEMMA ReturnStep ==
  ASSUME IInv, NEW c \in Threads, NEW label \in {"lock", "wait"},
         Runs(c, label), pc' = Goto(c, "run"), obj' = [obj EXCEPT ![c] = NULL],
         \A t \in Threads \ {c} : holds'[t] = holds[t],
         UNCHANGED <<state, listVars, current, cpu>>
  PROVE  /\ QueueInv' /\ PlaceInv' /\ CreateInv' /\ CpuInv'
         /\ pc' \in PcFuns /\ obj' \in Places
         /\ pc'[c] = "run" /\ \A d \in Contexts \ {c} : pc'[d] = pc[d]
         /\ \A d \in Contexts \ {c} : obj'[d] = obj[d]
<1>1. /\ pc \in PcFuns /\ obj \in Places /\ c \in Contexts /\ c # Boot
  BY Types, ConstantsAssumption DEF IInv, Contexts
<1>2. current = c /\ state[c] = "RUNNING" /\ pc[c] = label /\ cpu = c
  BY Runner DEF Labels, Exiting, Runs
<1>3. /\ pc' \in PcFuns /\ obj' \in Places
      /\ pc'[c] = "run" /\ \A d \in Contexts \ {c} : pc'[d] = pc[d]
      /\ obj'[c] = NULL /\ \A d \in Contexts \ {c} : obj'[d] = obj[d]
  BY <1>1 DEF Goto, PcFuns, Places, Labels
<1>4. QueueInv'
  <2>1. \A u \in Threads : state[u] = "SLEEPING" => obj'[u] = obj[u]
    BY <1>2, <1>3 DEF Contexts
  <2>2. Asleep(state', obj') = Asleep(state, obj)
    BY <2>1 DEF Asleep
  <2>3. Ready(state', pc') = Ready(state, pc)
    BY <1>2, <1>3 DEF Ready, Contexts
  <2>4. QED
    BY <2>2, <2>3 DEF IInv, QueueInv, listVars
<1>5. PlaceInv'
  <2>1. pc'[Boot] \in Executing
    BY <1>1, <1>3 DEF IInv, PlaceInv, Contexts
  <2>2. ASSUME NEW u \in Threads
        PROVE  Placed(state', pc', obj', holds', u)
    <3>1. Placed(state, pc, obj, holds, u) /\ u \in Contexts
      BY DEF IInv, PlaceInv, Contexts
    <3>2. CASE u = c
      BY <1>2, <1>3, <3>2 DEF Placed, Exiting, Executing
    <3>3. CASE u # c
      BY <1>3, <3>1, <3>3 DEF Placed
    <3>4. QED
      BY <3>2, <3>3
  <2>3. QED
    BY <2>1, <2>2 DEF PlaceInv
<1>6. CreateInv'
  <2>1. ASSUME NEW d \in Contexts, pc'[d] \in Creating
        PROVE  Creation(state', pc', obj', d)
    <3>1. d # c /\ pc[d] \in Creating /\ obj'[d] = obj[d]
      BY <1>3, <2>1 DEF Creating
    <3>2. /\ obj[d] \in Threads /\ pc[obj[d]] = "made"
          /\ state[obj[d]] = IF pc[d] = "store" THEN "UNUSED" ELSE "READY"
          /\ \A e \in Contexts \ {d} : pc[e] \in Creating => obj[e] # obj[d]
      BY <3>1 DEF IInv, CreateInv, Creation
    <3>3. pc'[obj[d]] = "made"
      BY <1>2, <1>3, <3>2 DEF Contexts
    <3>4. \A e \in Contexts \ {d} : pc'[e] \in Creating => obj'[e] # obj[d]
      BY <1>3, <3>2 DEF Creating
    <3>5. QED
      BY <1>3, <3>1, <3>2, <3>3, <3>4 DEF Creation
  <2>2. QED
    BY <2>1 DEF CreateInv, Creation
<1>7. CpuInv'
  BY <1>2, ConstantsAssumption DEF IInv, CpuInv, OnlyRunning
<1>8. QED
  BY <1>3, <1>4, <1>5, <1>6, <1>7

(* Only a thread blocks.                                                    *)
LEMMA BlockedIsThread ==
  ASSUME IInv, NEW c \in Contexts, pc[c] \in {"lock", "wait"}
  PROVE  c \in Threads
  BY DEF IInv, PlaceInv, Executing, Creating, Contexts

LEMMA WaitReturnStep ==
  ASSUME IInv, NEW c \in Contexts, WaitReturn(c)
  PROVE  IInv'
<1>1. /\ pc[c] = "wait" /\ Runs(c, "wait") /\ pc' = Goto(c, "run")
      /\ obj' = [obj EXCEPT ![c] = NULL]
      /\ taken' = [taken EXCEPT ![obj[c]] = @ + 1]
      /\ UNCHANGED <<state, listVars, current, cpu, threadVars, locked, count,
                     holds, posted>>
  BY DEF WaitReturn, Runs
<1>2. c \in Threads
  BY <1>1, BlockedIsThread
<1>3. /\ QueueInv' /\ PlaceInv' /\ CreateInv' /\ CpuInv'
      /\ pc' \in PcFuns /\ obj' \in Places
      /\ pc'[c] = "run" /\ \A d \in Contexts \ {c} : pc'[d] = pc[d]
      /\ \A d \in Contexts \ {c} : obj'[d] = obj[d]
  BY <1>1, <1>2, ReturnStep
<1>4. TypeOK'
  <2>1. obj[c] \in Sems
    BY <1>1, <1>2 DEF IInv, PlaceInv, Placed
  <2>2. taken' \in [Sems -> Nat]
    BY <1>1, <2>1 DEF IInv, TypeOK
  <2>3. QED
    BY <1>1, <1>3, <2>2 DEF IInv, TypeOK, PcFuns, Places, listVars, threadVars
<1>5. MutexInv'
  <2>1. \A t \in Threads, m \in Mutexes : Owns(t, m)' <=> Owns(t, m)
    BY <1>1, <1>3 DEF Owns, Contexts
  <2>2. QED
    BY <1>1, <2>1, MutexFrame DEF IInv, listVars
<1>6. QED
  BY <1>3, <1>4, <1>5 DEF IInv

LEMMA LockReturnStep ==
  ASSUME IInv, NEW c \in Contexts, LockReturn(c)
  PROVE  IInv'
<1>1. /\ pc[c] = "lock" /\ Runs(c, "lock") /\ pc' = Goto(c, "run")
      /\ obj' = [obj EXCEPT ![c] = NULL]
      /\ holds' = [holds EXCEPT ![c] = @ \cup {obj[c]}]
      /\ UNCHANGED <<state, listVars, current, cpu, threadVars, locked, count,
                     posted, taken>>
  BY DEF LockReturn, Runs
<1>2. c \in Threads
  BY <1>1, BlockedIsThread
<1>3. /\ holds \in [Threads -> SUBSET Mutexes] /\ obj[c] \in Mutexes
      /\ holds[c] = {} /\ state[c] = "RUNNING"
  <2>1. Placed(state, pc, obj, holds, c)
    BY <1>2 DEF IInv, PlaceInv
  <2>2. state[c] = "RUNNING"
    BY <1>1, <1>2, Runner DEF Labels, Exiting
  <2>3. QED
    BY <1>1, <2>1, <2>2 DEF IInv, TypeOK, Placed, Executing, Creating
<1>4. /\ holds'[c] = {obj[c]} /\ \A t \in Threads \ {c} : holds'[t] = holds[t]
      /\ holds' \in [Threads -> SUBSET Mutexes]
  BY <1>1, <1>2, <1>3
<1>5. /\ QueueInv' /\ PlaceInv' /\ CreateInv' /\ CpuInv'
      /\ pc' \in PcFuns /\ obj' \in Places
      /\ pc'[c] = "run" /\ \A d \in Contexts \ {c} : pc'[d] = pc[d]
      /\ \A d \in Contexts \ {c} : obj'[d] = obj[d]
  BY <1>1, <1>2, <1>4, ReturnStep
<1>6. TypeOK'
  BY <1>1, <1>4, <1>5 DEF IInv, TypeOK, PcFuns, Places, listVars, threadVars
<1>7. MutexInv'
  <2>1. ASSUME NEW t \in Threads, NEW m \in Mutexes
        PROVE  Owns(t, m)' <=> Owns(t, m)
    <3>1. CASE t = c
      BY <1>1, <1>3, <1>4, <1>5, <3>1 DEF Owns
    <3>2. CASE t # c
      BY <1>1, <1>4, <1>5, <3>2 DEF Owns, Contexts
    <3>3. QED
      BY <3>1, <3>2
  <2>2. QED
    BY <1>1, <2>1, MutexFrame DEF IInv, listVars
<1>8. QED
  BY <1>5, <1>6, <1>7 DEF IInv

(* Waking the first waiter of x.                                            *)
LEMMA WakeStep ==
  ASSUME IInv, NEW c \in Threads, Runs(c, "run"), NEW x \in Waitables,
         wait[x].head # NULL, Wake(x),
         \A t \in Threads \ {c} : holds'[t] = holds[t],
         UNCHANGED <<current, cpu, pc, obj>>
  PROVE  /\ QueueInv' /\ PlaceInv' /\ CreateInv' /\ CpuInv'
         /\ run' \in Lists /\ next' \in Links /\ wait' \in WaitLists
         /\ state' \in States
         /\ wait[x].head \in Threads \ {c}
         /\ state[wait[x].head] = "SLEEPING" /\ obj[wait[x].head] = x
         /\ state' = [state EXCEPT ![wait[x].head] = "READY"]
<1> DEFINE t == wait[x].head
<1>1. /\ state \in States /\ next \in Links /\ run \in Lists
      /\ wait \in WaitLists /\ obj \in Places
  BY Types DEF IInv
<1>2. /\ run' \in Lists /\ next' \in Links /\ wait' \in WaitLists
      /\ state' \in States /\ QueueInv' /\ t \in Threads
      /\ state[t] = "SLEEPING" /\ obj[t] = x
      /\ state' = [state EXCEPT ![t] = "READY"]
  <2>1. Unmade(state, pc) /\ QueueInv
    BY DEF IInv, PlaceInv, Placed, Unmade
  <2>2. QED
    BY <1>1, <2>1, WakeEffect
<1>3. state'[t] = "READY" /\ \A u \in Threads \ {t} : state'[u] = state[u]
  BY <1>1, <1>2 DEF States
<1>4. current = c /\ state[c] = "RUNNING" /\ t # c
  BY <1>2, Runner DEF Labels, Exiting
<1>5. PlaceInv'
  <2>1. ASSUME NEW u \in Threads
        PROVE  Placed(state', pc', obj', holds', u)
    <3>1. Placed(state, pc, obj, holds, u)
      BY DEF IInv, PlaceInv
    <3>2. CASE u = t
      BY <1>2, <1>3, <1>4, <3>1, <3>2 DEF Placed, Exiting
    <3>3. CASE u = c
      BY <1>3, <1>4, <3>1, <3>3 DEF Placed, Runs, Executing
    <3>4. CASE u # t /\ u # c
      BY <1>3, <3>1, <3>4 DEF Placed
    <3>5. QED
      BY <3>2, <3>3, <3>4
  <2>2. QED
    BY <2>1 DEF IInv, PlaceInv
<1>6. CreateInv'
  <2>1. pc[t] # "made"
    BY <1>2 DEF IInv, PlaceInv, Placed
  <2>2. ASSUME NEW d \in Contexts
        PROVE  Creation(state', pc', obj', d)
    BY <1>3, <2>1 DEF IInv, CreateInv, Creation
  <2>3. QED
    BY <2>2 DEF CreateInv
<1>7. CpuInv'
  BY <1>3, <1>4, ConstantsAssumption DEF IInv, CpuInv, OnlyRunning
<1>8. QED
  BY <1>2, <1>4, <1>5, <1>6, <1>7

LEMMA PostStep ==
  ASSUME IInv, NEW c \in Contexts, NEW s \in Sems, Post(c, s)
  PROVE  IInv'
<1>1. /\ c \in Threads /\ Runs(c, "run") /\ s \in Waitables
      /\ posted' = [posted EXCEPT ![s] = @ + 1]
      /\ UNCHANGED <<current, cpu, pc, obj, threadVars, locked, holds, taken>>
  BY DEF Post, Waitables
<1>2. posted' \in [Sems -> Nat]
  BY <1>1 DEF IInv, TypeOK
<1>3. CASE wait[s].head # NULL
  <2> DEFINE t == wait[s].head
  <2>1. Wake(s) /\ count' = count
    BY <1>3 DEF Post
  <2>2. /\ QueueInv' /\ PlaceInv' /\ CreateInv' /\ CpuInv'
        /\ run' \in Lists /\ next' \in Links /\ wait' \in WaitLists
        /\ state' \in States /\ t \in Threads
        /\ state[t] = "SLEEPING" /\ obj[t] = s
        /\ state' = [state EXCEPT ![t] = "READY"]
    BY <1>1, <1>3, <2>1, WakeStep
  <2>3. TypeOK'
    BY <1>1, <1>2, <2>1, <2>2
       DEF IInv, TypeOK, States, Links, WaitLists, threadVars
  <2>4. MutexInv'
    <3>1. pc[t] # "lock"
      BY <2>2, ConstantsAssumption DEF IInv, PlaceInv, Placed
    <3>2. \A u \in Threads \ {t} : state'[u] = state[u]
      BY <2>2
    <3>3. \A u \in Threads, m \in Mutexes : Owns(u, m)' <=> Owns(u, m)
      BY <1>1, <3>1, <3>2 DEF Owns
    <3>4. \A m \in Mutexes : wait'[m] = wait[m]
      <4>1. wait' = [wait EXCEPT ![s] = Pop(wait[s], next).list]
        BY <2>1 DEF Wake
      <4>2. \A m \in Mutexes : m # s /\ m \in Waitables
        BY ConstantsAssumption DEF Waitables
      <4>3. wait \in WaitLists
        BY Types DEF IInv
      <4>4. QED
        BY <4>1, <4>2, <4>3 DEF WaitLists
    <3>5. QED
      BY <1>1, <3>3, <3>4, MutexFrame DEF IInv
  <2>5. QED
    BY <2>2, <2>3, <2>4 DEF IInv
<1>4. CASE wait[s].head = NULL
  <2>1. /\ count' = [count EXCEPT ![s] = @ + 1]
        /\ UNCHANGED <<state, listVars>>
    BY <1>4 DEF Post
  <2>2. QueueInv' /\ PlaceInv' /\ CreateInv' /\ CpuInv'
    BY <1>1, <2>1, QuietStep DEF Runs
  <2>3. TypeOK'
    <3>1. count' \in [Sems -> Nat]
      BY <2>1 DEF IInv, TypeOK
    <3>2. QED
      BY <1>1, <1>2, <2>1, <3>1 DEF IInv, TypeOK, listVars, threadVars
  <2>4. MutexInv'
    <3>1. \A u \in Threads, m \in Mutexes : Owns(u, m)' <=> Owns(u, m)
      BY <1>1, <2>1 DEF Owns
    <3>2. QED
      BY <1>1, <2>1, <3>1, MutexFrame DEF IInv, listVars
  <2>5. QED
    BY <2>2, <2>3, <2>4 DEF IInv
<1>5. QED
  BY <1>3, <1>4

LEMMA UnlockStep ==
  ASSUME IInv, NEW c \in Contexts, NEW m \in Mutexes, Unlock(c, m)
  PROVE  IInv'
<1>1. /\ c \in Threads /\ Runs(c, "run") /\ pc[c] = "run" /\ m \in holds[c]
      /\ m \in Waitables
      /\ holds' = [holds EXCEPT ![c] = @ \ {m}]
      /\ UNCHANGED <<current, cpu, pc, obj, threadVars, count, posted, taken>>
  BY DEF Unlock, Runs, Waitables
<1>2. holds \in [Threads -> SUBSET Mutexes] /\ holds' \in [Threads -> SUBSET Mutexes]
  BY <1>1 DEF IInv, TypeOK
<1>3. holds'[c] = holds[c] \ {m} /\ \A t \in Threads \ {c} : holds'[t] = holds[t]
  BY <1>1, <1>2
<1>4. \A u \in Threads : Owns(u, m) <=> u = c
  BY <1>1 DEF IInv, MutexInv, MutualExclusion, Owns
<1>5. CASE wait[m].head # NULL
  <2> DEFINE t == wait[m].head
  <2>1. Wake(m) /\ locked' = locked
    BY <1>5 DEF Unlock
  <2>2. /\ QueueInv' /\ PlaceInv' /\ CreateInv' /\ CpuInv'
        /\ run' \in Lists /\ next' \in Links /\ wait' \in WaitLists
        /\ state' \in States /\ t \in Threads \ {c}
        /\ state[t] = "SLEEPING" /\ obj[t] = m
        /\ state' = [state EXCEPT ![t] = "READY"]
    BY <1>1, <1>3, <1>5, <2>1, WakeStep
  <2>3. TypeOK'
    BY <1>1, <1>2, <2>1, <2>2
       DEF IInv, TypeOK, States, Links, WaitLists, threadVars
  <2>4. pc[t] = "lock" /\ holds[t] = {}
    BY <2>2, ConstantsAssumption
       DEF IInv, PlaceInv, Placed, Executing, Creating
  <2>5. state'[t] = "READY" /\ \A u \in Threads \ {t} : state'[u] = state[u]
    BY <2>2, Types DEF IInv, States
  <2>6. \A u \in Threads : Owns(u, m)' <=> u = t
    <3>1. SUFFICES ASSUME NEW u \in Threads
                   PROVE  Owns(u, m)' <=> u = t
      OBVIOUS
    <3>2. CASE u = t
      BY <1>1, <2>2, <2>4, <2>5, <3>2 DEF Owns
    <3>3. CASE u = c
      BY <1>1, <1>3, <2>2, <3>3 DEF Owns
    <3>4. CASE u # t /\ u # c
      BY <1>1, <1>3, <1>4, <2>5, <3>4 DEF Owns
    <3>5. QED
      BY <3>2, <3>3, <3>4
  <2>7. ASSUME NEW u \in Threads, NEW k \in Mutexes \ {m}
        PROVE  Owns(u, k)' <=> Owns(u, k)
    <3>1. CASE u = t
      BY <1>1, <1>3, <2>2, <2>4, <3>1 DEF Owns
    <3>2. CASE u = c
      BY <1>1, <1>3, <2>7, <3>2 DEF Owns
    <3>3. CASE u # t /\ u # c
      BY <1>1, <1>3, <2>5, <3>3 DEF Owns
    <3>4. QED
      BY <3>1, <3>2, <3>3
  <2>8. \A k \in Mutexes \ {m} : wait'[k] = wait[k]
    <3>1. wait' = [wait EXCEPT ![m] = Pop(wait[m], next).list]
      BY <2>1 DEF Wake
    <3>2. wait \in WaitLists
      BY Types DEF IInv
    <3>3. QED
      BY <3>1, <3>2 DEF WaitLists, Waitables
  <2>9. MutualExclusion'
    BY <2>6, <2>7 DEF IInv, MutexInv, MutualExclusion
  <2>10. LockAccounted'
    <3>1. locked[m]
      BY <1>1, <1>4 DEF IInv, MutexInv, LockAccounted
    <3>2. ASSUME NEW k \in Mutexes
          PROVE  /\ locked'[k] <=> \E u \in Threads : Owns(u, k)'
                 /\ wait'[k].head # NULL => locked'[k]
      <4>1. CASE k = m
        BY <2>1, <2>2, <2>6, <3>1, <4>1
      <4>2. CASE k # m
        BY <2>1, <2>7, <2>8, <4>2 DEF IInv, MutexInv, LockAccounted
      <4>3. QED
        BY <4>1, <4>2
    <3>3. QED
      BY <3>2 DEF LockAccounted
  <2>11. QED
    BY <2>2, <2>3, <2>9, <2>10 DEF IInv, MutexInv
<1>6. CASE wait[m].head = NULL
  <2>1. /\ locked' = [locked EXCEPT ![m] = FALSE]
        /\ UNCHANGED <<state, listVars>>
    BY <1>6 DEF Unlock
  <2>2. QueueInv' /\ PlaceInv' /\ CreateInv' /\ CpuInv'
    BY <1>1, <1>3, <2>1, QuietStep DEF Runs
  <2>3. locked \in [Mutexes -> BOOLEAN] /\ locked' \in [Mutexes -> BOOLEAN]
    BY <2>1 DEF IInv, TypeOK
  <2>4. TypeOK'
    BY <1>1, <1>2, <2>1, <2>3 DEF IInv, TypeOK, listVars, threadVars
  <2>5. \A u \in Threads, k \in Mutexes : Owns(u, k)' <=> Owns(u, k) /\ k # m
    <3>1. SUFFICES ASSUME NEW u \in Threads, NEW k \in Mutexes
                   PROVE  Owns(u, k)' <=> Owns(u, k) /\ k # m
      OBVIOUS
    <3>2. CASE u = c
      BY <1>1, <1>3, <2>1, <3>2 DEF Owns
    <3>3. CASE u # c
      BY <1>1, <1>3, <1>4, <2>1, <3>3 DEF Owns
    <3>4. QED
      BY <3>2, <3>3
  <2>6. MutualExclusion'
    BY <2>5 DEF IInv, MutexInv, MutualExclusion
  <2>7. LockAccounted'
    <3>1. ~locked'[m] /\ \A k \in Mutexes \ {m} : locked'[k] = locked[k]
      BY <2>1, <2>3
    <3>2. wait' = wait
      BY <2>1 DEF listVars
    <3>3. QED
      BY <1>6, <2>5, <3>1, <3>2 DEF IInv, MutexInv, LockAccounted
  <2>8. QED
    BY <2>2, <2>4, <2>6, <2>7 DEF IInv, MutexInv
<1>7. QED
  BY <1>5, <1>6

-----------------------------------------------------------------------------
LEMMA InitIInv ==
  ASSUME Init
  PROVE  IInv
<1>1. TypeOK
  BY ConstantsAssumption
     DEF Init, TypeOK, ThreadStates, Lists, EmptyList, Contexts, Labels
<1>2. QueueInv
  <2>1. Ready(state, pc) = {} /\ \A w \in Waitables : Asleep(state, obj)[w] = {}
    BY DEF Init, Ready, Asleep
  <2>2. PICK rk \in Ranks : rk = [t \in Threads |-> 0]
    BY DEF Ranks
  <2>3. \A l \in Lists : l = EmptyList => IsList(l, next, {}, rk)
    BY DEF IsList, EmptyList
  <2>4. /\ run \in Lists /\ run = EmptyList
        /\ \A w \in Waitables : wait[w] \in Lists /\ wait[w] = EmptyList
    BY <1>1 DEF Init, TypeOK
  <2>5. Ordered(run, wait, next, Ready(state, pc), Asleep(state, obj), rk)
    BY <2>1, <2>3, <2>4 DEF Ordered
  <2>6. QED
    BY <2>2, <2>5 DEF QueueInv, InOrder
<1>3. PlaceInv
  <2>1. pc[Boot] = "run" /\ \A t \in Threads : pc[t] = "none"
    BY ConstantsAssumption DEF Init, Contexts
  <2>2. QED
    BY <2>1 DEF Init, PlaceInv, Placed, Executing, Exiting
<1>4. CreateInv
  BY DEF Init, CreateInv, Creation, Creating
<1>5. CpuInv
  BY DEF Init, CpuInv, OnlyRunning
<1>6. MutexInv
  BY DEF Init, MutexInv, MutualExclusion, LockAccounted, Owns, EmptyList,
         Waitables, Contexts
<1>7. QED
  BY <1>1, <1>2, <1>3, <1>4, <1>5, <1>6 DEF IInv

LEMMA StutterIInv ==
  ASSUME IInv, UNCHANGED vars
  PROVE  IInv'
<1>1. TypeOK'
  BY DEF IInv, TypeOK, vars, listVars, threadVars, syncVars
<1>2. QueueInv'
  BY DEF IInv, QueueInv, vars, listVars
<1>3. PlaceInv' /\ CreateInv' /\ CpuInv'
  BY DEF IInv, PlaceInv, CreateInv, CpuInv, OnlyRunning, vars, syncVars
<1>4. MutexInv'
  <2>1. \A t \in Threads, m \in Mutexes : Owns(t, m)' <=> Owns(t, m)
    BY DEF Owns, vars, syncVars
  <2>2. QED
    BY <2>1, MutexFrame DEF IInv, vars, listVars, syncVars
<1>5. QED
  BY <1>1, <1>2, <1>3, <1>4 DEF IInv

LEMMA NextIInv ==
  ASSUME NeedResident, IInv, [Next]_vars
  PROVE  IInv'
<1>1. CASE Tick
  BY <1>1, TickStep
<1>2. ASSUME NEW c \in Contexts, YieldCheck(c) \/ YieldSwitch(c)
      PROVE  IInv'
  BY <1>2, YieldCheckStep, YieldSwitchStep
<1>3. ASSUME NEW c \in Contexts,
             \/ \E t \in Threads, s \in StackMem : CreateAlloc(c, t, s)
             \/ CreateStore(c) \/ CreateEnqueue(c)
      PROVE  IInv'
  BY <1>3, CreateAllocStep, CreateStoreStep, CreateEnqueueStep
<1>4. ASSUME NEW c \in Contexts, NEW m \in Mutexes,
             LockFree(c, m) \/ LockBlock(c, m) \/ Unlock(c, m)
      PROVE  IInv'
  BY <1>4, LockFreeStep, LockBlockStep, UnlockStep
<1>5. ASSUME NEW c \in Contexts, NEW s \in Sems,
             WaitTake(c, s) \/ WaitBlock(c, s) \/ Post(c, s)
      PROVE  IInv'
  BY <1>5, WaitTakeStep, WaitBlockStep, PostStep
<1>6. ASSUME NEW c \in Contexts, LockReturn(c) \/ WaitReturn(c)
      PROVE  IInv'
  BY <1>6, LockReturnStep, WaitReturnStep
<1>7. ASSUME NEW c \in Contexts,
             ExitZombie(c) \/ ExitFree(c) \/ ExitDetach(c) \/ ExitSwitch(c)
      PROVE  IInv'
  BY <1>7, ExitZombieStep, ExitFreeStep, ExitDetachStep, ExitSwitchStep
<1>8. CASE UNCHANGED vars
  BY <1>8, StutterIInv
<1>9. QED
  BY <1>1, <1>2, <1>3, <1>4, <1>5, <1>6, <1>7, <1>8 DEF Next

-----------------------------------------------------------------------------
(* Every reachable state of the threads package satisfies the invariant, as *)
(* long as the threads use semaphores only beside a resident thread.        *)
THEOREM Invariance ==
  ASSUME NeedResident
  PROVE  Spec => []IInv
<1>1. Init => IInv
  BY InitIInv
<1>2. IInv /\ [Next]_vars => IInv'
  BY NextIInv
<1>3. QED
  BY <1>1, <1>2, PTL DEF Spec

(* Whatever the interleaving, every field keeps its type.                   *)
THEOREM TypeCorrect ==
  ASSUME NeedResident
  PROVE  Spec => []TypeOK
<1>1. IInv => TypeOK
  BY DEF IInv
<1>2. QED
  BY <1>1, Invariance, PTL

(* mutex_lock and mutex_unlock give mutual exclusion, for any number of     *)
(* threads and mutexes, through every hand-off, preemption and exit.        *)
THEOREM MutexExcludes ==
  ASSUME NeedResident
  PROVE  Spec => []MutualExclusion
<1>1. IInv => MutualExclusion
  BY DEF IInv, MutexInv
<1>2. QED
  BY <1>1, Invariance, PTL

(* A mutex is locked exactly while somebody owns it: no hand-off of         *)
(* mutex_unlock is ever lost, and nobody sleeps for a mutex that is free.   *)
THEOREM MutexAccounted ==
  ASSUME NeedResident
  PROVE  Spec => []LockAccounted
<1>1. IInv => LockAccounted
  BY DEF IInv, MutexInv
<1>2. QED
  BY <1>1, Invariance, PTL

(* The lists of the package are lists, of exactly the threads they should   *)
(* hold: the run queue of the READY threads that thread_create is done      *)
(* with, each wait list of the threads that sleep for it; no thread is on   *)
(* two lists.                                                               *)
THEOREM ListsIntact ==
  ASSUME NeedResident
  PROVE  Spec => []QueueInv
<1>1. IInv => QueueInv
  BY DEF IInv
<1>2. QED
  BY <1>1, Invariance, PTL
=============================================================================
