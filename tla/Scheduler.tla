------------------------------ MODULE Scheduler ------------------------------
(****************************************************************************)
(* The kernel threads package, src/drivers/thread/src/scheduler.c: thread   *)
(* creation, the FIFO run queue, schedule() with its context switch, the    *)
(* preemption tick, thread exit, mutexes and counting semaphores.           *)
(*                                                                          *)
(* There is one processor.  The package masks interrupts around every use   *)
(* of its queues (save_irq_state ... restore_irq_state), so such a section  *)
(* is one step here; everywhere else interrupts are enabled and the timer   *)
(* may strike between any two steps.  A context that is switched out keeps  *)
(* its place in pc and goes on from there when it is switched in again.     *)
(*                                                                          *)
(* What the threads do with the package is left open, within the discipline *)
(* of MayLock, MayWait and MayExit below.                                   *)
(****************************************************************************)
EXTENDS Naturals, Sequences, FiniteSets

CONSTANTS
  Threads,      \* the thread_t objects; kmalloc never gets one back
  Mutexes,      \* the mutex_t objects the threads share
  Sems,         \* the semaphore_t objects the threads share
  StackMem,     \* the heap blocks that can hold a thread's stack
  Fits,         \* the blocks large enough for the stack a thread asks for
  Boot,         \* the context kmain runs in: it has no thread_t
  NULL,
  Creators,     \* the contexts that call thread_create
  Resident,     \* threads that neither exit nor wait on a semaphore
  NeedResident, \* whether semaphores are used only once a resident exists
  SemInit,      \* the count sem_init gives each semaphore
  MaxPosts      \* bound: how often sem_post is called on each semaphore

Contexts == Threads \cup {Boot}
Waitables == Mutexes \cup Sems

ASSUME ConstantsAssumption ==
  /\ IsFiniteSet(Threads)
  /\ NULL \notin Threads \cup Waitables \cup StackMem
  /\ Boot \notin Threads \cup {NULL}
  /\ Mutexes \cap Sems = {}
  /\ Fits \in [Threads -> SUBSET StackMem]
  /\ Creators \subseteq Contexts
  /\ Resident \subseteq Threads
  /\ NeedResident \in BOOLEAN
  /\ SemInit \in [Sems -> Nat]
  /\ MaxPosts \in Nat

VARIABLES
  state,     \* thread_t.state, or "UNUSED" before thread_create sets it READY
  next,      \* thread_t.next: the link of the one list the thread is on
  stack,     \* thread_t.stack
  esp,       \* the block the thread's saved context lives in
  id,        \* thread_t.id
  run,       \* run_head and run_tail
  current,   \* the running thread, as the scheduler believes
  next_tid,
  wait,      \* wait_head and wait_tail of each mutex and semaphore
  locked,    \* mutex_t.locked
  count,     \* semaphore_t.count
  cpu,       \* the context the processor really executes
  pc,        \* where each context is
  obj,       \* what the call at pc works on: a thread, mutex or semaphore
  reg,       \* the thread id a creator has loaded from next_tid
  holds,     \* the mutexes each thread has locked and not yet unlocked
  posted,    \* completed calls of sem_post
  taken      \* completed calls of sem_wait

listVars == <<run, next, wait>>
threadVars == <<stack, esp, id, next_tid, reg>>
syncVars == <<locked, count, holds, posted, taken>>
vars == <<state, listVars, current, cpu, pc, obj, threadVars, syncVars>>

ThreadStates == {"UNUSED", "READY", "RUNNING", "ZOMBIE", "SLEEPING"}

(****************************************************************************)
(* "made"   thread_t allocated, enqueue_thread still to come                *)
(* "new"    enqueued; its first switch-in enters the trampoline             *)
(* "run"    the caller's own code                                           *)
(* "store", "enqueue"        thread_create, before that statement           *)
(* "yield"  thread_yield, past its quick check                              *)
(* "lock", "wait"            mutex_lock or sem_wait, after schedule()       *)
(* "free", "detach", "leave" thread_exit, before that statement             *)
(* "spin"   the endless loop that ends thread_exit                          *)
(****************************************************************************)
Labels == {"none", "made", "new", "run", "store", "enqueue", "yield", "lock",
           "wait", "free", "detach", "leave", "spin"}

Lists == [head : Threads \cup {NULL}, tail : Threads \cup {NULL}]
EmptyList == [head |-> NULL, tail |-> NULL]

TypeOK ==
  /\ state \in [Threads -> ThreadStates]
  /\ next \in [Threads -> Threads \cup {NULL}]
  /\ stack \in [Threads -> StackMem \cup {NULL}]
  /\ esp \in [Threads -> StackMem \cup {NULL}]
  /\ id \in [Threads -> Nat]
  /\ run \in Lists
  /\ current \in Threads \cup {NULL}
  /\ next_tid \in Nat
  /\ wait \in [Waitables -> Lists]
  /\ locked \in [Mutexes -> BOOLEAN]
  /\ count \in [Sems -> Nat]
  /\ cpu \in Contexts
  /\ pc \in [Contexts -> Labels]
  /\ obj \in [Contexts -> Threads \cup Waitables \cup {NULL}]
  /\ reg \in [Contexts -> Nat]
  /\ holds \in [Threads -> SUBSET Mutexes]
  /\ posted \in [Sems -> Nat]
  /\ taken \in [Sems -> Nat]

-----------------------------------------------------------------------------
(* thread_system_init, mutex_init and sem_init, then kmain's "sti".         *)
Init ==
  /\ state = [t \in Threads |-> "UNUSED"]
  /\ next = [t \in Threads |-> NULL]
  /\ stack = [t \in Threads |-> NULL]
  /\ esp = [t \in Threads |-> NULL]
  /\ id = [t \in Threads |-> 0]
  /\ run = EmptyList
  /\ current = NULL
  /\ next_tid = 1
  /\ wait = [w \in Waitables |-> EmptyList]
  /\ locked = [m \in Mutexes |-> FALSE]
  /\ count = SemInit
  /\ cpu = Boot
  /\ pc = [c \in Contexts |-> IF c = Boot THEN "run" ELSE "none"]
  /\ obj = [c \in Contexts |-> NULL]
  /\ reg = [c \in Contexts |-> 0]
  /\ holds = [t \in Threads |-> {}]
  /\ posted = [s \in Sems |-> 0]
  /\ taken = [s \in Sems |-> 0]

-----------------------------------------------------------------------------
(* The intrusive lists.  A result pairs the list with the new links.        *)

(* Mutant of Push: the thread goes to the head, as on a stack.              *)
PushAtHead(l, nx, t) ==
  [list |-> [head |-> t, tail |-> IF l.head = NULL THEN t ELSE l.tail],
   next |-> [nx EXCEPT ![t] = l.head]]

(* enqueue_thread_locked; mutex_lock and sem_wait append the same way.      *)
Push(l, nx, t) ==
  LET cleared == [nx EXCEPT ![t] = NULL]
  IN  IF l.head = NULL
      THEN [list |-> [head |-> t, tail |-> t], next |-> cleared]
      ELSE [list |-> [head |-> l.head, tail |-> t],
            next |-> [cleared EXCEPT ![l.tail] = t]]

(* Mutant of Pop: the tail survives when the list becomes empty.            *)
PopKeepingTail(l, nx) ==
  [list |-> [head |-> nx[l.head], tail |-> l.tail],
   next |-> [nx EXCEPT ![l.head] = NULL]]

(* dequeue_thread_locked on a list that is not empty; mutex_unlock and      *)
(* sem_post take a waiter off the same way.                                 *)
Pop(l, nx) ==
  LET h == nx[l.head]
  IN  [list |-> [head |-> h, tail |-> IF h = NULL THEN NULL ELSE l.tail],
       next |-> [nx EXCEPT ![l.head] = NULL]]

(****************************************************************************)
(* schedule(), called with thread states st, links nx and places pcs: the   *)
(* head of the run queue takes the processor; the thread that had it goes   *)
(* to the tail if it is still RUNNING.  With an empty run queue schedule()  *)
(* returns to its caller at once.  A new thread starts in the trampoline,   *)
(* which enables interrupts and calls the thread's function.                *)
(****************************************************************************)
\* Mutant of Requeues: schedule() without its test for RUNNING.
RequeuesAlways(st) == current # NULL

Requeues(st) == current # NULL /\ st[current] = "RUNNING"

Schedule(st, nx, pcs) ==
  \/ /\ run.head = NULL
     /\ state' = st
     /\ next' = nx
     /\ pc' = pcs
     /\ UNCHANGED <<run, current, cpu>>
  \/ /\ run.head # NULL
     /\ LET n == run.head
            popped == Pop(run, nx)
            requeued == IF Requeues(st)
                        THEN Push(popped.list, popped.next, current)
                        ELSE popped
        IN  /\ run' = requeued.list
            /\ next' = requeued.next
            /\ state' = [t \in Threads |->
                           IF t = n THEN "RUNNING"
                           ELSE IF t = current /\ Requeues(st) THEN "READY"
                           ELSE st[t]]
            /\ current' = n
            /\ cpu' = n
            /\ pc' = IF pcs[n] = "new" THEN [pcs EXCEPT ![n] = "run"] ELSE pcs

Goto(c, label) == [pc EXCEPT ![c] = label]

Runs(c, label) == cpu = c /\ pc[c] = label

-----------------------------------------------------------------------------
(* scheduler_tick_from_irq, called by the PIT's handler on IRQ 0.           *)
Tick ==
  /\ run.head # NULL
  /\ Schedule(state, next, pc)
  /\ UNCHANGED <<wait, obj, threadVars, syncVars>>

(* thread_yield: the quick check reads run_head with interrupts enabled.    *)
YieldCheck(c) ==
  /\ Runs(c, "run")
  /\ run.head \notin {NULL, current}
  /\ pc' = Goto(c, "yield")
  /\ UNCHANGED <<state, listVars, current, cpu, obj, threadVars, syncVars>>

YieldSwitch(c) ==
  /\ Runs(c, "yield")
  /\ Schedule(state, next, Goto(c, "run"))
  /\ UNCHANGED <<wait, obj, threadVars, syncVars>>

-----------------------------------------------------------------------------
(* thread_create.  When either kmalloc fails it returns 0 and nothing       *)
(* changes.  next_tid++ is a load and a store, not one step.  Only the      *)
(* enqueue masks interrupts: a tick may find the thread READY, its stack    *)
(* not yet prepared, and on no queue.                                       *)
CreateAlloc(c, t, s) ==
  /\ Runs(c, "run")
  /\ c \in Creators
  /\ pc[t] = "none"
  /\ s \in Fits[t]
  /\ \A u \in Threads : stack[u] # s
  /\ stack' = [stack EXCEPT ![t] = s]
  /\ obj' = [obj EXCEPT ![c] = t]
  /\ reg' = [reg EXCEPT ![c] = next_tid]
  /\ pc' = [pc EXCEPT ![c] = "store", ![t] = "made"]
  /\ UNCHANGED <<state, listVars, current, cpu, esp, id, next_tid, syncVars>>

CreateStore(c) ==
  /\ Runs(c, "store")
  /\ id' = [id EXCEPT ![obj[c]] = reg[c]]
  /\ next_tid' = reg[c] + 1
  /\ state' = [state EXCEPT ![obj[c]] = "READY"]
  /\ reg' = [reg EXCEPT ![c] = 0]
  /\ pc' = Goto(c, "enqueue")
  /\ UNCHANGED <<listVars, current, cpu, obj, stack, esp, syncVars>>

CreateEnqueue(c) ==
  /\ Runs(c, "enqueue")
  /\ LET pushed == Push(run, next, obj[c])
     IN  run' = pushed.list /\ next' = pushed.next
  /\ esp' = [esp EXCEPT ![obj[c]] = stack[obj[c]]]
  /\ obj' = [obj EXCEPT ![c] = NULL]
  /\ pc' = [pc EXCEPT ![c] = "run", ![obj[c]] = "new"]
  /\ UNCHANGED <<state, wait, current, cpu, stack, id, next_tid, reg, syncVars>>

-----------------------------------------------------------------------------
(****************************************************************************)
(* The discipline of the threads.  Like the threads of kmain.c, a thread    *)
(* holds one mutex at a time, unlocks what it locked and does not block on  *)
(* anything else or exit while it holds one.                                *)
(****************************************************************************)
(* thread_create has put thread t on the run queue.                         *)
Enqueued(t) == pc[t] \notin {"none", "made"}

MayLock(c) == c \in Threads /\ holds[c] = {}

MayWait(c) ==
  /\ c \in Threads \ Resident
  /\ holds[c] = {}
  /\ NeedResident => \E r \in Resident : Enqueued(r)

MayExit(c) == c \in Threads \ Resident /\ holds[c] = {}

(* The blocking half of mutex_lock and of sem_wait.                         *)
Block(c, w, label) ==
  /\ LET pushed == Push(wait[w], next, current)
     IN  /\ wait' = [wait EXCEPT ![w] = pushed.list]
         /\ Schedule([state EXCEPT ![current] = "SLEEPING"], pushed.next,
                     Goto(c, label))
  /\ obj' = [obj EXCEPT ![c] = w]

(* The waking half of mutex_unlock and of sem_post.                         *)
Wake(w) ==
  LET t == wait[w].head
      popped == Pop(wait[w], next)
      pushed == Push(run, popped.next, t)
  IN  /\ wait' = [wait EXCEPT ![w] = popped.list]
      /\ run' = pushed.list
      /\ next' = pushed.next
      /\ state' = [state EXCEPT ![t] = "READY"]

(* mutex_lock *)
LockFree(c, m) ==
  /\ Runs(c, "run") /\ MayLock(c)
  /\ ~locked[m]
  /\ locked' = [locked EXCEPT ![m] = TRUE]
  /\ holds' = [holds EXCEPT ![c] = @ \cup {m}]
  /\ UNCHANGED <<state, listVars, current, cpu, pc, obj, threadVars, count,
                 posted, taken>>

LockBlock(c, m) ==
  /\ Runs(c, "run") /\ MayLock(c)
  /\ locked[m]
  /\ Block(c, m, "lock")
  /\ UNCHANGED <<threadVars, syncVars>>

LockReturn(c) ==
  /\ Runs(c, "lock")
  /\ holds' = [holds EXCEPT ![c] = @ \cup {obj[c]}]
  /\ obj' = [obj EXCEPT ![c] = NULL]
  /\ pc' = Goto(c, "run")
  /\ UNCHANGED <<state, listVars, current, cpu, threadVars, locked, count,
                 posted, taken>>

(* Mutants of Unlock.  One clears "locked" although it hands the mutex to a *)
(* waiter, one forgets to clear it, one clears it and wakes nobody.         *)
UnlockClearing(c, m) ==
  /\ Runs(c, "run") /\ c \in Threads /\ m \in holds[c]
  /\ locked' = [locked EXCEPT ![m] = FALSE]
  /\ IF wait[m].head # NULL THEN Wake(m) ELSE UNCHANGED <<state, listVars>>
  /\ holds' = [holds EXCEPT ![c] = @ \ {m}]
  /\ UNCHANGED <<current, cpu, pc, obj, threadVars, count, posted, taken>>

UnlockForgetting(c, m) ==
  /\ Runs(c, "run") /\ c \in Threads /\ m \in holds[c]
  /\ IF wait[m].head # NULL THEN Wake(m) ELSE UNCHANGED <<state, listVars>>
  /\ holds' = [holds EXCEPT ![c] = @ \ {m}]
  /\ UNCHANGED <<current, cpu, pc, obj, threadVars, locked, count, posted, taken>>

UnlockSilent(c, m) ==
  /\ Runs(c, "run") /\ c \in Threads /\ m \in holds[c]
  /\ locked' = [locked EXCEPT ![m] = FALSE]
  /\ holds' = [holds EXCEPT ![c] = @ \ {m}]
  /\ UNCHANGED <<state, listVars, current, cpu, pc, obj, threadVars, count,
                 posted, taken>>

(* mutex_unlock *)
Unlock(c, m) ==
  /\ Runs(c, "run") /\ c \in Threads /\ m \in holds[c]
  /\ IF wait[m].head # NULL
     THEN Wake(m) /\ UNCHANGED locked
     ELSE /\ locked' = [locked EXCEPT ![m] = FALSE]
          /\ UNCHANGED <<state, listVars>>
  /\ holds' = [holds EXCEPT ![c] = @ \ {m}]
  /\ UNCHANGED <<current, cpu, pc, obj, threadVars, count, posted, taken>>

(* Mutant of WaitTake: the test for a positive count is off by one.         *)
WaitTakeAtZero(c, s) ==
  /\ Runs(c, "run") /\ MayWait(c)
  /\ count[s] >= 0
  /\ count' = [count EXCEPT ![s] = @ - 1]
  /\ taken' = [taken EXCEPT ![s] = @ + 1]
  /\ UNCHANGED <<state, listVars, current, cpu, pc, obj, threadVars, locked,
                 holds, posted>>

(* sem_wait *)
WaitTake(c, s) ==
  /\ Runs(c, "run") /\ MayWait(c)
  /\ count[s] > 0
  /\ count' = [count EXCEPT ![s] = @ - 1]
  /\ taken' = [taken EXCEPT ![s] = @ + 1]
  /\ UNCHANGED <<state, listVars, current, cpu, pc, obj, threadVars, locked,
                 holds, posted>>

WaitBlock(c, s) ==
  /\ Runs(c, "run") /\ MayWait(c)
  /\ count[s] = 0
  /\ Block(c, s, "wait")
  /\ UNCHANGED <<threadVars, syncVars>>

WaitReturn(c) ==
  /\ Runs(c, "wait")
  /\ taken' = [taken EXCEPT ![obj[c]] = @ + 1]
  /\ obj' = [obj EXCEPT ![c] = NULL]
  /\ pc' = Goto(c, "run")
  /\ UNCHANGED <<state, listVars, current, cpu, threadVars, locked, count,
                 holds, posted>>

(* Mutants of Post: the count rises although a waiter gets the token, or    *)
(* the count rises and the waiters sleep on.                                *)
PostTwice(c, s) ==
  /\ Runs(c, "run") /\ c \in Threads
  /\ posted[s] < MaxPosts
  /\ IF wait[s].head # NULL THEN Wake(s) ELSE UNCHANGED <<state, listVars>>
  /\ count' = [count EXCEPT ![s] = @ + 1]
  /\ posted' = [posted EXCEPT ![s] = @ + 1]
  /\ UNCHANGED <<current, cpu, pc, obj, threadVars, locked, holds, taken>>

PostSilent(c, s) ==
  /\ Runs(c, "run") /\ c \in Threads
  /\ posted[s] < MaxPosts
  /\ count' = [count EXCEPT ![s] = @ + 1]
  /\ posted' = [posted EXCEPT ![s] = @ + 1]
  /\ UNCHANGED <<state, listVars, current, cpu, pc, obj, threadVars, locked,
                 holds, taken>>

(* sem_post *)
Post(c, s) ==
  /\ Runs(c, "run") /\ c \in Threads
  /\ posted[s] < MaxPosts
  /\ IF wait[s].head # NULL
     THEN Wake(s) /\ UNCHANGED count
     ELSE /\ count' = [count EXCEPT ![s] = @ + 1]
          /\ UNCHANGED <<state, listVars>>
  /\ posted' = [posted EXCEPT ![s] = @ + 1]
  /\ UNCHANGED <<current, cpu, pc, obj, threadVars, locked, holds, taken>>

-----------------------------------------------------------------------------
(* Mutant of ExitZombie: the state is left at RUNNING.                      *)
ExitStillRunning(c) ==
  /\ Runs(c, "run") /\ MayExit(c)
  /\ pc' = Goto(c, "free")
  /\ UNCHANGED <<state, listVars, current, cpu, obj, threadVars, syncVars>>

(* thread_exit, also reached when the thread's function returns.  It runs   *)
(* with interrupts enabled until schedule() masks them.                     *)
ExitZombie(c) ==
  /\ Runs(c, "run") /\ MayExit(c)
  /\ state' = [state EXCEPT ![current] = "ZOMBIE"]
  /\ pc' = Goto(c, "free")
  /\ UNCHANGED <<listVars, current, cpu, obj, threadVars, syncVars>>

ExitFree(c) ==
  /\ Runs(c, "free")
  /\ stack' = [stack EXCEPT ![current] = NULL]
  /\ pc' = Goto(c, "detach")
  /\ UNCHANGED <<state, listVars, current, cpu, obj, esp, id, next_tid, reg,
                 syncVars>>

ExitDetach(c) ==
  /\ Runs(c, "detach")
  /\ current' = NULL
  /\ pc' = Goto(c, "leave")
  /\ UNCHANGED <<state, listVars, cpu, obj, threadVars, syncVars>>

ExitSwitch(c) ==
  /\ Runs(c, "leave")
  /\ Schedule(state, next, Goto(c, "spin"))
  /\ UNCHANGED <<wait, obj, threadVars, syncVars>>

-----------------------------------------------------------------------------
Next ==
  \/ Tick
  \/ \E c \in Contexts :
       \/ YieldCheck(c) \/ YieldSwitch(c)
       \/ \E t \in Threads, s \in StackMem : CreateAlloc(c, t, s)
       \/ CreateStore(c) \/ CreateEnqueue(c)
       \/ \E m \in Mutexes : LockFree(c, m) \/ LockBlock(c, m) \/ Unlock(c, m)
       \/ LockReturn(c)
       \/ \E s \in Sems : WaitTake(c, s) \/ WaitBlock(c, s) \/ Post(c, s)
       \/ WaitReturn(c)
       \/ ExitZombie(c) \/ ExitFree(c) \/ ExitDetach(c) \/ ExitSwitch(c)

Spec == Init /\ [][Next]_vars

(****************************************************************************)
(* Fairness.  The PIT ticks for ever, and a context that gets the processor *)
(* again and again executes its code in between: a call that has begun goes *)
(* on, and a thread inside a critical section leaves it.  Nothing obliges a *)
(* thread to lock, wait, post, yield, create or exit.                       *)
(****************************************************************************)
Continues(c) ==
  \/ YieldSwitch(c)
  \/ CreateStore(c) \/ CreateEnqueue(c)
  \/ LockReturn(c) \/ WaitReturn(c)
  \/ ExitFree(c) \/ ExitDetach(c) \/ ExitSwitch(c)

Unlocks(c) == \E m \in Mutexes : Unlock(c, m)

FairSpec ==
  /\ Spec
  /\ WF_vars(Tick)
  /\ \A c \in Contexts : SF_vars(Continues(c)) /\ SF_vars(Unlocks(c))

-----------------------------------------------------------------------------
(****************************************************************************)
(* What the lists hold.  Walk follows the links nx from the head; it stops  *)
(* one step past the number of threads, so that a list bent into a ring     *)
(* shows as a sequence with a repetition.                                   *)
(****************************************************************************)
Follow(l, nx, q) ==
  LET t == IF q = <<>> THEN l.head ELSE nx[q[Len(q)]]
  IN  IF t = NULL THEN q ELSE Append(q, t)

Walk(l, nx) ==
  LET walk[k \in 0 .. Cardinality(Threads) + 1] ==
        IF k = 0 THEN <<>> ELSE Follow(l, nx, walk[k - 1])
  IN  walk[Cardinality(Threads) + 1]

Items(l) == Walk(l, next)

Members(l) == LET q == Items(l) IN {q[i] : i \in DOMAIN q}

WellFormed(l) ==
  LET q == Items(l)
  IN  /\ Len(q) = Cardinality(Members(l))
      /\ l.tail = IF q = <<>> THEN NULL ELSE q[Len(q)]

(****************************************************************************)
(* The run queue and the wait lists share the one link of thread_t, and     *)
(* still no thread is ever lost from them or on two of them: the run queue  *)
(* is exactly the READY threads that thread_create has enqueued - it sets   *)
(* READY earlier, with interrupts enabled - a wait list exactly the threads *)
(* that sleep for that mutex or semaphore, and every tail is the last       *)
(* element.  (enqueue_thread_locked, dequeue_thread_locked and the four     *)
(* copies of their code in mutex_lock, mutex_unlock, sem_wait, sem_post.)   *)
(****************************************************************************)
QueueIntegrity ==
  /\ WellFormed(run)
  /\ Members(run) = {t \in Threads : state[t] = "READY" /\ Enqueued(t)}
  /\ \A w \in Waitables :
       /\ WellFormed(wait[w])
       /\ Members(wait[w]) =
            {t \in Threads : state[t] = "SLEEPING" /\ obj[t] = w}

(* Thread t owns mutex m: it holds it, or mutex_unlock has handed it over   *)
(* and t has still to return from mutex_lock.                               *)
Owns(t, m) ==
  \/ m \in holds[t]
  \/ pc[t] = "lock" /\ obj[t] = m /\ state[t] # "SLEEPING"

(****************************************************************************)
(* At most one thread is inside the critical section of a mutex, counting   *)
(* the thread that mutex_unlock hands it to without clearing "locked".      *)
(****************************************************************************)
MutualExclusion ==
  \A m \in Mutexes, t, u \in Threads : Owns(t, m) /\ Owns(u, m) => t = u

(****************************************************************************)
(* No hand-off is lost: a mutex is locked exactly while some thread owns    *)
(* it, so nobody waits for a mutex that nobody will unlock.                 *)
(****************************************************************************)
LockAccounted ==
  \A m \in Mutexes :
    /\ locked[m] <=> \E t \in Threads : Owns(t, m)
    /\ wait[m].head # NULL => locked[m]

(* Threads that sem_post has woken and that have yet to leave sem_wait.     *)
Granted(s) ==
  Cardinality({t \in Threads :
                 pc[t] = "wait" /\ obj[t] = s /\ state[t] # "SLEEPING"})

(****************************************************************************)
(* A semaphore conserves its tokens: each sem_post raises the count or is   *)
(* granted to one waiter, and no sem_wait returns without a token.          *)
(****************************************************************************)
TokensConserved ==
  \A s \in Sems : SemInit[s] + posted[s] = count[s] + taken[s] + Granted(s)

(* No lost wakeup: no thread sleeps while the semaphore has tokens left.    *)
NoLostWakeup ==
  \A s \in Sems : count[s] > 0 => Members(wait[s]) = {}

(****************************************************************************)
(* thread_exit frees the stack it is standing on.  No thread that may run   *)
(* again has lost its stack, and the block under the processor never        *)
(* belongs to another thread, whichever step of thread_exit the timer hits. *)
(****************************************************************************)
StackExclusive ==
  /\ \A t \in Threads :
       Enqueued(t) /\ state[t] \in {"READY", "SLEEPING"} =>
         stack[t] = esp[t] /\ esp[t] # NULL
  /\ \A t \in Threads :
       cpu \in Threads \ {t} /\ stack[t] # NULL => stack[t] # esp[cpu]

(* A thread that has begun thread_exit stays a zombie, and once switched    *)
(* out it never gets the processor back.                                    *)
ZombieNeverReturns ==
  [][\A t \in Threads :
       state[t] = "ZOMBIE" =>
         state'[t] = "ZOMBIE" /\ (cpu' = t => cpu = t)]_vars

(****************************************************************************)
(* Round robin: schedule() puts the running thread behind every READY one   *)
(* and takes the first, so a READY thread is overtaken by nobody: as long   *)
(* as it waits, its distance from the head never grows.                     *)
(****************************************************************************)
RunQueue == Items(run)

NeverOvertaken ==
  [][LET q == RunQueue
         r == RunQueue'
     IN  \A i \in DOMAIN q, j \in DOMAIN r : q[i] = r[j] => j <= i]_vars

(* A tick has taken the processor from kmain's context, which no thread_t   *)
(* stands for, between the line of thread_create that sets t READY and its  *)
(* enqueue_thread.  That context never returns to put t on the queue.       *)
Abandoned(t) == cpu # Boot /\ pc[Boot] = "enqueue" /\ obj[Boot] = t

(* Under that fairness every READY thread gets the processor again, but for *)
(* one that kmain was creating when it lost the processor for good; no      *)
(* other creator leaves its thread behind.                                  *)
NoStarvation ==
  \A t \in Threads : state[t] = "READY" ~> cpu = t \/ Abandoned(t)

(* Under that fairness every thread that calls mutex_lock gets the mutex.   *)
LockGranted ==
  \A t \in Threads, m \in Mutexes :
    (pc[t] = "lock" /\ obj[t] = m) ~> m \in holds[t]

-----------------------------------------------------------------------------
(* What the package's comments say and the code does not do.                *)

(* "When we return here, we are back in the original thread": a context     *)
(* that yields comes back from thread_yield.  kmain's context does not.     *)
YieldReturns ==
  \A c \in Contexts : pc[c] = "yield" ~> Runs(c, "run")

(* "free memory (deferred or immediate)": a thread that exits gives its     *)
(* stack back.  A tick that strikes before the kfree loses it.              *)
ExitFreesStack ==
  \A t \in Threads : state[t] = "ZOMBIE" ~> stack[t] = NULL
=============================================================================
