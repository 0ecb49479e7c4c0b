-------------------------------- MODULE Sync --------------------------------
(****************************************************************************)
(* What the mutexes and semaphores of src/drivers/thread promise their      *)
(* callers, with no scheduler in sight: waiters are served in the order     *)
(* they came, a mutex that is released with waiters goes straight to the    *)
(* first of them (nobody can barge in between), and a token posted with     *)
(* waiters goes straight to the first of them.                              *)
(****************************************************************************)
EXTENDS Naturals, Sequences

CONSTANTS Threads, Mutexes, Sems, SemInit, Nobody

VARIABLES
  owner,   \* owner[m]: the thread inside the critical section of m
  queue,   \* queue[w]: the threads waiting for mutex or semaphore w, in order
  tokens,  \* tokens[s]: what semaphore s still has to give
  granted  \* granted[s]: the threads that were given a token while they waited

syncVars == <<owner, queue, tokens, granted>>

Waiting(t) ==
  \E w \in Mutexes \cup Sems : \E i \in DOMAIN queue[w] : queue[w][i] = t

Init ==
  /\ owner = [m \in Mutexes |-> Nobody]
  /\ queue = [w \in Mutexes \cup Sems |-> <<>>]
  /\ tokens = SemInit
  /\ granted = [s \in Sems |-> {}]

Acquire(t, m) ==
  /\ ~Waiting(t)
  /\ owner[m] = Nobody
  /\ owner' = [owner EXCEPT ![m] = t]
  /\ UNCHANGED <<queue, tokens, granted>>

Release(t, m) ==
  /\ owner[m] = t /\ ~Waiting(t)
  /\ queue[m] = <<>>
  /\ owner' = [owner EXCEPT ![m] = Nobody]
  /\ UNCHANGED <<queue, tokens, granted>>

HandOver(t, m) ==
  /\ owner[m] = t /\ ~Waiting(t)
  /\ queue[m] # <<>>
  /\ owner' = [owner EXCEPT ![m] = Head(queue[m])]
  /\ queue' = [queue EXCEPT ![m] = Tail(queue[m])]
  /\ UNCHANGED <<tokens, granted>>

Take(t, s) ==
  /\ ~Waiting(t)
  /\ tokens[s] > 0
  /\ tokens' = [tokens EXCEPT ![s] = @ - 1]
  /\ UNCHANGED <<owner, queue, granted>>

\* A thread given a token while it waited leaves sem_wait with it.
Leave(t, s) ==
  /\ t \in granted[s]
  /\ granted' = [granted EXCEPT ![s] = @ \ {t}]
  /\ UNCHANGED <<owner, queue, tokens>>

\* Only the owner's release and a post give a waiter what it waits for.
Await(t, w) ==
  /\ ~Waiting(t)
  /\ w \in Mutexes => owner[w] \notin {Nobody, t}
  /\ w \in Sems => tokens[w] = 0
  /\ queue' = [queue EXCEPT ![w] = Append(@, t)]
  /\ UNCHANGED <<owner, tokens, granted>>

Post(s) ==
  /\ IF queue[s] # <<>>
     THEN /\ granted' = [granted EXCEPT ![s] = @ \cup {Head(queue[s])}]
          /\ queue' = [queue EXCEPT ![s] = Tail(@)]
          /\ UNCHANGED tokens
     ELSE /\ tokens' = [tokens EXCEPT ![s] = @ + 1]
          /\ UNCHANGED <<queue, granted>>
  /\ UNCHANGED owner

Next ==
  \/ \E t \in Threads, m \in Mutexes :
       Acquire(t, m) \/ Release(t, m) \/ HandOver(t, m)
  \/ \E t \in Threads, s \in Sems : Take(t, s) \/ Leave(t, s)
  \/ \E t \in Threads, w \in Mutexes \cup Sems : Await(t, w)
  \/ \E s \in Sems : Post(s)

Spec == Init /\ [][Next]_syncVars
=============================================================================
