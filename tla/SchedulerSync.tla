---------------------------- MODULE SchedulerSync ----------------------------
(****************************************************************************)
(* The threads package implements Sync: the refinement mapping reads the    *)
(* owner of a mutex, the order of the waiters and the granted tokens off    *)
(* the wait lists and the places the threads are at.                        *)
(****************************************************************************)
EXTENDS Scheduler

OwnerOf(m) ==
  IF \E t \in Threads : Owns(t, m) THEN CHOOSE t \in Threads : Owns(t, m) ELSE NULL

GrantedIn(s) ==
  {t \in Threads : pc[t] = "wait" /\ obj[t] = s /\ state[t] # "SLEEPING"}

Promise == INSTANCE Sync WITH
       Nobody <- NULL,
       owner <- [m \in Mutexes |-> OwnerOf(m)],
       queue <- [w \in Waitables |-> Items(wait[w])],
       tokens <- count,
       granted <- [s \in Sems |-> GrantedIn(s)]

(****************************************************************************)
(* mutex_lock, mutex_unlock, sem_wait and sem_post, however the timer       *)
(* interleaves them, serve their waiters first come first served and hand   *)
(* the mutex or the token over with no gap in which a third thread could    *)
(* take it.                                                                 *)
(****************************************************************************)
ImplementsSync == Promise!Spec
=============================================================================
