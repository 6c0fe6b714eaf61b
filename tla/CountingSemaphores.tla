-------------------------- MODULE CountingSemaphores --------------------------
(***************************************************************************)
(* What SignalSema, WaitSema and PollSema promise to the EE threads: a     *)
(* count between zero and its maximum, and a waiting thread that goes on   *)
(* only with a token taken or when the semaphore has been deleted.  There  *)
(* are no contexts, fibers or program counters here; EEKernel implements   *)
(* this specification.                                                     *)
(***************************************************************************)
EXTENDS Integers

CONSTANTS Tids, Sids, Shapes, NULL

VARIABLES
  alive,     \* the threads that exist
  level,     \* per semaphore its count and maximum, or NULL
  waiting    \* per thread the semaphore it waits for, or NULL

vars == <<alive, level, waiting>>

Init ==
  /\ alive = {0}
  /\ level = [s \in Sids |-> NULL]
  /\ waiting = [t \in Tids |-> NULL]

Spawn ==
  /\ \E t \in Tids \ alive : alive' = alive \union {t}
  /\ UNCHANGED <<level, waiting>>

Kill(t) ==
  /\ t \in alive
  /\ alive' = alive \ {t}
  /\ waiting' = [waiting EXCEPT ![t] = NULL]
  /\ UNCHANGED level

Create(s) ==
  /\ level[s] = NULL
  /\ \E shape \in Shapes : level' = [level EXCEPT ![s] = shape]
  /\ UNCHANGED <<alive, waiting>>

Delete(s) ==
  /\ level[s] # NULL
  /\ level' = [level EXCEPT ![s] = NULL]
  /\ UNCHANGED <<alive, waiting>>

Signal(s) ==
  /\ level[s] # NULL /\ level[s].count < level[s].max
  /\ level' = [level EXCEPT ![s].count = level[s].count + 1]
  /\ UNCHANGED <<alive, waiting>>

\* A thread that waits for s or begins to takes a token.
Take(t, s) ==
  /\ t \in alive /\ waiting[t] \in {NULL, s}
  /\ level[s] # NULL /\ level[s].count > 0
  /\ level' = [level EXCEPT ![s].count = level[s].count - 1]
  /\ waiting' = [waiting EXCEPT ![t] = NULL]
  /\ UNCHANGED alive

Block(t, s) ==
  /\ t \in alive /\ waiting[t] = NULL
  /\ level[s] # NULL /\ level[s].count = 0
  /\ waiting' = [waiting EXCEPT ![t] = s]
  /\ UNCHANGED <<alive, level>>

\* The semaphore is gone: the wait fails.
Fail(t) ==
  /\ waiting[t] # NULL /\ level[waiting[t]] = NULL
  /\ waiting' = [waiting EXCEPT ![t] = NULL]
  /\ UNCHANGED <<alive, level>>

Next ==
  \/ Spawn
  \/ \E t \in Tids : Kill(t) \/ Fail(t)
  \/ \E s \in Sids : Create(s) \/ Delete(s) \/ Signal(s)
  \/ \E t \in Tids, s \in Sids : Take(t, s) \/ Block(t, s)

Spec == Init /\ [][Next]_vars
=============================================================================
