----------------------------- MODULE CountThreads -----------------------------
(***************************************************************************)
(* tcp-ip-review/pthread_print.cpp: main() starts some threads, each of    *)
(* which prints LOOP lines with the number of the line, counted by all of  *)
(* them together under a mutex, and joins them in the opposite order.      *)
(***************************************************************************)
EXTENDS Integers, Sequences

CONSTANTS
  thread_num,  \* threads, 5 in the code
  LOOP         \* lines of each

ASSUME CountAssumption == thread_num \in Nat /\ LOOP \in Nat

Ids == 0 .. thread_num - 1
Nobody == -1

VARIABLES
  launcher,        \* "create", "join", "done"; "failed"
  k,           \* i and j of the two loops
  count, mutex,
  pos,         \* threads: "unborn", "loop", "load", "store", "print", "unlock", "ended"
  left,        \* times
  seen,        \* what count++ has read
  output       \* the lines printed

cvars == <<launcher, k, count, mutex, pos, left, seen, output>>

CountInit ==
  /\ launcher = "create" /\ k = 0 /\ count = 0 /\ mutex = Nobody
  /\ pos = [t \in Ids |-> "unborn"] /\ left = [t \in Ids |-> LOOP]
  /\ seen = [t \in Ids |-> 0] /\ output = <<>>

\* When main() returns, all threads are gone.
Running == launcher \notin {"done", "failed"}
-----------------------------------------------------------------------------
Start ==
  /\ launcher = "create" /\ k < thread_num
  /\ pos' = [pos EXCEPT ![k] = "loop"]
  /\ k' = k + 1
  /\ UNCHANGED <<launcher, count, mutex, left, seen, output>>

StartFails ==
  /\ launcher = "create" /\ k < thread_num
  /\ launcher' = "failed"
  /\ UNCHANGED <<k, count, mutex, pos, left, seen, output>>

AllCreated ==
  /\ launcher = "create" /\ k = thread_num
  /\ launcher' = "join" /\ k' = 0
  /\ UNCHANGED <<count, mutex, pos, left, seen, output>>

AllJoined == k >= thread_num

\* The last thread first.
Join ==
  /\ launcher = "join"
  /\ \/ /\ ~AllJoined /\ pos[thread_num - k - 1] = "ended"
        /\ k' = k + 1 /\ UNCHANGED launcher
     \/ /\ AllJoined
        /\ launcher' = "done" /\ UNCHANGED k
  /\ UNCHANGED <<count, mutex, pos, left, seen, output>>

MainThread == Start \/ AllCreated \/ Join
-----------------------------------------------------------------------------
Step(t, here, next) == Running /\ pos[t] = here /\ pos' = [pos EXCEPT ![t] = next]

\* Mutant: the result of pthread_mutex_trylock() would not be looked at.
MayLockAny == TRUE

MayLock == mutex = Nobody

Lock(t) ==
  /\ Step(t, "loop", "load") /\ left[t] > 0 /\ MayLock
  /\ left' = [left EXCEPT ![t] = @ - 1]
  /\ mutex' = t
  /\ UNCHANGED <<launcher, k, count, seen, output>>

\* count++, in two steps.
LoadCount(t) ==
  /\ Step(t, "load", "store")
  /\ seen' = [seen EXCEPT ![t] = count]
  /\ UNCHANGED <<launcher, k, count, mutex, left, output>>

StoreCount(t) ==
  /\ Step(t, "store", "print")
  /\ count' = seen[t] + 1
  /\ UNCHANGED <<launcher, k, mutex, left, seen, output>>

PrintLine(t) ==
  /\ Step(t, "print", "unlock")
  /\ output' = Append(output, [id |-> t, loop |-> LOOP - left[t], count |-> seen[t]])
  /\ UNCHANGED <<launcher, k, count, mutex, left, seen>>

Unlock(t) ==
  /\ Step(t, "unlock", "loop")
  /\ mutex' = Nobody
  /\ UNCHANGED <<launcher, k, count, left, seen, output>>

Return(t) ==
  /\ Step(t, "loop", "ended") /\ left[t] = 0
  /\ UNCHANGED <<launcher, k, count, mutex, left, seen, output>>

Printer(t) == Lock(t) \/ LoadCount(t) \/ StoreCount(t) \/ PrintLine(t) \/ Unlock(t) \/ Return(t)

CountNext == MainThread \/ StartFails \/ \E t \in Ids : Printer(t)

\* main() and every thread run when they can; a thread that waits for the mutex
\* may be passed over by others as long as they have lines to print.
CountFairness == WF_cvars(MainThread) /\ \A t \in Ids : WF_cvars(Printer(t))

CountSpec == CountInit /\ [][CountNext]_cvars /\ CountFairness
-----------------------------------------------------------------------------
(* Properties.                                                             *)

CountTypeOK ==
  /\ launcher \in {"create", "join", "done", "failed"} /\ k \in 0 .. thread_num
  /\ count \in Nat /\ mutex \in Ids \union {Nobody}
  /\ pos \in [Ids -> {"unborn", "loop", "load", "store", "print", "unlock", "ended"}]
  /\ left \in [Ids -> 0 .. LOOP] /\ seen \in [Ids -> Nat]
  /\ output \in Seq([id : Ids, loop : 1 .. LOOP, count : Nat])

\* The lines carry the numbers 0, 1, 2, ... in the order in which they appear, and
\* when main() returns normally no line of any thread is missing, although the
\* process ends with it.
CountsInOrder ==
  /\ \A i \in DOMAIN output : output[i].count = i - 1
  /\ launcher = "done" =>
       \A t \in Ids, l \in 1 .. LOOP : \E i \in DOMAIN output : output[i].id = t /\ output[i].loop = l
=============================================================================
