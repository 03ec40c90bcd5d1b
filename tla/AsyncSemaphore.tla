---------------------------- MODULE AsyncSemaphore ---------------------------
(***************************************************************************)
(* asyncio.Semaphore as the dispatchers use it: first come, first served,  *)
(* with the slot handed to the first waiter at the release.  A woken       *)
(* waiter keeps its place at the head of the queue until its task runs, so *)
(* a newcomer queues behind it even while a slot is free.  Between the     *)
(* release and the waiter's run other callbacks may run.                   *)
(***************************************************************************)
EXTENDS Naturals, Sequences

Semaphore(W) == [value : Nat, waiters : Seq(W), woken : Nat]

NewSemaphore(n) == [value |-> n, waiters |-> <<>>, woken |-> 0]

\* Mutant: a newcomer looks at the free slots only.
LockedByValue(sem) == sem.value = 0

Locked(sem) == sem.value = 0 \/ sem.waiters # <<>>

Take(sem) == [sem EXCEPT !.value = @ - 1]

Enqueue(sem, w) == [sem EXCEPT !.waiters = Append(@, w)]

Asleep(sem) == Len(sem.waiters) - sem.woken

\* Mutant: a release that wakes nobody.
ReleaseUnheard(sem) == [sem EXCEPT !.value = @ + 1]

\* release: one more slot, or one more waiter woken.
Release(sem) ==
  IF Asleep(sem) > 0 THEN [sem EXCEPT !.woken = @ + 1]
                     ELSE [sem EXCEPT !.value = @ + 1]

\* The first waiter's task may run.
Runnable(sem) == sem.woken > 0

\* The first waiter runs: it leaves the queue and wakes as many as the free slots allow.
Resume(sem) ==
  LET more == IF Asleep(sem) < sem.value THEN Asleep(sem) ELSE sem.value
  IN  [value |-> sem.value - more, waiters |-> Tail(sem.waiters), woken |-> sem.woken - 1 + more]

-------------------------------------------------------------------------------
\* The slots granted or free to grant.
Slots(sem) == sem.value + sem.woken

\* A slot is never free beside a sleeping waiter.
NoneForgotten(sem) == sem.value > 0 /\ sem.woken = 0 => sem.waiters = <<>>
==============================================================================
