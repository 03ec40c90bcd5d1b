------------------------- MODULE AsyncSemaphoreProofs -------------------------
(***************************************************************************)
(* What each operation does to a semaphore's slots, and that none forgets  *)
(* a waiter.  Sound is the invariant every user of the semaphore keeps.    *)
(***************************************************************************)
EXTENDS AsyncSemaphore, Integers, SequenceTheorems, TLAPS

\* Woken waiters are in the queue, and no slot is free beside a sleeping one.
Sound(sem) == sem.woken <= Len(sem.waiters) /\ NoneForgotten(sem)

\* A new semaphore has its n slots and forgets nobody.
LEMMA NewSound ==
  ASSUME NEW W, NEW n \in Nat
  PROVE  /\ NewSemaphore(n) \in Semaphore(W)
         /\ Sound(NewSemaphore(n))
         /\ Slots(NewSemaphore(n)) = n
BY DEF NewSemaphore, Semaphore, Sound, NoneForgotten, Slots

\* An unlocked semaphore gives one slot away.
LEMMA TakeSound ==
  ASSUME NEW W, NEW sem \in Semaphore(W), Sound(sem), ~Locked(sem)
  PROVE  /\ Take(sem) \in Semaphore(W)
         /\ Sound(Take(sem))
         /\ Slots(Take(sem)) = Slots(sem) - 1
         /\ Slots(sem) > 0
BY DEF Take, Locked, Semaphore, Sound, NoneForgotten, Slots

\* A waiter joins a locked semaphore's queue; the slots stay.
LEMMA EnqueueSound ==
  ASSUME NEW W, NEW sem \in Semaphore(W), NEW w \in W, Sound(sem), Locked(sem)
  PROVE  /\ Enqueue(sem, w) \in Semaphore(W)
         /\ Sound(Enqueue(sem, w))
         /\ Slots(Enqueue(sem, w)) = Slots(sem)
BY DEF Enqueue, Locked, Semaphore, Sound, NoneForgotten, Slots

\* A release adds one slot, handed to a sleeping waiter when there is one.
LEMMA ReleaseSound ==
  ASSUME NEW W, NEW sem \in Semaphore(W), Sound(sem)
  PROVE  /\ Release(sem) \in Semaphore(W)
         /\ Sound(Release(sem))
         /\ Slots(Release(sem)) = Slots(sem) + 1
<1>1. CASE Asleep(sem) > 0
  BY <1>1 DEF Release, Asleep, Semaphore, Sound, NoneForgotten, Slots
<1>2. CASE ~(Asleep(sem) > 0)
  <2>1. sem.woken = Len(sem.waiters)
    BY <1>2 DEF Asleep, Semaphore, Sound
  <2>2. sem.woken = 0 => sem.waiters = <<>>
    BY <2>1, EmptySeq DEF Semaphore
  <2>3. QED
    BY <1>2, <2>1, <2>2 DEF Release, Semaphore, Sound, NoneForgotten, Slots
<1>3. QED
  BY <1>1, <1>2

\* A woken waiter takes its slot with it and wakes whom the free slots allow.
LEMMA ResumeSound ==
  ASSUME NEW W, NEW sem \in Semaphore(W), Sound(sem), Runnable(sem)
  PROVE  /\ Head(sem.waiters) \in W
         /\ Resume(sem) \in Semaphore(W)
         /\ Sound(Resume(sem))
         /\ Slots(Resume(sem)) = Slots(sem) - 1
         /\ Slots(sem) > 0
<1> DEFINE more == IF Asleep(sem) < sem.value THEN Asleep(sem) ELSE sem.value
<1>1. sem.waiters # <<>> /\ Len(sem.waiters) > 0
  BY EmptySeq DEF Runnable, Semaphore, Sound
<1>2. /\ Head(sem.waiters) \in W
      /\ Tail(sem.waiters) \in Seq(W)
      /\ Len(Tail(sem.waiters)) = Len(sem.waiters) - 1
  BY <1>1, HeadTailProperties DEF Semaphore
<1>3. /\ Asleep(sem) \in Nat /\ more \in Nat
      /\ more <= sem.value /\ more <= Asleep(sem)
  BY <1>1 DEF Semaphore, Sound, Asleep
<1>4. Resume(sem) = [value |-> sem.value - more, waiters |-> Tail(sem.waiters), woken |-> sem.woken - 1 + more]
  BY DEF Resume
<1> HIDE DEF more
<1>5. Resume(sem) \in Semaphore(W) /\ Slots(Resume(sem)) = Slots(sem) - 1 /\ Slots(sem) > 0
  <2>1. /\ sem.value \in Nat /\ sem.woken \in Nat /\ sem.woken > 0 /\ sem.value - more \in Nat
        /\ sem.woken - 1 + more \in Nat
    BY <1>3 DEF Semaphore, Runnable
  <2>2. Resume(sem) \in Semaphore(W)
    BY <1>2, <1>4, <2>1 DEF Semaphore
  <2>3. Slots(Resume(sem)) = Slots(sem) - 1 /\ Slots(sem) > 0
    BY <1>3, <1>4, <2>1 DEF Slots
  <2>4. QED
    BY <2>2, <2>3
<1>6. Resume(sem).woken <= Len(Resume(sem).waiters)
  BY <1>2, <1>3, <1>4 DEF Semaphore, Asleep
<1>7. NoneForgotten(Resume(sem))
  <2>1. SUFFICES ASSUME sem.value - more > 0, sem.woken - 1 + more = 0
                 PROVE  Tail(sem.waiters) = <<>>
    BY <1>4 DEF NoneForgotten
  <2>2. more = Asleep(sem)
    BY <2>1, <1>3 DEF more, Semaphore
  <2>3. sem.woken - 1 + (Len(sem.waiters) - sem.woken) = 0
    BY <2>1, <2>2 DEF Asleep
  <2>4. Len(Tail(sem.waiters)) = 0
    <3> DEFINE woken == sem.woken
               length == Len(sem.waiters)
    <3>1. woken \in Nat /\ length \in Nat
      BY DEF Semaphore
    <3>2. woken - 1 + (length - woken) = 0
      BY <2>3
    <3> HIDE DEF woken, length
    <3>3. length = 1
      BY <3>1, <3>2
    <3>4. QED
      BY <3>3, <1>2 DEF length
  <2>5. QED
    BY <2>4, <1>2, EmptySeq
<1>8. QED
  BY <1>2, <1>5, <1>6, <1>7 DEF Sound
===============================================================================
