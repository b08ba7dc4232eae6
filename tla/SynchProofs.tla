---------------------------- MODULE SynchProofs ----------------------------
(***************************************************************************)
(* Mutual exclusion and the absence of lost wakeups in synch.c, for any    *)
(* number of threads, semaphores, locks and condition variables.           *)
(***************************************************************************)
EXTENDS Synch, ThreadsProofs, SequenceTheorems

-----------------------------------------------------------------------------
(* Facts about the queue of a condition variable. *)

\* q_addtail adds the thread to those on the queue.
LEMMA RangeAppend ==
  ASSUME NEW q \in Seq(Thread), NEW t \in Thread
  PROVE  Range(Append(q, t)) = Range(q) \cup {t}
<1>1. /\ Append(q, t) \in Seq(Thread)
      /\ Len(Append(q, t)) = Len(q) + 1
      /\ \A i \in 1..Len(q) : Append(q, t)[i] = q[i]
      /\ Append(q, t)[Len(q) + 1] = t
  BY AppendProperties
<1>2. /\ Range(q) = {q[i] : i \in 1..Len(q)}
      /\ Range(Append(q, t)) = {Append(q, t)[i] : i \in 1..(Len(q) + 1)}
  BY <1>1, RangeEquality
<1>3. Len(q) \in Nat
  BY LenProperties
<1> QED
  BY <1>1, <1>2, <1>3

\* q_remhead removes the head, and only it when no thread is queued twice.
LEMMA RangeTail ==
  ASSUME NEW q \in Seq(Thread), q # <<>>,
         \A i, j \in 1..Len(q) : q[i] = q[j] => i = j
  PROVE  /\ Head(q) \in Range(q)
         /\ Range(Tail(q)) = Range(q) \ {Head(q)}
         /\ \A i, j \in 1..Len(Tail(q)) : Tail(q)[i] = Tail(q)[j] => i = j
<1>1. /\ Tail(q) \in Seq(Thread)
      /\ Len(Tail(q)) = Len(q) - 1
      /\ \A i \in 1..Len(Tail(q)) : Tail(q)[i] = q[i + 1]
  BY HeadTailProperties
<1>2. Head(q) = q[1] /\ Len(q) \in Nat /\ Len(q) > 0
  BY LenProperties, EmptySeq
<1>3. /\ Range(q) = {q[i] : i \in 1..Len(q)}
      /\ Range(Tail(q)) = {Tail(q)[i] : i \in 1..Len(Tail(q))}
  <2>1. \A r \in Seq(Thread) : Range(r) = {r[i] : i \in 1..Len(r)}
    BY RangeEquality
  <2> QED
    BY <1>1, <2>1, Zenon
<1>4. Head(q) \in Range(q)
  BY <1>2, <1>3
<1>5. \A x \in Range(Tail(q)) : x \in Range(q) /\ x # Head(q)
  BY <1>1, <1>2, <1>3
<1>6. \A x \in Range(q) : x # Head(q) => x \in Range(Tail(q))
  <2> SUFFICES ASSUME NEW i \in 1..Len(q), q[i] # Head(q)
               PROVE  q[i] \in Range(Tail(q))
    BY <1>3
  <2>1. i # 1 /\ i - 1 \in 1..Len(Tail(q)) /\ Tail(q)[i - 1] = q[i]
    BY <1>1, <1>2
  <2> QED
    BY <2>1, <1>3
<1>7. \A i, j \in 1..Len(Tail(q)) : Tail(q)[i] = Tail(q)[j] => i = j
  BY <1>1, <1>2
<1> QED
  BY <1>4, <1>5, <1>6, <1>7

\* A queue that has been drained holds nobody.
LEMMA RangeEmpty == Range(<<>>) = {}
  BY DEF Range

-----------------------------------------------------------------------------
(* The initial states. *)

\* Before any thread is forked nothing is held, queued or asleep.
LEMMA SynchInitInv == SynchInit => SynchInv
<1> SUFFICES ASSUME SynchInit PROVE SynchInv
  OBVIOUS
<1> USE ThreadsAssumption, SynchAssumption DEF SynchInit
<1>1. ThreadsTypeOK /\ OnePlace
  BY ThreadsInitInv DEF ThreadsInv
<1>2. sleepers = {}
  BY DEF ThreadsInit
<1>3. slept \in [CV -> Seq(Thread)] /\ \A c \in CV : slept[c] = <<>>
  OBVIOUS
<1>4. SynchTypeOK
  BY <1>1, <1>3 DEF SynchTypeOK, Op
<1>5. HolderHolds /\ MutualExclusion /\ ObjectFits
  BY DEF HolderHolds, MutualExclusion, ObjectFits
<1>6. SleepsOnItsObject /\ NoLostWakeup /\ WaitersAreQueued
  BY <1>2 DEF SleepsOnItsObject, NoLostWakeup, WaitersAreQueued
<1>7. QueuedAreWaiting
  <2>1. \A c \in CV : Range(slept[c]) = {} /\ Len(slept[c]) = 0
    BY <1>3, RangeEmpty
  <2> QED
    BY <2>1 DEF QueuedAreWaiting
<1> QED
  BY <1>1, <1>4, <1>5, <1>6, <1>7 DEF SynchInv

-----------------------------------------------------------------------------
(* What the primitives do to the thread system is what Threads allows. *)

\* Every step of the primitives, seen on the lists of threads alone, is an
\* operation of the thread system.
LEMMA SynchStepThreads ==
  ASSUME SynchTypeOK, [SynchNext]_vars
  PROVE  [ThreadsNext]_threadVars
<1> USE ThreadsAssumption, SynchAssumption DEF ThreadsNext
<1>1. ASSUME NEW s \in Sem, P(s) PROVE [ThreadsNext]_threadVars
  BY <1>1 DEF P
<1>2. ASSUME NEW s \in Sem, V(s) PROVE [ThreadsNext]_threadVars
  <2>1. VWakes(s) \in SUBSET Addr
    BY DEF VWakes
  <2> QED
    BY <1>2, <2>1 DEF V
<1>3. ASSUME NEW l \in Lock, lock_acquire(l) PROVE [ThreadsNext]_threadVars
  BY <1>3 DEF lock_acquire
<1>4. ASSUME NEW l \in Lock, lock_release(l) PROVE [ThreadsNext]_threadVars
  <2>1. ReleaseWakes(l) \in SUBSET Addr
    BY DEF ReleaseWakes
  <2> QED
    BY <1>4, <2>1 DEF lock_release
<1>5. ASSUME NEW c \in CV, NEW l \in Lock, cv_wait(c, l)
      PROVE  [ThreadsNext]_threadVars
  <2>1. ReleaseWakes(l) \in SUBSET Addr
    BY DEF ReleaseWakes
  <2>2. WaitAddress(l) \in Addr
    BY <1>5 DEF SynchTypeOK, ThreadsTypeOK, WaitAddress, cv_wait, Running
  <2> QED
    BY <1>5, <2>1, <2>2 DEF cv_wait
<1>6. ASSUME NEW c \in CV, cv_signal(c) PROVE [ThreadsNext]_threadVars
  <2>1. CASE slept[c] = <<>>
    BY <1>6, <2>1 DEF cv_signal
  <2>2. CASE slept[c] # <<>>
    <3>1. slept[c] \in Seq(Thread)
      BY DEF SynchTypeOK
    <3>2. {Head(slept[c])} \in SUBSET Addr
      BY <2>2, <3>1, HeadTailProperties
    <3> QED
      BY <1>6, <2>2, <3>2 DEF cv_signal
  <2> QED
    BY <2>1, <2>2
<1>7. ASSUME NEW c \in CV, cv_broadcast(c) PROVE [ThreadsNext]_threadVars
  <2>1. slept[c] \in Seq(Thread)
    BY DEF SynchTypeOK
  <2>2. BroadcastTo(c) \in SUBSET Addr
    BY <2>1, RangeOfSeq DEF BroadcastTo
  <2> QED
    BY <1>7, <2>2 DEF cv_broadcast
<1>8. ASSUME NEW t \in Thread, Fork(t) \/ Schedule(t) PROVE [ThreadsNext]_threadVars
  BY <1>8 DEF Fork, Schedule
<1>9. CASE Exit
  BY <1>9 DEF Exit
<1>10. CASE Preempt
  <2>1. {} \in SUBSET Addr
    OBVIOUS
  <2> QED
    BY <1>10, <2>1 DEF Preempt
<1>11. CASE UNCHANGED vars
  BY <1>11 DEF vars
<1> QED
  BY <1>1, <1>2, <1>3, <1>4, <1>5, <1>6, <1>7, <1>8, <1>9, <1>10, <1>11
  DEF SynchNext, SynchStep, Halted

\* Sleep addresses are never NULL, so the invariant of Threads holds too.
LEMMA SynchThreadsInv ==
  ASSUME SynchInv, [SynchNext]_vars
  PROVE  (ThreadsTypeOK /\ OnePlace)'
<1>1. ThreadsInv
  BY ThreadsAssumption, SynchAssumption
  DEF ThreadsInv, SynchInv, SynchTypeOK, SleepersHaveAddress, SleepsOnItsObject,
      ObjectFits, Op, ThreadsTypeOK
<1>2. SynchTypeOK
  BY DEF SynchInv
<1>3. [ThreadsNext]_threadVars
  BY <1>2, SynchStepThreads
<1>4. ThreadsInv'
  BY <1>1, <1>3, ThreadsStepInv
<1> QED
  BY <1>4 DEF ThreadsInv

-----------------------------------------------------------------------------
(* One lemma for each primitive: it keeps the part of the invariant that is *)
(* about semaphores, locks and condition variables.                         *)

Rest ==
    /\ HolderHolds
    /\ MutualExclusion
    /\ ObjectFits
    /\ SleepsOnItsObject
    /\ NoLostWakeup
    /\ QueuedAreWaiting
    /\ WaitersAreQueued

SynchVarsTypeOK ==
    /\ count \in [Sem -> Nat]
    /\ busy \in [Lock -> Thread \cup {NULL}]
    /\ slept \in [CV -> Seq(Thread)]
    /\ op \in [Thread -> Op]
    /\ obj \in [Thread -> Sem \cup Lock \cup {NULL}]
    /\ held \in [Thread -> SUBSET Lock]
    /\ panicked \in BOOLEAN

\* P sleeps only at 0, and does not touch locks or queues.
LEMMA PKeeps ==
  ASSUME SynchInv, NEW s \in Sem, P(s)
  PROVE  (SynchVarsTypeOK /\ Rest)'
<1> USE ThreadsAssumption, SynchAssumption DEF SynchInv, SynchTypeOK, ThreadsTypeOK
<1>0. curthread \in Thread /\ curthread \notin sleepers
  BY DEF P, Running, Inside, OnePlace
<1>1. CASE PSleeps(s)
  <2>1. /\ sleepers' = sleepers \cup {curthread}
        /\ sleepaddr' = [sleepaddr EXCEPT ![curthread] = s]
        /\ op' = [op EXCEPT ![curthread] = "P"]
        /\ obj' = [obj EXCEPT ![curthread] = s]
        /\ UNCHANGED <<count, busy, slept, held, panicked>>
        /\ count[s] = 0
    BY <1>1 DEF P, PSleeps, SleepThread, Begin
  <2>2. SynchVarsTypeOK'
    BY <1>0, <2>1 DEF SynchVarsTypeOK, Op
  <2>3. (HolderHolds /\ MutualExclusion)'
    BY <2>1 DEF HolderHolds, MutualExclusion
  <2>4. (ObjectFits /\ SleepsOnItsObject /\ NoLostWakeup)'
    BY <1>0, <2>1 DEF ObjectFits, SleepsOnItsObject, NoLostWakeup, Op
  <2>5. QueuedAreWaiting'
    BY <1>0, <2>1 DEF QueuedAreWaiting
  <2>6. WaitersAreQueued'
    BY <1>0, <2>1 DEF WaitersAreQueued
  <2> QED
    BY <2>2, <2>3, <2>4, <2>5, <2>6 DEF Rest
<1>2. CASE ~PSleeps(s)
  <2>1. /\ count' = [count EXCEPT ![s] = @ - 1]
        /\ op' = [op EXCEPT ![curthread] = "run"]
        /\ obj' = [obj EXCEPT ![curthread] = NULL]
        /\ UNCHANGED <<sleepers, sleepaddr, busy, slept, held, panicked>>
        /\ count[s] # 0
    BY <1>2 DEF P, PSleeps, Begin, threadVars
  <2>2. SynchVarsTypeOK'
    BY <1>0, <2>1 DEF SynchVarsTypeOK, Op
  <2>3. (HolderHolds /\ MutualExclusion)'
    BY <2>1 DEF HolderHolds, MutualExclusion
  <2>4. (ObjectFits /\ SleepsOnItsObject /\ NoLostWakeup)'
    BY <1>0, <2>1 DEF ObjectFits, SleepsOnItsObject, NoLostWakeup, Op
  <2>5. QueuedAreWaiting'
    BY <1>0, <2>1 DEF QueuedAreWaiting
  <2>6. WaitersAreQueued'
    BY <1>0, <2>1 DEF WaitersAreQueued
  <2> QED
    BY <2>2, <2>3, <2>4, <2>5, <2>6 DEF Rest
<1> QED
  BY <1>1, <1>2

\* V wakes every thread that sleeps on the semaphore it increments, and no
\* thread that sleeps on anything else.
LEMMA VKeeps ==
  ASSUME SynchInv, NEW s \in Sem, V(s)
  PROVE  (SynchVarsTypeOK /\ Rest)'
<1> USE ThreadsAssumption, SynchAssumption DEF SynchInv, SynchTypeOK, ThreadsTypeOK
<1>1. /\ sleepers' = {t \in sleepers : sleepaddr[t] # s}
      /\ count' = [count EXCEPT ![s] = @ + 1]
      /\ UNCHANGED <<sleepaddr, busy, slept, op, obj, held, panicked>>
  BY DEF V, VWakes, WakeupThreads, Woken
<1>2. SynchVarsTypeOK'
  BY <1>1 DEF SynchVarsTypeOK
<1>3. (HolderHolds /\ MutualExclusion /\ ObjectFits)'
  BY <1>1 DEF HolderHolds, MutualExclusion, ObjectFits
<1>4. (SleepsOnItsObject /\ NoLostWakeup)'
  BY <1>1 DEF SleepsOnItsObject, NoLostWakeup, ObjectFits
<1>5. \A t \in sleepers : op[t] = "wait" => t \in sleepers'
  BY <1>1 DEF SleepsOnItsObject
<1>6. QueuedAreWaiting'
  BY <1>1, <1>5 DEF QueuedAreWaiting
<1>7. WaitersAreQueued'
  BY <1>1 DEF WaitersAreQueued
<1> QED
  BY <1>2, <1>3, <1>4, <1>6, <1>7 DEF Rest

\* lock_acquire sleeps only on a busy lock, and takes only a free one.
LEMMA AcquireKeeps ==
  ASSUME SynchInv, NEW l \in Lock, lock_acquire(l)
  PROVE  (SynchVarsTypeOK /\ Rest)'
<1> USE ThreadsAssumption, SynchAssumption DEF SynchInv, SynchTypeOK, ThreadsTypeOK
<1>0. curthread \in Thread /\ curthread \notin sleepers
  BY DEF lock_acquire, Running, Inside, OnePlace
<1>1. CASE AcquireSleeps(l)
  <2>1. /\ sleepers' = sleepers \cup {curthread}
        /\ sleepaddr' = [sleepaddr EXCEPT ![curthread] = l]
        /\ op' = [op EXCEPT ![curthread] = "acquire"]
        /\ obj' = [obj EXCEPT ![curthread] = l]
        /\ UNCHANGED <<count, busy, slept, held, panicked>>
        /\ busy[l] # NULL
    BY <1>1 DEF lock_acquire, AcquireSleeps, SleepThread, Begin
  <2>2. SynchVarsTypeOK'
    BY <1>0, <2>1 DEF SynchVarsTypeOK, Op
  <2>3. (HolderHolds /\ MutualExclusion)'
    BY <2>1 DEF HolderHolds, MutualExclusion
  <2>4. (ObjectFits /\ SleepsOnItsObject /\ NoLostWakeup)'
    BY <1>0, <2>1 DEF ObjectFits, SleepsOnItsObject, NoLostWakeup, Op
  <2>5. QueuedAreWaiting'
    BY <1>0, <2>1 DEF QueuedAreWaiting
  <2>6. WaitersAreQueued'
    BY <1>0, <2>1 DEF WaitersAreQueued
  <2> QED
    BY <2>2, <2>3, <2>4, <2>5, <2>6 DEF Rest
<1>2. CASE ~AcquireSleeps(l)
  <2>1. /\ busy' = [busy EXCEPT ![l] = curthread]
        /\ held' = [held EXCEPT ![curthread] = @ \cup {l}]
        /\ op' = [op EXCEPT ![curthread] = "run"]
        /\ obj' = [obj EXCEPT ![curthread] = NULL]
        /\ UNCHANGED <<sleepers, sleepaddr, count, slept, panicked>>
        /\ busy[l] = NULL
    BY <1>2 DEF lock_acquire, AcquireSleeps, Begin, threadVars
  <2>2. SynchVarsTypeOK'
    BY <1>0, <2>1 DEF SynchVarsTypeOK, Op
  <2>3. \A t \in Thread : l \notin held[t]
    BY <2>1 DEF MutualExclusion
  <2>4. HolderHolds'
    BY <1>0, <2>1 DEF HolderHolds
  <2>5. MutualExclusion'
    BY <1>0, <2>1, <2>3 DEF MutualExclusion
  <2>6. (ObjectFits /\ SleepsOnItsObject /\ NoLostWakeup)'
    BY <1>0, <2>1 DEF ObjectFits, SleepsOnItsObject, NoLostWakeup, Op
  <2>7. QueuedAreWaiting'
    BY <1>0, <2>1 DEF QueuedAreWaiting
  <2>8. WaitersAreQueued'
    BY <1>0, <2>1 DEF WaitersAreQueued
  <2> QED
    BY <2>2, <2>4, <2>5, <2>6, <2>7, <2>8 DEF Rest
<1> QED
  BY <1>1, <1>2

\* lock_release frees a lock of its caller and wakes everyone asleep on it.
LEMMA ReleaseKeeps ==
  ASSUME SynchInv, NEW l \in Lock, lock_release(l)
  PROVE  (SynchVarsTypeOK /\ Rest)'
<1> USE ThreadsAssumption, SynchAssumption DEF SynchInv, SynchTypeOK, ThreadsTypeOK
<1>0. curthread \in Thread /\ l \in held[curthread]
  BY DEF lock_release, Running
<1>1. /\ sleepers' = {t \in sleepers : sleepaddr[t] # l}
      /\ busy' = [busy EXCEPT ![l] = NULL]
      /\ held' = [held EXCEPT ![curthread] = @ \ {l}]
      /\ UNCHANGED <<sleepaddr, count, slept, op, obj, panicked>>
  BY DEF lock_release, ReleaseWakes, WakeupThreads, Woken
<1>2. SynchVarsTypeOK'
  BY <1>0, <1>1 DEF SynchVarsTypeOK
<1>3. HolderHolds'
  BY <1>0, <1>1 DEF HolderHolds, MutualExclusion
<1>4. MutualExclusion'
  BY <1>0, <1>1 DEF MutualExclusion
<1>5. (ObjectFits /\ SleepsOnItsObject /\ NoLostWakeup)'
  BY <1>1 DEF ObjectFits, SleepsOnItsObject, NoLostWakeup
<1>6. \A t \in sleepers : op[t] = "wait" => t \in sleepers'
  BY <1>1 DEF SleepsOnItsObject
<1>7. QueuedAreWaiting'
  BY <1>1, <1>6 DEF QueuedAreWaiting
<1>8. WaitersAreQueued'
  BY <1>1 DEF WaitersAreQueued
<1> QED
  BY <1>2, <1>3, <1>4, <1>5, <1>7, <1>8 DEF Rest

\* cv_wait joins the queue, frees the lock and falls asleep in one step.
LEMMA WaitKeeps ==
  ASSUME SynchInv, NEW c \in CV, NEW l \in Lock, cv_wait(c, l)
  PROVE  (SynchVarsTypeOK /\ Rest)'
<1> USE ThreadsAssumption, SynchAssumption DEF SynchInv, SynchTypeOK, ThreadsTypeOK
<1>0. curthread \in Thread /\ curthread \notin sleepers /\ l \in held[curthread]
  BY DEF cv_wait, Running, OnePlace
<1> DEFINE q == Append(slept[c], curthread)
<1>1. /\ sleepers' = {t \in sleepers : sleepaddr[t] # l} \cup {curthread}
      /\ sleepaddr' = [sleepaddr EXCEPT ![curthread] = curthread]
      /\ busy' = [busy EXCEPT ![l] = NULL]
      /\ held' = [held EXCEPT ![curthread] = @ \ {l}]
      /\ slept' = [slept EXCEPT ![c] = q]
      /\ op' = [op EXCEPT ![curthread] = "wait"]
      /\ obj' = [obj EXCEPT ![curthread] = l]
      /\ UNCHANGED <<count, panicked>>
  BY DEF cv_wait, Begin, ReleaseWakes, WaitAddress, WakeupThenSleep, Woken
<1>2. /\ slept[c] \in Seq(Thread) /\ Len(slept[c]) \in Nat
      /\ q \in Seq(Thread) /\ Len(q) = Len(slept[c]) + 1
      /\ \A i \in 1..Len(slept[c]) : q[i] = slept[c][i] /\ q[i] \in Range(slept[c])
      /\ q[Len(slept[c]) + 1] = curthread
      /\ Range(q) = Range(slept[c]) \cup {curthread}
  <2>1. slept[c] \in Seq(Thread)
    OBVIOUS
  <2>2. Len(slept[c]) \in Nat /\ Range(slept[c]) = {slept[c][i] : i \in 1..Len(slept[c])}
    BY <2>1, LenProperties, RangeEquality
  <2> QED
    BY <1>0, <2>1, <2>2, AppendProperties, RangeAppend
<1>3. \A d \in CV : curthread \notin Range(slept[d])
  BY <1>0 DEF QueuedAreWaiting
<1> HIDE DEF q
<1>4. SynchVarsTypeOK'
  BY <1>0, <1>1, <1>2 DEF SynchVarsTypeOK, Op
<1>5. HolderHolds'
  BY <1>0, <1>1 DEF HolderHolds, MutualExclusion
<1>6. MutualExclusion'
  BY <1>0, <1>1 DEF MutualExclusion
<1>7. (ObjectFits /\ SleepsOnItsObject /\ NoLostWakeup)'
  BY <1>0, <1>1 DEF ObjectFits, SleepsOnItsObject, NoLostWakeup, Op
<1>8. \A t \in sleepers : op[t] = "wait" => t \in sleepers' /\ op'[t] = "wait"
  BY <1>0, <1>1 DEF SleepsOnItsObject
<1>9. QueuedAreWaiting'
  <2>1. \A d \in CV : d # c => slept'[d] = slept[d]
    BY <1>1
  <2>2. slept'[c] = q
    BY <1>1
  <2>3. ASSUME NEW d \in CV
        PROVE  /\ \A i, j \in 1..Len(slept'[d]) : slept'[d][i] = slept'[d][j] => i = j
               /\ \A t \in Range(slept'[d]) : t \in sleepers' /\ op'[t] = "wait"
    <3>1. CASE d # c
      BY <2>1, <3>1, <1>8 DEF QueuedAreWaiting
    <3>2. CASE d = c
      <4>1. \A i, j \in 1..Len(q) : q[i] = q[j] => i = j
        <5>1. \A i, j \in 1..Len(slept[c]) : slept[c][i] = slept[c][j] => i = j
          BY DEF QueuedAreWaiting
        <5>2. \A i \in 1..Len(slept[c]) : q[i] # curthread
          BY <1>2, <1>3
        <5> HIDE DEF SynchInv
        <5> QED
          BY <1>2, <5>1, <5>2
      <4>2. \A t \in Range(q) : t \in sleepers' /\ op'[t] = "wait"
        BY <1>0, <1>1, <1>2, <1>8 DEF QueuedAreWaiting
      <4> QED
        BY <2>2, <3>2, <4>1, <4>2
    <3> QED
      BY <3>1, <3>2
  <2>4. \A d, e \in CV : d # e => Range(slept'[d]) \cap Range(slept'[e]) = {}
    BY <1>2, <1>3, <2>1, <2>2 DEF QueuedAreWaiting
  <2> QED
    BY <2>3, <2>4 DEF QueuedAreWaiting
<1>10. WaitersAreQueued'
  <2>1. \A d \in CV : Range(slept[d]) \subseteq Range(slept'[d])
    BY <1>1, <1>2
  <2>2. curthread \in Range(slept'[c])
    BY <1>1, <1>2
  <2> QED
    BY <1>0, <1>1, <2>1, <2>2 DEF WaitersAreQueued
<1> QED
  BY <1>4, <1>5, <1>6, <1>7, <1>9, <1>10 DEF Rest

\* cv_signal wakes the head of the queue: it alone sleeps on its address.
LEMMA SignalKeeps ==
  ASSUME SynchInv, NEW c \in CV, cv_signal(c)
  PROVE  (SynchVarsTypeOK /\ Rest)'
<1> USE ThreadsAssumption, SynchAssumption DEF SynchInv, SynchTypeOK, ThreadsTypeOK
<1>1. CASE slept[c] = <<>>
  <2>1. /\ UNCHANGED <<sleepers, sleepaddr, count, busy, slept, op, obj, held>>
        /\ panicked' = TRUE
    BY <1>1 DEF cv_signal, threadVars
  <2> QED
    BY <2>1 DEF Rest, SynchVarsTypeOK, HolderHolds, MutualExclusion, ObjectFits,
                SleepsOnItsObject, NoLostWakeup, QueuedAreWaiting, WaitersAreQueued
<1>2. CASE slept[c] # <<>>
  <2> DEFINE q == Tail(slept[c])
             h == Head(slept[c])
  <2>1. /\ sleepers' = {t \in sleepers : sleepaddr[t] # h}
        /\ slept' = [slept EXCEPT ![c] = q]
        /\ UNCHANGED <<sleepaddr, count, busy, op, obj, held, panicked>>
    BY <1>2 DEF cv_signal, QueueAfterSignal, WakeupThreads, Woken
  <2>2. slept[c] \in Seq(Thread) /\ q \in Seq(Thread) /\ h \in Thread
    BY <1>2, HeadTailProperties
  <2>3. \A i, j \in 1..Len(slept[c]) : slept[c][i] = slept[c][j] => i = j
    BY DEF QueuedAreWaiting
  <2>4. /\ h \in Range(slept[c])
        /\ Range(q) = Range(slept[c]) \ {h}
        /\ \A i, j \in 1..Len(q) : q[i] = q[j] => i = j
    BY <1>2, <2>2, <2>3, RangeTail
  <2> HIDE DEF q, h
  <2>5. sleepers' = sleepers \ {h}
    BY <2>1, <2>2, <2>4 DEF SleepsOnItsObject, ObjectFits, QueuedAreWaiting, Op
  <2>6. SynchVarsTypeOK'
    BY <2>1, <2>2 DEF SynchVarsTypeOK
  <2>7. (HolderHolds /\ MutualExclusion /\ ObjectFits)'
    BY <2>1 DEF HolderHolds, MutualExclusion, ObjectFits
  <2>8. (SleepsOnItsObject /\ NoLostWakeup)'
    BY <2>1, <2>5 DEF SleepsOnItsObject, NoLostWakeup
  <2>9. QueuedAreWaiting'
    <3>1. \A d \in CV : d # c => slept'[d] = slept[d] /\ h \notin Range(slept[d])
      BY <2>1, <2>4 DEF QueuedAreWaiting
    <3>2. slept'[c] = q
      BY <2>1
    <3> QED
      BY <2>1, <2>4, <2>5, <3>1, <3>2 DEF QueuedAreWaiting
  <2>10. WaitersAreQueued'
    <3>1. \A d \in CV : Range(slept[d]) \ {h} \subseteq Range(slept'[d])
      BY <2>1, <2>4
    <3> QED
      BY <2>1, <2>5, <3>1 DEF WaitersAreQueued
  <2> QED
    BY <2>6, <2>7, <2>8, <2>9, <2>10 DEF Rest
<1> QED
  BY <1>1, <1>2

\* cv_broadcast wakes exactly the threads on the queue it drains.
LEMMA BroadcastKeeps ==
  ASSUME SynchInv, NEW c \in CV, cv_broadcast(c)
  PROVE  (SynchVarsTypeOK /\ Rest)'
<1> USE ThreadsAssumption, SynchAssumption DEF SynchInv, SynchTypeOK, ThreadsTypeOK
<1>1. /\ sleepers' = {t \in sleepers : sleepaddr[t] \notin Range(slept[c])}
      /\ slept' = [slept EXCEPT ![c] = <<>>]
      /\ UNCHANGED <<sleepaddr, count, busy, op, obj, held, panicked>>
  BY DEF cv_broadcast, BroadcastTo, WakeupThreads, Woken
<1>2. Range(slept[c]) \subseteq Thread
  <2>1. slept[c] \in Seq(Thread)
    OBVIOUS
  <2> QED
    BY <2>1, RangeOfSeq
<1>3. sleepers' = sleepers \ Range(slept[c])
  <2>1. \A t \in sleepers : sleepaddr[t] \in Thread => sleepaddr[t] = t
    BY DEF SleepsOnItsObject, ObjectFits, Op
  <2>2. \A t \in Range(slept[c]) : sleepaddr[t] = t
    BY DEF SleepsOnItsObject, QueuedAreWaiting
  <2> HIDE DEF SynchInv
  <2> QED
    BY <1>1, <1>2, <2>1, <2>2
<1>4. SynchVarsTypeOK'
  BY <1>1 DEF SynchVarsTypeOK
<1>5. (HolderHolds /\ MutualExclusion /\ ObjectFits)'
  BY <1>1 DEF HolderHolds, MutualExclusion, ObjectFits
<1>6. (SleepsOnItsObject /\ NoLostWakeup)'
  BY <1>1, <1>3 DEF SleepsOnItsObject, NoLostWakeup
<1>7. /\ \A d \in CV : d # c => slept'[d] = slept[d]
      /\ slept'[c] = <<>> /\ Len(slept'[c]) = 0 /\ Range(slept'[c]) = {}
  BY <1>1, RangeEmpty
<1>8. QueuedAreWaiting'
  BY <1>1, <1>3, <1>7 DEF QueuedAreWaiting
<1>9. WaitersAreQueued'
  BY <1>1, <1>3, <1>7 DEF WaitersAreQueued
<1> QED
  BY <1>4, <1>5, <1>6, <1>8, <1>9 DEF Rest

\* fork, exit, preemption and dispatch leave the sleepers and every
\* primitive alone.
LEMMA ThreadsOnlyKeeps ==
  ASSUME SynchInv, UNCHANGED synchVars, sleepers' = sleepers,
         \A t \in sleepers : sleepaddr'[t] = sleepaddr[t]
  PROVE  (SynchVarsTypeOK /\ Rest)'
<1> USE DEF SynchInv, SynchTypeOK, synchVars
<1>1. SynchVarsTypeOK'
  BY DEF SynchVarsTypeOK
<1>2. (HolderHolds /\ MutualExclusion /\ ObjectFits)'
  BY DEF HolderHolds, MutualExclusion, ObjectFits
<1>3. (SleepsOnItsObject /\ NoLostWakeup)'
  BY DEF SleepsOnItsObject, NoLostWakeup
<1>4. (QueuedAreWaiting /\ WaitersAreQueued)'
  BY DEF QueuedAreWaiting, WaitersAreQueued
<1> QED
  BY <1>1, <1>2, <1>3, <1>4 DEF Rest

-----------------------------------------------------------------------------
(* The theorems. *)

\* Every step of the primitives, the scheduler or the timer preserves the
\* inductive invariant.
LEMMA SynchStepInv == SynchInv /\ [SynchNext]_vars => SynchInv'
<1> SUFFICES ASSUME SynchInv, [SynchNext]_vars PROVE SynchInv'
  OBVIOUS
<1>1. (ThreadsTypeOK /\ OnePlace)'
  BY SynchThreadsInv
<1> SUFFICES (SynchVarsTypeOK /\ Rest)'
  BY <1>1 DEF SynchInv, SynchTypeOK, SynchVarsTypeOK, Rest
<1>2. ASSUME NEW t \in Thread, Fork(t) PROVE (SynchVarsTypeOK /\ Rest)'
  <2>1. t \notin sleepers /\ sleepaddr \in [Thread -> Addr \cup {NULL}]
    BY <1>2 DEF Fork, ForkThread, Existing, SynchInv, SynchTypeOK, ThreadsTypeOK
  <2> QED
    BY <1>2, <2>1, ThreadsOnlyKeeps DEF Fork, ForkThread, SynchInv, SynchTypeOK, ThreadsTypeOK
<1>3. ASSUME NEW t \in Thread, Schedule(t) PROVE (SynchVarsTypeOK /\ Rest)'
  <2>1. t \notin sleepers /\ sleepaddr \in [Thread -> Addr \cup {NULL}]
    BY <1>3 DEF Schedule, Dispatch, SynchInv, SynchTypeOK, ThreadsTypeOK, OnePlace
  <2> QED
    BY <1>3, <2>1, ThreadsOnlyKeeps DEF Schedule, Dispatch, SynchInv, SynchTypeOK, ThreadsTypeOK
<1>4. CASE Exit
  BY <1>4, ThreadsOnlyKeeps DEF Exit, ExitThread
<1>5. CASE Preempt
  BY <1>5, ThreadsOnlyKeeps DEF Preempt, TickThreads, Woken
<1>6. CASE UNCHANGED vars
  BY <1>6, ThreadsOnlyKeeps DEF vars, threadVars
<1> QED
  BY <1>2, <1>3, <1>4, <1>5, <1>6, PKeeps, VKeeps, AcquireKeeps, ReleaseKeeps,
     WaitKeeps, SignalKeeps, BroadcastKeeps
  DEF SynchNext, SynchStep, Halted

\* The inductive invariant holds in every reachable state, for any number of
\* threads, semaphores, locks and condition variables.
THEOREM SynchInvariant == SynchSpec => []SynchInv
  BY SynchInitInv, SynchStepInv, PTL DEF SynchSpec

\* Only one thread at a time is between the return of lock_acquire and
\* lock_release, whatever the timer and the wakeups do.
THEOREM LocksExclude == SynchSpec => []MutualExclusion
<1>1. SynchInv => MutualExclusion
  BY DEF SynchInv
<1> QED
  BY SynchInvariant, <1>1, PTL

\* No thread sleeps in P on a positive count or in lock_acquire on a free
\* lock.
THEOREM WakeupsNotLost == SynchSpec => []NoLostWakeup
<1>1. SynchInv => NoLostWakeup
  BY DEF SynchInv
<1> QED
  BY SynchInvariant, <1>1, PTL

\* The threads asleep in cv_wait are exactly those on the queues of the
\* condition variables, as long as kmalloc does not fail in q_addtail.
THEOREM WaitersQueued == SynchSpec => [](WaitersAreQueued /\ QueuedAreWaiting)
<1>1. SynchInv => WaitersAreQueued /\ QueuedAreWaiting
  BY DEF SynchInv
<1> QED
  BY SynchInvariant, <1>1, PTL

\* The primitives use the thread system only as thread.h allows.
THEOREM SynchImplementsThreads == SynchSpec => ThreadsSpec
<1>1. SynchInit => ThreadsInit
  BY DEF SynchInit
<1>2. SynchInv /\ [SynchNext]_vars => [ThreadsNext]_threadVars
  BY SynchStepThreads DEF SynchInv
<1> QED
  BY SynchInvariant, <1>1, <1>2, PTL DEF SynchSpec, ThreadsSpec
=============================================================================
