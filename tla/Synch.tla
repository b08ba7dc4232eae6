------------------------------- MODULE Synch -------------------------------
(***************************************************************************)
(* Semaphores, locks and condition variables (kern/thread/synch.c) on top  *)
(* of the thread system.  Every primitive runs with interrupts off from    *)
(* its first test to its return or to the thread_sleep in it, so each such *)
(* stretch is one action; timer interrupts come between them.              *)
(*                                                                         *)
(* The callers keep the rules of synch.h: a lock is released, and a        *)
(* condition variable used, by the thread that holds the lock; a thread    *)
(* does not acquire a lock it holds, and exits holding none.  V is also    *)
(* called by interrupt handlers.                                           *)
(***************************************************************************)
EXTENDS Threads, Sequences, Functions

CONSTANTS
    Sem, Lock, CV,
    InitialCount,   \* the count each semaphore is created with
    MaxCount        \* bound: V is not called on a count of MaxCount

\* Sleep addresses are addresses of distinct live objects; cv_wait sleeps on
\* the address of the waiting thread.
ASSUME SynchAssumption ==
    /\ Addr = Sem \cup Lock \cup Thread
    /\ Sem \cap Lock = {} /\ Sem \cap Thread = {} /\ Lock \cap Thread = {}
    /\ InitialCount \in [Sem -> Nat]
    /\ MaxCount \in Nat

VARIABLES
    count,      \* of each semaphore
    busy,       \* of each lock: the holder, NULL for 0
    slept,      \* the queue slept_threads of each CV
    op,         \* what each thread is doing: running its own code ("run"),
                \* inside P or lock_acquire, or returning from cv_wait ("wait")
    obj,        \* the semaphore or lock of that operation
    held,       \* the locks each thread has acquired and not yet released
    panicked    \* an assertion failed and the machine stopped

synchVars == <<count, busy, slept, op, obj, held, panicked>>
vars == <<threadVars, synchVars>>

Op == {"run", "P", "acquire", "wait"}

SynchTypeOK ==
    /\ ThreadsTypeOK
    /\ count \in [Sem -> Nat]
    /\ busy \in [Lock -> Thread \cup {NULL}]
    /\ slept \in [CV -> Seq(Thread)]
    /\ op \in [Thread -> Op]
    /\ obj \in [Thread -> Sem \cup Lock \cup {NULL}]
    /\ held \in [Thread -> SUBSET Lock]
    /\ panicked \in BOOLEAN

SynchInit ==
    /\ ThreadsInit
    /\ count = InitialCount
    /\ busy = [l \in Lock |-> NULL]
    /\ slept = [c \in CV |-> <<>>]
    /\ op = [t \in Thread |-> "run"]
    /\ obj = [t \in Thread |-> NULL]
    /\ held = [t \in Thread |-> {}]
    /\ panicked = FALSE

-----------------------------------------------------------------------------
\* The current thread runs its caller's code, with interrupts on.
Running == curthread # NULL /\ op[curthread] = "run"

\* The current thread is inside primitive o on object x, interrupts off.
Inside(o, x) == curthread # NULL /\ op[curthread] = o /\ obj[curthread] = x

\* Interrupts are on in the caller's code, between the thread_sleep and the
\* lock_acquire of cv_wait, and in cpu_idle.
InterruptsOn ==
    IF curthread = NULL THEN runnable = {} ELSE op[curthread] \in {"run", "wait"}

Begin(o, x) ==
    /\ op' = [op EXCEPT ![curthread] = o]
    /\ obj' = [obj EXCEPT ![curthread] = x]

\* Mutant: "if" in place of "while", a woken thread does not test again.
PSleepsOnce(s) == Running /\ count[s] = 0

\* The test of the loop in P.
PSleeps(s) == count[s] = 0

P(s) ==
    /\ Running \/ Inside("P", s)
    /\ IF PSleeps(s)
       THEN /\ SleepThread(s)
            /\ Begin("P", s)
            /\ UNCHANGED count
       ELSE /\ count' = [count EXCEPT ![s] = @ - 1]
            /\ Begin("run", NULL)
            /\ UNCHANGED threadVars
    /\ UNCHANGED <<busy, slept, held, panicked>>

\* Mutant: the sleepers are not woken.
VWakesNone(s) == {}

VWakes(s) == {s}

\* Called by the current thread, or by the interrupt handler of a device.
V(s) ==
    /\ InterruptsOn
    /\ count[s] < MaxCount
    /\ count' = [count EXCEPT ![s] = @ + 1]
    /\ WakeupThreads(VWakes(s))
    /\ UNCHANGED <<busy, slept, op, obj, held, panicked>>

\* Mutant: a woken thread takes the lock without testing it again.
AcquireSleepsOnce(l) == busy[l] # NULL /\ op[curthread] # "acquire"

\* The test of the loop in lock_acquire.
AcquireSleeps(l) == busy[l] # NULL

lock_acquire(l) ==
    /\ \/ Running /\ l \notin held[curthread]
       \/ Inside("acquire", l)
       \/ Inside("wait", l)
    /\ IF AcquireSleeps(l)
       THEN /\ SleepThread(l)
            /\ Begin("acquire", l)
            /\ UNCHANGED <<busy, held>>
       ELSE /\ busy' = [busy EXCEPT ![l] = curthread]
            /\ held' = [held EXCEPT ![curthread] = @ \cup {l}]
            /\ Begin("run", NULL)
            /\ UNCHANGED threadVars
    /\ UNCHANGED <<count, slept, panicked>>

\* Mutant: the lock is freed and nobody is told.
ReleaseWakesNone(l) == {}

ReleaseWakes(l) == {l}

lock_release(l) ==
    /\ Running
    /\ l \in held[curthread]
    /\ busy' = [busy EXCEPT ![l] = NULL]
    /\ held' = [held EXCEPT ![curthread] = @ \ {l}]
    /\ WakeupThreads(ReleaseWakes(l))
    /\ UNCHANGED <<count, slept, op, obj, panicked>>

\* Mutant: cv_wait sleeps on the lock.
WaitOnLock(l) == l

\* The address cv_wait sleeps on.
WaitAddress(l) == curthread

\* cv_wait up to its thread_sleep; the rest of it is lock_acquire(l).
cv_wait(c, l) ==
    /\ Running
    /\ l \in held[curthread]
    /\ slept' = [slept EXCEPT ![c] = Append(@, curthread)]
    /\ busy' = [busy EXCEPT ![l] = NULL]
    /\ held' = [held EXCEPT ![curthread] = @ \ {l}]
    /\ Begin("wait", l)
    /\ WakeupThenSleep(ReleaseWakes(l), WaitAddress(l))
    /\ UNCHANGED <<count, panicked>>

\* Mutant: get_head in place of q_remhead.
QueueKept(c) == slept[c]

\* The queue of c once its head has been removed.
QueueAfterSignal(c) == Tail(slept[c])

\* q_remhead asserts that the queue is not empty.
cv_signal(c) ==
    /\ Running
    /\ held[curthread] # {}
    /\ IF slept[c] = <<>>
       THEN panicked' = TRUE /\ UNCHANGED <<threadVars, slept>>
       ELSE /\ slept' = [slept EXCEPT ![c] = QueueAfterSignal(c)]
            /\ WakeupThreads({Head(slept[c])})
            /\ UNCHANGED panicked
    /\ UNCHANGED <<count, busy, op, obj, held>>

\* Mutant: the queue is emptied and only its head is woken.
BroadcastToHead(c) == IF slept[c] = <<>> THEN {} ELSE {Head(slept[c])}

\* The addresses on which cv_broadcast calls thread_wakeup.
BroadcastTo(c) == Range(slept[c])

cv_broadcast(c) ==
    /\ Running
    /\ held[curthread] # {}
    /\ slept' = [slept EXCEPT ![c] = <<>>]
    /\ WakeupThreads(BroadcastTo(c))
    /\ UNCHANGED <<count, busy, op, obj, held, panicked>>

Fork(t) ==
    /\ Running
    /\ ForkThread(t)
    /\ UNCHANGED synchVars

Exit ==
    /\ Running
    /\ curthread # Boot
    /\ held[curthread] = {}
    /\ ExitThread
    /\ UNCHANGED synchVars

\* The timer interrupt, or a thread_yield by the thread itself.  In cpu_idle
\* the interrupt changes nothing.
Preempt ==
    /\ InterruptsOn
    /\ TickThreads({})
    /\ UNCHANGED synchVars

Schedule(t) ==
    /\ Dispatch(t)
    /\ UNCHANGED synchVars

SynchStep ==
    \/ \E s \in Sem : P(s) \/ V(s)
    \/ \E l \in Lock : lock_acquire(l) \/ lock_release(l)
    \/ \E c \in CV, l \in Lock : cv_wait(c, l)
    \/ \E c \in CV : cv_signal(c) \/ cv_broadcast(c)
    \/ \E t \in Thread : Fork(t) \/ Schedule(t)
    \/ Exit
    \/ Preempt

\* panic() halts the machine with interrupts off.
Halted == panicked /\ UNCHANGED vars

SynchNext == (~panicked /\ SynchStep) \/ Halted

SynchSpec == SynchInit /\ [][SynchNext]_vars

\* Thread t carries on inside P, lock_acquire or cv_wait.
Retry(t) ==
    /\ curthread = t
    /\ \/ \E s \in Sem : Inside("P", s) /\ P(s)
       \/ \E l \in Lock : (Inside("acquire", l) \/ Inside("wait", l)) /\ lock_acquire(l)

\* A runnable thread gets the CPU (Sched!RunnableRuns), a time slice is long
\* enough for some instructions, and the timer ends each of them.
SynchFairSpec ==
    /\ SynchSpec
    /\ \A t \in Thread : SF_vars(Schedule(t)) /\ SF_vars(Retry(t))
    /\ SF_vars(Preempt)

-----------------------------------------------------------------------------
\* "Only one thread can hold the lock at the same time" (synch.h): between
\* the return of its lock_acquire and its lock_release or cv_wait, a thread
\* is the only one there, and the lock names it.
MutualExclusion ==
    /\ \A t, u \in Thread : t # u => held[t] \cap held[u] = {}
    /\ \A t \in Thread : \A l \in held[t] : busy[l] = t

\* No wakeup is lost: a thread sleeps in P only while the count is 0, and in
\* lock_acquire only while the lock is held; a V or a lock_release in
\* between would have to leave a sleeper behind.
NoLostWakeup ==
    \A t \in sleepers :
        /\ op[t] = "P" => count[obj[t]] = 0
        /\ op[t] = "acquire" => busy[obj[t]] # NULL

\* The queue of a CV holds exactly the threads that sleep in cv_wait on it,
\* each of them once and on one queue, so that "cv_broadcast - Wake up all
\* threads sleeping on this CV" (synch.h) can be true.
WaitersAreQueued ==
    \A t \in sleepers :
        op[t] = "wait" => \E c \in CV : t \in Range(slept[c])

QueuedAreWaiting ==
    /\ \A c \in CV :
         /\ \A i, j \in 1..Len(slept[c]) : slept[c][i] = slept[c][j] => i = j
         /\ \A t \in Range(slept[c]) : t \in sleepers /\ op[t] = "wait"
    /\ \A c, d \in CV : c # d => Range(slept[c]) \cap Range(slept[d]) = {}

\* A sleeping thread sleeps on the object of its own operation: a wakeup on
\* a semaphore, a lock or a CV never wakes a thread that waits for another.
SleepsOnItsObject ==
    \A t \in sleepers :
        /\ op[t] # "run"
        /\ sleepaddr[t] = IF op[t] = "wait" THEN t ELSE obj[t]

\* What makes the invariants above inductive: a busy lock is one its holder
\* still has, and a thread inside a primitive has an object of its kind.
HolderHolds == \A l \in Lock : busy[l] # NULL => l \in held[busy[l]]

ObjectFits ==
    \A t \in Thread : /\ op[t] = "P" => obj[t] \in Sem
                      /\ op[t] \in {"acquire", "wait"} => obj[t] \in Lock

SynchInv ==
    /\ SynchTypeOK
    /\ OnePlace
    /\ HolderHolds
    /\ MutualExclusion
    /\ ObjectFits
    /\ SleepsOnItsObject
    /\ NoLostWakeup
    /\ QueuedAreWaiting
    /\ WaitersAreQueued

\* A lock that is free while threads are inside lock_acquire for it is
\* taken, and a semaphore that threads are blocked on does not stay
\* positive: the retry loops and the wakeups together make progress.
LockProgress ==
    \A l \in Lock :
        busy[l] = NULL /\ (\E t \in Thread :
                              /\ obj[t] = l
                              /\ op[t] = "acquire" \/ (op[t] = "wait" /\ t \notin sleepers))
            ~> busy[l] # NULL \/ panicked

SemProgress ==
    \A s \in Sem :
        count[s] > 0 /\ (\E t \in Thread : op[t] = "P" /\ obj[t] = s)
            ~> \/ count[s] = 0
               \/ ~\E t \in Thread : op[t] = "P" /\ obj[t] = s
               \/ panicked
=============================================================================
