------------------------------ MODULE Threads ------------------------------
(***************************************************************************)
(* What the thread system of kern/thread promises its callers, on one CPU. *)
(* A thread is the current thread, or it is runnable, asleep on a sleep    *)
(* address, or a zombie.  The order of the run queue is left open here:    *)
(* module Sched adds it and implements this one.                           *)
(*                                                                         *)
(* mi_switch is two steps: the caller is stashed on a list and curthread   *)
(* becomes NULL; then the scheduler picks a thread.  Interrupts are off    *)
(* between the two, except while the scheduler idles on an empty queue.    *)
(***************************************************************************)
EXTENDS Integers, FiniteSets

CONSTANTS
    Thread,     \* thread structures (their addresses)
    Addr,       \* sleep addresses
    Boot,       \* the thread that is running when the system starts
    NULL        \* the null pointer: no thread, no sleep address

ASSUME ThreadsAssumption ==
    /\ Boot \in Thread
    /\ NULL \notin Thread
    /\ NULL \notin Addr

VARIABLES
    curthread,  \* the running thread, NULL while the scheduler is at work
    runnable,   \* the threads on the run queue
    sleepers,   \* the threads in sleepers[]
    zombies,    \* the threads in zombies[], exited but not yet destroyed
    fresh,      \* runnable threads that will start in mi_threadstart
    sleepaddr   \* t_sleepaddr of each thread

threadVars == <<curthread, runnable, sleepers, zombies, fresh, sleepaddr>>

\* The thread structures that exist.
Existing == ({curthread} \ {NULL}) \cup runnable \cup sleepers \cup zombies

\* Interrupts are taken while a thread runs, and in cpu_idle.
InterruptsPossible == curthread # NULL \/ runnable = {}

ThreadsTypeOK ==
    /\ curthread \in Thread \cup {NULL}
    /\ runnable \subseteq Thread
    /\ sleepers \subseteq Thread
    /\ zombies \subseteq Thread
    /\ fresh \subseteq runnable
    /\ sleepaddr \in [Thread -> Addr \cup {NULL}]

-----------------------------------------------------------------------------
ThreadsInit ==
    /\ curthread = Boot
    /\ runnable = {}
    /\ sleepers = {}
    /\ zombies = {}
    /\ fresh = {}
    /\ sleepaddr = [t \in Thread |-> NULL]

\* thread_fork, its last part: the new thread is made runnable.  A thread
\* structure that was destroyed may be handed out again by kmalloc.
ForkThread(t) ==
    /\ curthread # NULL
    /\ t \in Thread \ Existing
    /\ runnable' = runnable \cup {t}
    /\ fresh' = fresh \cup {t}
    /\ sleepaddr' = [sleepaddr EXCEPT ![t] = NULL]
    /\ UNCHANGED <<curthread, sleepers, zombies>>

\* thread_yield, called by the thread itself or by hardclock.
YieldThread ==
    /\ curthread # NULL
    /\ runnable' = runnable \cup {curthread}
    /\ curthread' = NULL
    /\ UNCHANGED <<sleepers, zombies, fresh, sleepaddr>>

\* thread_sleep(a), up to the switch.
SleepThread(a) ==
    /\ curthread # NULL
    /\ sleepers' = sleepers \cup {curthread}
    /\ sleepaddr' = [sleepaddr EXCEPT ![curthread] = a]
    /\ curthread' = NULL
    /\ UNCHANGED <<runnable, zombies, fresh>>

\* The threads that thread_wakeup finds when called on each address of A.
Woken(A) == {t \in sleepers : sleepaddr[t] \in A}

\* Mutant: a woken thread is made runnable and not taken off sleepers[].
WakeupKept(A) ==
    /\ InterruptsPossible
    /\ runnable' = runnable \cup Woken(A)
    /\ UNCHANGED <<curthread, sleepers, zombies, fresh, sleepaddr>>

\* thread_wakeup on each address of A, by a thread or an interrupt handler.
WakeupThreads(A) ==
    /\ InterruptsPossible
    /\ runnable' = runnable \cup Woken(A)
    /\ sleepers' = sleepers \ Woken(A)
    /\ UNCHANGED <<curthread, zombies, fresh, sleepaddr>>

\* thread_wakeup on each address of A, and then thread_sleep(a).
WakeupThenSleep(A, a) ==
    /\ curthread # NULL
    /\ runnable' = runnable \cup Woken(A)
    /\ sleepers' = (sleepers \ Woken(A)) \cup {curthread}
    /\ sleepaddr' = [sleepaddr EXCEPT ![curthread] = a]
    /\ curthread' = NULL
    /\ UNCHANGED <<zombies, fresh>>

\* thread_exit, its last part.
ExitThread ==
    /\ curthread # NULL
    /\ zombies' = zombies \cup {curthread}
    /\ curthread' = NULL
    /\ UNCHANGED <<runnable, sleepers, fresh, sleepaddr>>

\* The scheduler returns t.  A thread that was switched out comes back in
\* mi_switch and destroys the zombies; a new one starts in mi_threadstart,
\* which does not.
Dispatch(t) ==
    /\ curthread = NULL
    /\ t \in runnable
    /\ curthread' = t
    /\ runnable' = runnable \ {t}
    /\ fresh' = fresh \ {t}
    /\ zombies' = IF t \in fresh THEN zombies ELSE {}
    /\ sleepaddr' = [sleepaddr EXCEPT ![t] = NULL]
    /\ UNCHANGED sleepers

\* hardclock, when it wakes the sleepers on A before it yields.  With no
\* current thread (in cpu_idle) mi_switch returns at once.
TickThreads(A) ==
    /\ InterruptsPossible
    /\ runnable' = runnable \cup Woken(A) \cup ({curthread} \ {NULL})
    /\ sleepers' = sleepers \ Woken(A)
    /\ curthread' = NULL
    /\ UNCHANGED <<zombies, fresh, sleepaddr>>

ThreadsNext ==
    \/ \E t \in Thread : ForkThread(t) \/ Dispatch(t)
    \/ YieldThread
    \/ ExitThread
    \/ \E A \in SUBSET Addr : WakeupThreads(A) \/ TickThreads(A)
    \/ \E a \in Addr : SleepThread(a)
    \/ \E A \in SUBSET Addr, a \in Addr : WakeupThenSleep(A, a)

ThreadsSpec == ThreadsInit /\ [][ThreadsNext]_threadVars

-----------------------------------------------------------------------------
\* No thread is ever on two lists, and none that exists is off all of them:
\* mi_switch, make_runnable, thread_wakeup and exorcise move threads between
\* curthread, the run queue, sleepers[] and zombies[] and never copy one.
OnePlace ==
    /\ curthread \notin runnable \cup sleepers \cup zombies
    /\ runnable \cap sleepers = {}
    /\ runnable \cap zombies = {}
    /\ sleepers \cap zombies = {}

\* Exactly the threads in sleepers[] have a sleep address that a
\* thread_wakeup could still have to look for.
SleepersHaveAddress == \A t \in sleepers : sleepaddr[t] # NULL
=============================================================================
