------------------------------- MODULE Sched -------------------------------
(***************************************************************************)
(* The thread system as kern/thread builds it: a round-robin run queue     *)
(* (scheduler.c), the arrays sleepers[] and zombies[] in the order their   *)
(* elements were added (thread.c), the timer (hardclock.c), and the room   *)
(* the three containers have.  thread_fork preallocates that room, so that *)
(* a context switch never has to call kmalloc; "grown" records the         *)
(* containers for which one did.                                           *)
(***************************************************************************)
EXTENDS Integers, Sequences, SequencesExt

CONSTANTS
    Thread, Addr, Boot, NULL,
    Lbolt,      \* &lbolt, the address clocksleep sleeps on
    HZ,         \* timer interrupts per second
    QSize,      \* slots in the new run queue: 32 in scheduler_bootstrap
    Shrink      \* array_setsize(a, 0) frees an array above this size: 16

ASSUME SchedAssumption ==
    /\ Boot \in Thread
    /\ Lbolt \in Addr
    /\ NULL \notin Thread \cup Addr
    /\ HZ \in Nat \ {0}
    /\ QSize \in Nat \ {0, 1}
    /\ Shrink \in Nat

VARIABLES
    curthread, runqueue, sleepers, zombies, sleepaddr, fresh,
    numthreads,     \* threads created and not exited
    lbolt_counter,  \* ticks since lbolt was last woken
    room,           \* slots of each container
    grown           \* containers that grew outside thread_fork

lists == <<curthread, runqueue, sleepers, zombies, sleepaddr, fresh>>
vars == <<lists, numthreads, lbolt_counter, room, grown>>

Container == {"runqueue", "sleepers", "zombies"}

InterruptsPossible == curthread # NULL \/ runqueue = <<>>

SchedTypeOK ==
    /\ curthread \in Thread \cup {NULL}
    /\ runqueue \in Seq(Thread)
    /\ sleepers \in Seq(Thread)
    /\ zombies \in Seq(Thread)
    /\ sleepaddr \in [Thread -> Addr \cup {NULL}]
    /\ fresh \subseteq Thread
    /\ numthreads \in 0..Cardinality(Thread)
    /\ lbolt_counter \in 0..(HZ - 1)
    /\ room \in [Container -> Nat]
    /\ grown \subseteq Container

-----------------------------------------------------------------------------
\* q_grow: the size doubles until it reaches the target.
RECURSIVE QGrow(_, _)
QGrow(size, target) == IF size >= target THEN size ELSE QGrow(2 * size, target)

\* array_preallocate: the size grows the same way, from (0 + 1) * 2.
RECURSIVE ArrayGrow(_, _)
ArrayGrow(max, n) == IF max >= n THEN max ELSE ArrayGrow((max + 1) * 2, n)

\* One slot of the ring stays empty: q_addtail grows a queue of n elements
\* that has n + 1 slots.
QRoom(size, n) == IF n < size THEN size ELSE QGrow(size, n + 1)

\* array_setsize to n elements: grows an array that is too small, and frees
\* one that becomes empty when it is larger than Shrink.
ArrayRoom(max, n) ==
    IF n > max THEN ArrayGrow(max, n)
    ELSE IF n = 0 /\ max > Shrink THEN 0 ELSE max

\* A context switch or a wakeup leaves the containers with room r.
SwitchRoom(r) ==
    /\ room' = r
    /\ grown' = grown \cup {c \in Container : r[c] > room[c]}

\* The preallocations of thread_fork, in its order.
Preallocated ==
    << [room EXCEPT !["sleepers"] = ArrayGrow(@, numthreads + 1)],
       [room EXCEPT !["sleepers"] = ArrayGrow(@, numthreads + 1),
                    !["zombies"] = ArrayGrow(@, numthreads + 1)],
       [room EXCEPT !["sleepers"] = ArrayGrow(@, numthreads + 1),
                    !["zombies"] = ArrayGrow(@, numthreads + 1),
                    !["runqueue"] = QGrow(@, numthreads + 1)] >>

SchedInit ==
    /\ curthread = Boot
    /\ runqueue = <<>>
    /\ sleepers = <<>>
    /\ zombies = <<>>
    /\ sleepaddr = [t \in Thread |-> NULL]
    /\ fresh = {}
    /\ numthreads = 1
    /\ lbolt_counter = 0
    /\ room = [c \in Container |-> IF c = "runqueue" THEN QSize ELSE 0]
    /\ grown = {}

-----------------------------------------------------------------------------
Existing == ({curthread} \ {NULL}) \cup ToSet(runqueue \o sleepers \o zombies)

\* Mutant: new arrivals go to the front of the run queue.
MakeRunnableFirst(ts) == ts \o runqueue

\* make_runnable on each thread of ts: the tail of the run queue.
MakeRunnable(ts) == runqueue \o ts

thread_fork(t) ==
    /\ curthread # NULL
    /\ t \in Thread \ Existing
    /\ runqueue' = MakeRunnable(<<t>>)
    /\ room' = [Preallocated[3] EXCEPT
                  !["runqueue"] = QRoom(@, Len(runqueue) + 1)]
    /\ fresh' = fresh \cup {t}
    /\ sleepaddr' = [sleepaddr EXCEPT ![t] = NULL]
    /\ numthreads' = numthreads + 1
    /\ UNCHANGED <<curthread, sleepers, zombies, lbolt_counter, grown>>

\* kmalloc fails in thread_fork after k of the preallocations.
thread_fork_fails(k) ==
    /\ curthread # NULL
    /\ room' = Preallocated[k]
    /\ UNCHANGED <<lists, numthreads, lbolt_counter, grown>>

thread_yield ==
    /\ curthread # NULL
    /\ runqueue' = MakeRunnable(<<curthread>>)
    /\ curthread' = NULL
    /\ SwitchRoom([room EXCEPT !["runqueue"] = QRoom(@, Len(runqueue) + 1)])
    /\ UNCHANGED <<sleepers, zombies, sleepaddr, fresh, numthreads, lbolt_counter>>

thread_sleep(a) ==
    /\ curthread # NULL
    /\ sleepers' = Append(sleepers, curthread)
    /\ sleepaddr' = [sleepaddr EXCEPT ![curthread] = a]
    /\ curthread' = NULL
    /\ SwitchRoom([room EXCEPT !["sleepers"] = ArrayRoom(@, Len(sleepers) + 1)])
    /\ UNCHANGED <<runqueue, zombies, fresh, numthreads, lbolt_counter>>

\* Never the boot thread: kmain runs the menu, and menu() does not return.
thread_exit ==
    /\ curthread \notin {NULL, Boot}
    /\ zombies' = Append(zombies, curthread)
    /\ curthread' = NULL
    /\ numthreads' = numthreads - 1
    /\ SwitchRoom([room EXCEPT !["zombies"] = ArrayRoom(@, Len(zombies) + 1)])
    /\ UNCHANGED <<runqueue, sleepers, sleepaddr, fresh, lbolt_counter>>

AsleepOn(t, a) == sleepaddr[t] = a


\* The threads thread_wakeup(a) makes runnable, in the order of sleepers[].
SleepersOn(a) == SelectSeq(sleepers, LAMBDA t : AsleepOn(t, a))

\* Mutant: a woken thread stays in sleepers[].
SleepersKept(a) == sleepers

\* What it leaves in sleepers[].
SleepersNotOn(a) == SelectSeq(sleepers, LAMBDA t : ~AsleepOn(t, a))

\* Called by a running thread or by an interrupt handler.
thread_wakeup(a) ==
    /\ InterruptsPossible
    /\ runqueue' = MakeRunnable(SleepersOn(a))
    /\ sleepers' = SleepersNotOn(a)
    /\ SwitchRoom([room EXCEPT !["runqueue"] = QRoom(@, Len(runqueue'))])
    /\ UNCHANGED <<curthread, zombies, sleepaddr, fresh, numthreads, lbolt_counter>>

\* Mutant: a new thread exorcises too, although mi_threadstart does not.
ZombiesAfterAlways(next) == <<>>

\* The zombies left when next is back from the switch.
ZombiesAfter(next) == IF next \in fresh THEN zombies ELSE <<>>

\* scheduler(), the switch, and what the thread does before it returns from
\* mi_switch: exorcise, unless it starts in mi_threadstart instead.
scheduler ==
    /\ curthread = NULL
    /\ runqueue # <<>>
    /\ LET next == Head(runqueue) IN
         /\ curthread' = next
         /\ runqueue' = Tail(runqueue)
         /\ fresh' = fresh \ {next}
         /\ sleepaddr' = [sleepaddr EXCEPT ![next] = NULL]
         /\ zombies' = ZombiesAfter(next)
         /\ room' = IF next \in fresh THEN room
                    ELSE [room EXCEPT !["zombies"] = ArrayRoom(@, 0)]
    /\ UNCHANGED <<sleepers, numthreads, lbolt_counter, grown>>

\* Mutant: off by one at the end of the second.
SecondElapsedLate == lbolt_counter + 1 > HZ

SecondElapsed == lbolt_counter + 1 >= HZ

\* Mutant: the counter is reset at every tick.
LboltCounterReset == 0

NextLboltCounter == IF SecondElapsed THEN 0 ELSE lbolt_counter + 1

\* The timer interrupt: lbolt once a second, then thread_yield, which does
\* nothing when the interrupt was taken in cpu_idle.
hardclock ==
    /\ InterruptsPossible
    /\ lbolt_counter' = NextLboltCounter
    /\ LET woken == IF SecondElapsed THEN SleepersOn(Lbolt) ELSE <<>>
           yielding == IF curthread = NULL THEN <<>> ELSE <<curthread>>
       IN  runqueue' = MakeRunnable(woken \o yielding)
    /\ sleepers' = IF SecondElapsed THEN SleepersNotOn(Lbolt) ELSE sleepers
    /\ curthread' = NULL
    /\ SwitchRoom([room EXCEPT !["runqueue"] = QRoom(@, Len(runqueue'))])
    /\ UNCHANGED <<zombies, sleepaddr, fresh, numthreads>>

SchedNext ==
    \/ \E t \in Thread : thread_fork(t)
    \/ \E k \in DOMAIN Preallocated : thread_fork_fails(k)
    \/ thread_yield
    \/ \E a \in Addr : thread_sleep(a)
    \/ \E a \in Addr : thread_wakeup(a)
    \/ thread_exit
    \/ scheduler
    \/ hardclock

\* The scheduler always returns, and the timer keeps interrupting: the
\* interrupt stays asserted until it is taken, and every section that turns
\* interrupts off ends.
SchedSpec ==
    /\ SchedInit /\ [][SchedNext]_vars
    /\ WF_vars(scheduler)
    /\ SF_vars(hardclock)

-----------------------------------------------------------------------------
\* The lists hold every thread once: a switch, a wakeup or exorcise never
\* duplicates a thread and never drops one, and numthreads counts the
\* threads that have not exited.
EveryThreadOnce ==
    LET listed == runqueue \o sleepers \o zombies
    IN  /\ IsInjective(listed)
        /\ curthread \notin ToSet(listed)
        /\ numthreads = Cardinality(Existing) - Len(zombies)


\* Round robin: whatever the other threads do, a thread on the run queue
\* gets the CPU.
RunnableRuns == \A t \in Thread : t \in ToSet(runqueue) ~> curthread = t

\* A thread in clocksleep is made runnable by hardclock within a second,
\* whether or not the machine is idle.
ClocksleepWakes ==
    \A t \in Thread : t \in ToSet(sleepers) /\ sleepaddr[t] = Lbolt
                        ~> t \in ToSet(runqueue)

\* The list operations implement the thread system that the other
\* components are written against.
T == INSTANCE Threads WITH
        runnable <- ToSet(runqueue),
        sleepers <- ToSet(sleepers),
        zombies <- ToSet(zombies)
ImplementsThreads == T!ThreadsSpec

\* scheduler_preallocate is called by thread_fork "only to ensure that
\* make_runnable() does not fail" (scheduler.c): then no switch and no wakeup
\* has to enlarge the run queue.
MakeRunnableNeedsNoMemory == "runqueue" \notin grown
=============================================================================
