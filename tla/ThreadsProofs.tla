--------------------------- MODULE ThreadsProofs ---------------------------
(***************************************************************************)
(* The thread system never has a thread in two places, for any number of   *)
(* threads and sleep addresses.                                            *)
(***************************************************************************)
EXTENDS Threads, TLAPS

ThreadsInv == ThreadsTypeOK /\ OnePlace /\ SleepersHaveAddress

\* The boot thread is the only one, and it runs.
LEMMA ThreadsInitInv == ThreadsInit => ThreadsInv
  BY ThreadsAssumption
  DEF ThreadsInit, ThreadsInv, ThreadsTypeOK, OnePlace, SleepersHaveAddress

\* Each operation of the thread system moves threads from one list to
\* another.
LEMMA ThreadsStepInv ==
  ThreadsInv /\ [ThreadsNext]_threadVars => ThreadsInv'
<1> SUFFICES ASSUME ThreadsInv, [ThreadsNext]_threadVars PROVE ThreadsInv'
  OBVIOUS
<1> USE ThreadsAssumption
    DEF ThreadsInv, ThreadsTypeOK, OnePlace, SleepersHaveAddress
<1>1. ASSUME NEW t \in Thread, ForkThread(t) PROVE ThreadsInv'
  BY <1>1 DEF ForkThread, Existing
<1>2. ASSUME NEW t \in Thread, Dispatch(t) PROVE ThreadsInv'
  BY <1>2 DEF Dispatch
<1>3. CASE YieldThread
  BY <1>3 DEF YieldThread
<1>4. CASE ExitThread
  BY <1>4 DEF ExitThread
<1>5. ASSUME NEW A \in SUBSET Addr, WakeupThreads(A) PROVE ThreadsInv'
  BY <1>5 DEF WakeupThreads, Woken
<1>6. ASSUME NEW A \in SUBSET Addr, TickThreads(A) PROVE ThreadsInv'
  BY <1>6 DEF TickThreads, Woken
<1>7. ASSUME NEW a \in Addr, SleepThread(a) PROVE ThreadsInv'
  BY <1>7 DEF SleepThread
<1>8. ASSUME NEW A \in SUBSET Addr, NEW a \in Addr, WakeupThenSleep(A, a)
      PROVE  ThreadsInv'
  BY <1>8 DEF WakeupThenSleep, Woken
<1>9. CASE UNCHANGED threadVars
  BY <1>9 DEF threadVars
<1> QED
  BY <1>1, <1>2, <1>3, <1>4, <1>5, <1>6, <1>7, <1>8, <1>9 DEF ThreadsNext

\* Every thread that exists is in exactly one place: current, on the run
\* queue, in sleepers[] or in zombies[] (mi_switch, make_runnable,
\* thread_wakeup, exorcise).
THEOREM ThreadsOnePlace == ThreadsSpec => [](ThreadsTypeOK /\ OnePlace)
<1>1. ThreadsInv => ThreadsTypeOK /\ OnePlace
  BY DEF ThreadsInv
<1> QED
  BY ThreadsInitInv, ThreadsStepInv, <1>1, PTL DEF ThreadsSpec
=============================================================================
