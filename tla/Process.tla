------------------------------ MODULE Process ------------------------------
(***************************************************************************)
(* Processes: the process table and child lists that thread_fork, sys_wait *)
(* and sys_exit keep, sys_execv with the lock it shares with thread_exit,  *)
(* and the menu that starts programs, on top of the thread system.         *)
(*                                                                         *)
(* sys_fork, sys_wait and sys_exit run with interrupts off.  thread_fork   *)
(* called from the menu does not: between the probe of the process table   *)
(* and the store into the slot found, other processes may run.             *)
(***************************************************************************)
EXTENDS Threads, Sequences

CONSTANTS
    TableSize,  \* PTB_SIZE
    BootSlot,   \* where the key "<boot/menu>" hashes to
    ExitCode,   \* exit codes of programs
    TlbLock,    \* the lock tlb_lock
    MaxCommands, \* bound: programs started from the menu
    Overlap     \* whether a menu command is given while processes of an
                \* earlier one are still running

ASSUME ProcessAssumption ==
    /\ Overlap \in BOOLEAN
    /\ Addr = Thread \cup {TlbLock}
    /\ TlbLock \notin Thread
    /\ TableSize \in Nat
    /\ MaxCommands \in Nat
    /\ BootSlot \in 1..(TableSize - 1)

VARIABLES
    table,      \* process_table: a thread, "free" (NULL or deleted), "reserved"
    tid,        \* of each thread
    parent,     \* of each thread: the tid of its parent, -1, or -2 for Boot
    children,   \* child_list of each thread
    pc,         \* where each thread is
    arg,        \* Boot: the slot found, or the thread forked; a process in
                \* sys_wait: the index of the child
    image,      \* t_vmspace of each thread: "none", "live" or "destroyed"
    tlb,        \* the holder of tlb_lock, NULL if it is free
    code        \* the code with which each program is going to exit

procVars == <<table, tid, parent, children, pc, arg, image, tlb, code>>
vars == <<threadVars, procVars>>

Slot == 0..(TableSize - 1)
Status == {"FREE", "JOINED", "DEAD"}
ChildInfo == [tid : Slot, status : Status, ret : ExitCode \cup {NULL}, code : ExitCode]

\* "menu" Boot at the prompt; "probed" and "forked" Boot in common_prog,
\* inside and after thread_fork; "asleep" Boot in the thread_sleep that
\* follows.  "prog" in runprogram; "user" in the program; "wait" in the
\* thread_sleep of sys_wait; "execlock" and "exec" in sys_execv, before and
\* after it has the lock; "exit" in thread_exit or dead.
Pc == {"menu", "probed", "forked", "asleep", "prog", "user", "wait",
       "execlock", "exec", "exit"}

ProcessTypeOK ==
    /\ ThreadsTypeOK
    /\ table \in [Slot -> Thread \cup {"free", "reserved"}]
    /\ tid \in [Thread -> Slot]
    /\ parent \in [Thread -> Slot \cup {-1, -2}]
    /\ DOMAIN children = Thread
    /\ \A t \in Thread : \A i \in DOMAIN children[t] : children[t][i] \in ChildInfo
    /\ pc \in [Thread -> Pc]
    /\ DOMAIN arg = Thread
    /\ image \in [Thread -> {"none", "live", "destroyed"}]
    /\ tlb \in Thread \cup {NULL}
    /\ code \in [Thread -> ExitCode]

-----------------------------------------------------------------------------
\* Processes that have not got to sys_exit or thread_exit.
Live == {t \in Existing : pc[t] # "exit"}

Running(where) == curthread # NULL /\ pc[curthread] = where

\* Interrupts are on except in sys_wait, lock_acquire and thread_exit.
InterruptsOn ==
    IF curthread = NULL THEN runnable = {}
    ELSE pc[curthread] \notin {"asleep", "wait", "execlock", "exit"}

Goto(t, where) == pc' = [pc EXCEPT ![t] = where]

\* The offsets from h at which the probing loop of ht_add_element stops.
Stops(h) == {k \in Slot : table[(h + k) % TableSize] = "free"}

\* Mutant: the loop ends with the last slot, taken or not.
ht_add_element_last(h) ==
    LET k == IF Stops(h) = {} THEN TableSize - 1
             ELSE CHOOSE k \in Stops(h) : \A j \in Stops(h) : k <= j
    IN (h + k) % TableSize

\* The slot ht_add_element finds by linear probing from hash value h, or
\* -1.  The keys are addresses of thread structures: any h is possible.
ht_add_element(h) ==
    IF Stops(h) = {} THEN -1
    ELSE (h + CHOOSE k \in Stops(h) : \A j \in Stops(h) : k <= j) % TableSize

\* Mutant: the failure of ht_add_element goes unnoticed.
AddedAlways(i) == TRUE

\* The test of ht_add_element's result in thread_fork.
Added(i) == i # -1

Init ==
    /\ ThreadsInit
    /\ table = [i \in Slot |-> IF i = 0 THEN "reserved"
                               ELSE IF i = BootSlot THEN Boot ELSE "free"]
    /\ tid = [t \in Thread |-> BootSlot]
    /\ parent = [t \in Thread |-> -2]
    /\ children = [t \in Thread |-> <<>>]
    /\ pc = [t \in Thread |-> IF t = Boot THEN "menu" ELSE "exit"]
    /\ arg = [t \in Thread |-> NULL]
    /\ image = [t \in Thread |-> "none"]
    /\ tlb = NULL
    /\ code \in [Thread -> {CHOOSE c \in ExitCode : TRUE}]

-----------------------------------------------------------------------------
\* The rest of thread_fork once ht_add_element has found slot i: the new
\* thread t of the current one starts at `where' and will exit with code c.
ForkInto(i, t, where, c) ==
    /\ ForkThread(t)
    /\ table' = [table EXCEPT ![i] = t]
    /\ tid' = [tid EXCEPT ![t] = i]
    /\ parent' = [parent EXCEPT ![t] = tid[curthread]]
    /\ children' = [children EXCEPT
         ![curthread] = Append(@, [tid |-> i, status |-> "FREE", ret |-> NULL, code |-> c]),
         ![t] = <<>>]
    /\ image' = [image EXCEPT ![t] = IF where = "prog" THEN "none" ELSE "live"]
    /\ code' = [code EXCEPT ![t] = c]

\* common_prog: the probe in thread_fork.  A full table is an error that
\* the menu prints.
MenuProbe ==
    /\ Running("menu")
    /\ Len(children[Boot]) < MaxCommands
    /\ Overlap \/ Live = {Boot}
    /\ \E h \in Slot :
         /\ Added(ht_add_element(h))
         /\ arg' = [arg EXCEPT ![Boot] = ht_add_element(h)]
    /\ Goto(Boot, "probed")
    /\ UNCHANGED <<threadVars, table, tid, parent, children, image, tlb, code>>

MenuFork(t) ==
    /\ Running("probed")
    /\ \E c \in ExitCode : ForkInto(arg[Boot], t, "prog", c)
    /\ pc' = [pc EXCEPT ![Boot] = "forked", ![t] = "prog"]
    /\ arg' = [arg EXCEPT ![Boot] = t]
    /\ UNCHANGED tlb

MenuSleep ==
    /\ Running("forked")
    /\ SleepThread(arg[Boot])
    /\ Goto(Boot, "asleep")
    /\ UNCHANGED <<table, tid, parent, children, arg, image, tlb, code>>

MenuReturn ==
    /\ Running("asleep")
    /\ Goto(Boot, "menu")
    /\ arg' = [arg EXCEPT ![Boot] = NULL]
    /\ UNCHANGED <<threadVars, table, tid, parent, children, image, tlb, code>>

\* runprogram, as far as user mode.
runprogram ==
    /\ Running("prog")
    /\ Goto(curthread, "user")
    /\ image' = [image EXCEPT ![curthread] = "live"]
    /\ UNCHANGED <<threadVars, table, tid, parent, children, arg, tlb, code>>

\* runprogram fails before or after it has made an address space:
\* cmd_progthread returns, and mi_threadstart calls thread_exit.
runprogram_fails ==
    /\ Running("prog")
    /\ Goto(curthread, "exit")
    /\ \E i \in {"none", "live"} : image' = [image EXCEPT ![curthread] = i]
    /\ UNCHANGED <<threadVars, table, tid, parent, children, arg, tlb, code>>

\* sys_fork.  With a full table it returns an error and changes nothing.
sys_fork(t) ==
    /\ Running("user")
    /\ \E h \in Slot, c \in ExitCode :
         /\ Added(ht_add_element(h))
         /\ ForkInto(ht_add_element(h), t, "user", c)
    /\ Goto(t, "user")
    /\ UNCHANGED <<arg, tlb>>

\* The list s without its element at index i.
RemoveAt(s, i) == SubSeq(s, 1, i - 1) \o SubSeq(s, i + 1, Len(s))

\* Mutant: the slot of the child stays reserved.
UnreservedKept(t, i) == table

\* process_table once t has collected its i-th child.
Unreserved(t, i) == [table EXCEPT ![children[t][i].tid] = "free"]

\* The end of sys_wait.
Collect(t, i) ==
    /\ table' = Unreserved(t, i)
    /\ children' = [children EXCEPT ![t] = RemoveAt(@, i)]

\* The test in sys_wait.
WaitSleeps(i) == children[curthread][i].status # "DEAD"

\* What ht_retrieve_element_by_index returns: the `entry' of a slot that is
\* reserved was never written, and may be any address.
Retrieved(i) == IF table[i] = "reserved" THEN Addr
                ELSE IF table[i] = "free" THEN {NULL} ELSE {table[i]}

\* Mutant: the parent sleeps on its own thread structure.
WaitOnSelf(i) == {curthread}

\* Where sys_wait sleeps for the i-th child.
WaitAddress(i) == Retrieved(children[curthread][i].tid)

sys_wait(i) ==
    /\ Running("user")
    /\ i \in DOMAIN children[curthread]
    /\ IF WaitSleeps(i)
       THEN /\ children' = [children EXCEPT ![curthread][i].status = "JOINED"]
            /\ \E a \in WaitAddress(i) : SleepThread(a)
            /\ Goto(curthread, "wait")
            /\ arg' = [arg EXCEPT ![curthread] = i]
            /\ UNCHANGED table
       ELSE /\ Collect(curthread, i)
            /\ UNCHANGED <<threadVars, pc, arg>>
    /\ UNCHANGED <<tid, parent, image, tlb, code>>

sys_wait_woken ==
    /\ Running("wait")
    /\ Collect(curthread, arg[curthread])
    /\ Goto(curthread, "user")
    /\ arg' = [arg EXCEPT ![curthread] = NULL]
    /\ UNCHANGED <<threadVars, tid, parent, image, tlb, code>>

-----------------------------------------------------------------------------
\* Mutant: the parent field of the children is left alone.
OrphansNone == {}

\* The threads sys_exit finds for the children of the current thread that
\* are not DEAD; it sets their parent fields to -1.
Orphans ==
    {t \in Thread : \E i \in DOMAIN children[curthread] :
        LET ci == children[curthread][i]
        IN ci.status # "DEAD" /\ table[ci.tid] = t}

\* The entry of parent p in which sys_exit reports: the first with its tid.
Reported(p, me) ==
    {i \in DOMAIN children[p] :
        /\ children[p][i].tid = tid[me]
        /\ \A j \in 1..(i - 1) : children[p][j].tid # tid[me]}

\* Mutant: the return value is not stored.
ReportedCodeLost(me) == NULL

ReportedCode(me) == code[me]

SlotAfterExit(me) == IF parent[me] # -1 THEN "reserved" ELSE "free"

\* Mutant: nobody is woken.
ExitWakesNone == {}

ExitWakes == {curthread}

\* sys_exit, called by the program or by kill_curthread.
sys_exit ==
    /\ Running("user")
    /\ LET me == curthread
           dead == {children[me][i].tid : i \in {j \in DOMAIN children[me] :
                                                   children[me][j].status = "DEAD"}}
           p == IF parent[me] # -1 THEN table[parent[me]] ELSE NULL
       IN /\ parent' = [t \in Thread |-> IF t \in Orphans THEN -1 ELSE parent[t]]
          /\ children' = [t \in Thread |-> [i \in DOMAIN children[t] |->
                IF t = p /\ i \in Reported(p, me)
                THEN [children[t][i] EXCEPT !.status = "DEAD", !.ret = ReportedCode(me)]
                ELSE children[t][i]]]
          /\ table' = [j \in Slot |-> IF j = tid[me] THEN SlotAfterExit(me)
                                      ELSE IF j \in dead THEN "free" ELSE table[j]]
    /\ WakeupThreads(ExitWakes)
    /\ Goto(curthread, "exit")
    /\ UNCHANGED <<tid, arg, image, tlb, code>>


\* The test of the loop in lock_acquire(tlb_lock).
TlbBusy == tlb # NULL

\* The rest of thread_exit: it takes tlb_lock to destroy the address space.
thread_exit ==
    /\ Running("exit")
    /\ IF image[curthread] # "none" /\ TlbBusy
       THEN SleepThread(TlbLock) /\ UNCHANGED image
       ELSE ExitThread /\ image' = [image EXCEPT ![curthread] = "none"]
    /\ UNCHANGED <<table, tid, parent, children, pc, arg, tlb, code>>

\* sys_execv as far as its lock_acquire.
sys_execv ==
    /\ Running("user") \/ Running("execlock")
    /\ IF TlbBusy
       THEN SleepThread(TlbLock) /\ Goto(curthread, "execlock") /\ UNCHANGED tlb
       ELSE tlb' = curthread /\ Goto(curthread, "exec") /\ UNCHANGED threadVars
    /\ UNCHANGED <<table, tid, parent, children, arg, image, code>>


ExecWakes == {TlbLock}


HolderAfterExec == NULL

ExecReturns ==
    /\ Running("exec")
    /\ tlb' = HolderAfterExec
    /\ WakeupThreads(ExecWakes)
    /\ Goto(curthread, "user")
    /\ UNCHANGED <<table, tid, parent, children, arg, code>>

\* The new program runs, or an error gives the old address space back.
sys_execv_returns == ExecReturns /\ UNCHANGED image

\* vfs_open fails: old_addr is set and t_vmspace still is old_addr, so the
\* error path destroys the address space it then activates.
sys_execv_noopen ==
    /\ ExecReturns
    /\ image' = [image EXCEPT ![curthread] = "destroyed"]

Preempt ==
    /\ InterruptsOn
    /\ TickThreads({})
    /\ UNCHANGED procVars

Schedule(t) ==
    /\ Dispatch(t)
    /\ UNCHANGED procVars

KernelStep ==
    \/ MenuSleep \/ MenuReturn \/ sys_wait_woken \/ thread_exit
    \/ (Running("execlock") /\ sys_execv)
    \/ sys_execv_returns \/ runprogram \/ runprogram_fails
    \/ \E t \in Thread : MenuFork(t)

Next ==
    \/ KernelStep
    \/ MenuProbe \/ sys_exit \/ sys_execv
    \/ \E t \in Thread : sys_fork(t) \/ Schedule(t)
    \/ \E i \in 1..Cardinality(Thread) : sys_wait(i)
    \/ Preempt

Spec == Init /\ [][Next]_vars

\* The same with files that execv cannot open.
SpecNoOpen == Init /\ [][Next \/ sys_execv_noopen]_vars

\* The scheduler and the timer as in Synch; a thread that gets the CPU over
\* and over gets on with the kernel code it is in.
FairSpec ==
    /\ Spec
    /\ \A t \in Thread : SF_vars(Schedule(t)) /\ SF_vars(curthread = t /\ KernelStep)
    /\ SF_vars(Preempt)

\* Every program ends, too.
EndingSpec == FairSpec /\ \A t \in Thread : SF_vars(curthread = t /\ sys_exit)

-----------------------------------------------------------------------------
\* "The new one ... has a new, unique process id" (fork.html), and the id is
\* not handed out again while its process lives: ht_add_element gives every
\* slot to one thread, though the menu probes with interrupts on.
UniqueTids == \A t \in Live : table[tid[t]] = t

\* "The process id of the exiting process should not be reused until all
\* processes interested in collecting the exit code ... have done so"
\* (_exit.html): the slot of a dead child stays reserved until its parent
\* has waited for it or exited, and no slot stays reserved after that.
ReservedUntilCollected ==
    \A i \in Slot \ {0} :
        table[i] = "reserved" <=>
            \E p \in Live : \E j \in DOMAIN children[p] :
                children[p][j].tid = i /\ children[p][j].status = "DEAD"

\* Parent and child agree: a process whose parent field is a tid has a living
\* parent there, with one entry for it, not DEAD; and every entry of a
\* process that is not DEAD is a living process with that parent.  sys_exit
\* follows both links without testing them.
FamilyLinks ==
    /\ \A t \in Live \ {Boot} : parent[t] # -1 =>
         \E p \in Live :
            /\ table[parent[t]] = p
            /\ \E i \in DOMAIN children[p] :
                 /\ children[p][i].tid = tid[t]
                 /\ children[p][i].status # "DEAD"
                 /\ \A j \in DOMAIN children[p] \ {i} : children[p][j].tid # tid[t]
    /\ \A p \in Live \ {Boot} : \A i \in DOMAIN children[p] :
         children[p][i].status # "DEAD" =>
            /\ table[children[p][i].tid] \in Live
            /\ parent[table[children[p][i].tid]] = tid[p]

\* waitpid gives "its exit code": the code in the entry of a dead child is
\* the one that child exited with, whichever of the children came first.
ExitCodeReported ==
    \A p \in Live : \A i \in DOMAIN children[p] :
        children[p][i].status = "DEAD" => children[p][i].ret = children[p][i].code

\* A process asleep in sys_wait sleeps on the child it asked for, which has
\* not exited yet and is going to call thread_wakeup on that address; once
\* awake, it finds that child dead, although sys_wait does not test again.
WaitsForChild ==
    \A t \in Live : pc[t] = "wait" =>
        LET ci == children[t][arg[t]]
        IN IF t \in sleepers
           THEN /\ sleepaddr[t] \in Live
                /\ tid[sleepaddr[t]] = ci.tid
                /\ parent[sleepaddr[t]] = tid[t]
           ELSE ci.status = "DEAD"


\* A program runs in an address space: "On failure, execv returns -1"
\* (execv.html), to the program that called it.
ProgramHasImage == \A t \in Live : pc[t] = "user" => image[t] = "live"

\* A parent asleep in sys_wait returns once its child is dead.
WaitEnds ==
    \A t \in Thread :
        (t \in Live /\ pc[t] = "wait" /\ children[t][arg[t]].status = "DEAD")
            ~> pc[t] # "wait"



\* "p program" at the menu comes back to the menu when programs end.
MenuComesBack == pc[Boot] = "forked" ~> pc[Boot] = "menu"
=============================================================================
