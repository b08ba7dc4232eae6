------------------------------ MODULE MCSynch ------------------------------
(***************************************************************************)
(* Small instances of Synch: one semaphore that starts at 1, locks and     *)
(* condition variables as the configurations choose.                       *)
(***************************************************************************)
EXTENDS Synch

MCAddr == Sem \cup Lock \cup Thread
MCInitialCount == [s \in Sem |-> 1]
=============================================================================
