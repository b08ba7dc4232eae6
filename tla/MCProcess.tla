----------------------------- MODULE MCProcess -----------------------------
(***************************************************************************)
(* Small instances of Process.                                             *)
(***************************************************************************)
EXTENDS Process, TLC

MCAddr == Thread \cup {TlbLock}
Symmetry == Permutations(Thread \ {Boot})
=============================================================================
