-------------------------------- MODULE MCVM --------------------------------
(***************************************************************************)
(* Small instances of VM.  Processes are interchangeable.                  *)
(***************************************************************************)
EXTENDS VM, TLC

Symmetry == Permutations(Proc)
=============================================================================
