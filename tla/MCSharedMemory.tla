--------------------------- MODULE MCSharedMemory ---------------------------
(***************************************************************************)
(* SharedMemory with interchangeable processes.                            *)
(***************************************************************************)
EXTENDS SharedMemory, TLC

MCSymmetry == Permutations(Procs)
=============================================================================
