---------------------------- MODULE MCTrailFile ----------------------------
(***************************************************************************)
(* TrailFile with interchangeable processes and subjects.                  *)
(***************************************************************************)
EXTENDS TrailFile, TLC

MCSymmetry == Permutations(Procs) \union Permutations(Subjects)
=============================================================================
