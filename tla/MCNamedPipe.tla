---------------------------- MODULE MCNamedPipe ----------------------------
(***************************************************************************)
(* NamedPipe with a process that sends, one that receives and one that     *)
(* does both.                                                              *)
(***************************************************************************)
EXTENDS NamedPipe
=============================================================================
