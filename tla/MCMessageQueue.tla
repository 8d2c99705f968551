--------------------------- MODULE MCMessageQueue ---------------------------
(***************************************************************************)
(* MessageQueue with three processes.                                      *)
(***************************************************************************)
EXTENDS MessageQueue
=============================================================================
