---------------------------- MODULE MCDashboard ----------------------------
(***************************************************************************)
(* Dashboard with one new subject, one transfer and two waiting requests. *)
(***************************************************************************)
EXTENDS Dashboard
=============================================================================
