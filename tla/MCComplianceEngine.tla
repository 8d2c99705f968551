------------------------- MODULE MCComplianceEngine -------------------------
(***************************************************************************)
(* Two processes, two subjects one of whose names is the beginning of the  *)
(* other's, a record that names nobody, a sweep that starts at the third   *)
(* record instead of the fifty-first.                                      *)
(***************************************************************************)
EXTENDS ComplianceEngine, TLC

MCSubjects == {"Subject_001", "Subject_0010"}
MCFields   == {"Blocked transmission"}
MCSearches == MCSubjects \union MCFields
MCValues   == {"Subject_001"}
MCTexts    == MCSearches \union MCValues \union {":", "sweep", "payload"}
MCOccurs(x, t) == x = t \/ (x = "Subject_001" /\ t = "Subject_0010")

MCDetails ==
    {<<"sweep">>,
     <<"Subject_001", "payload">>,
     <<"Blocked transmission", "Subject_0010">>}

MCSymmetry == Permutations(Procs)
=============================================================================
