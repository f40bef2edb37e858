----------------------------- MODULE MCE2Agent -----------------------------
(***************************************************************************)
(* An instance of E2Agent: a subscription whose event trigger has two      *)
(* conditions, and one whose report goes to two lists, repeats a parameter *)
(* or names only parameters that are not implemented.                      *)
(***************************************************************************)
EXTENDS E2Agent

MCReports ==
    [id \in Aperiodic |-> IF id = 1021 THEN {<<"rs1_param3">>}
                          ELSE {<<"rs1_param3", "rs1_param4">>,
                                <<"rs1_param4", "rs1_param4">>, <<>>}]
MCConditions == [id \in Aperiodic |-> IF id = 1021 THEN 2 ELSE 1]
=============================================================================
