------------------------------ MODULE MCWatch ------------------------------
(***************************************************************************)
(* Instances of Watch for TLC: a main source that, with content "b", reads *)
(* an included file.                                                       *)
(***************************************************************************)
EXTENDS Watch

MCNeeds(c) == IF c = "b" THEN Includes ELSE {}
=============================================================================
