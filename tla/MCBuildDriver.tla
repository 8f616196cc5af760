--------------------------- MODULE MCBuildDriver ---------------------------
(* Documents: "a" cites and has an index, "b" cites with Biber, "p" cites  *)
(* from an .aux graph that cannot be read completely, "u" never settles,   *)
(* "plain" and "one" are inert, "empty" has no pages.                      *)
EXTENDS BuildDriver

MCCites == [d \in Docs |-> IF d \in {"a", "b", "p"} THEN d ELSE NoCites]
=============================================================================
