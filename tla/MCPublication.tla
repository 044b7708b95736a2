--------------------------- MODULE MCPublication ---------------------------
(***************************************************************************)
(* Two fields for the runs of Publication: "energy", which an NSE concept  *)
(* is mapped to, and "policy", which only the PDF states.                  *)
(***************************************************************************)
EXTENDS Publication, TLC

CONSTANTS r1, r2, w1, w2

MCFields == {"energy", "policy"}
MCEnergy == {"energy"}
MCFamily == [f \in Fields |-> IF f = "energy" THEN "p6" ELSE "p1"]
MCOneFamily == [f \in Fields |-> "p6"]

Symmetry == Permutations(Reviewers) \cup Permutations(Workers)
=============================================================================
