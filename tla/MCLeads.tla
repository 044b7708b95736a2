------------------------------ MODULE MCLeads ------------------------------
(***************************************************************************)
(* Two users of one organisation for the run of Leads.  One gap report is  *)
(* worth half the threshold; a deep-dive request routes at once.           *)
(***************************************************************************)
EXTENDS Leads, TLC

CONSTANTS u1, u2, o1, s1, s2

MCNames == {"gap", "deepdive"}
MCOrg == [u \in Users |-> o1]
MCWeight == [n \in Names |-> IF n = "gap" THEN 1 ELSE 2]
MCMaxOccurrences == [n \in Names |-> IF n = "gap" THEN 2 ELSE 1]

Symmetry == Permutations(Users) \cup Permutations(Sessions)
=============================================================================
