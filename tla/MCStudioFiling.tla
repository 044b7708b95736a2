--------------------------- MODULE MCStudioFiling ---------------------------
(***************************************************************************)
(* A form of two number fields, the second the total of the first, for the *)
(* runs of StudioFiling.  "p_total" proposes a value for the total,        *)
(* "p_part" one that validate_value refuses.                               *)
(***************************************************************************)
EXTENDS StudioFiling, TLC

CONSTANTS u1, u2, e1, e2

MCFields == {"part", "total"}
MCOneField == {"total"}
MCNumbers == {0, 1}
MCAccepts == [f \in Fields |-> {0, 1}]
MCAcceptsNaN == [f \in Fields |-> {0, 1, NaN}]
MCCondition == <<>>
MCRelations ==
    {[target |-> "total", operands |-> {"part"}, tolerance |-> 0]}
MCNoRelations == {}

MCProposals == {"p_total", "p_part"}
MCPField == [p \in Proposals |-> IF p = "p_total" THEN "total" ELSE "part"]
MCPValue == [p \in Proposals |-> IF p = "p_total" THEN 1 ELSE NaN]

(* Users are interchangeable, and so are the requests of each kind. *)
Symmetry ==
    Permutations(Users) \cup Permutations(Editors) \cup Permutations(Exporters)
=============================================================================
