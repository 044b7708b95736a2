--------------------------- MODULE MCAcquisition ---------------------------
(***************************************************************************)
(* A cohort of two companies for the runs of Acquisition.  The portal has  *)
(* nothing, only rows that do not count, or an instance and its revision.  *)
(***************************************************************************)
EXTENDS Acquisition, TLC

CONSTANTS c1, c2, s1, s2

MCIndices == << <<c1>>, <<c1, c2>> >>

Listed(fy, file, submitted, revised, content) ==
    [fy |-> fy, file |-> file, submitted |-> submitted, revised |-> revised,
     name |-> "report", content |-> content]

Nothing ==
    {Listed(2024, TRUE, 3, 0, "v2"), Listed(2025, FALSE, 2, 0, "v2"),
     Listed(2025, TRUE, 0, 2, "v2")}
First == {Listed(2025, TRUE, 1, 0, "v1"), Listed(2024, TRUE, 3, 0, "v2")}
Revised == {Listed(2025, TRUE, 1, 0, "v1"), Listed(2025, TRUE, 1, 2, "v2")}

MCListings ==
    [c \in Companies |-> IF c = c1 THEN {Nothing, First, Revised} ELSE {Nothing, First}]

MCCorpora ==
    {[c \in Companies |-> NoContent],
     [c \in Companies |-> IF c = c1 THEN "v1" ELSE NoContent]}

Symmetry == Permutations(Sessions)
=============================================================================
