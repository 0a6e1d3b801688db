------------------------------ MODULE MCMembers ------------------------------
(* Three people and one item: enough for a removal, a new owner and a last *)
(* administrator to be three different people.                             *)
EXTENDS Members, TLC

CONSTANTS ann, bo, cy, r1, r2

MCPeople == {ann, bo, cy}
MCItems == {"action"}
MCRequests == {r1, r2}
Symmetry == Permutations(MCPeople) \cup Permutations(MCRequests)
=============================================================================
