--------------------------- MODULE MCCaseWorkflow ---------------------------
(* Two people who may each do everything, so that every refusal is the     *)
(* workflow's own and never a missing permission; one action, one piece of *)
(* evidence.  Nine versions take a case through a sign-off that is sent    *)
(* back, asked for again and approved.                                     *)
EXTENDS CaseWorkflow, TLC

CONSTANTS ann, bo, a1, e1

MCPeople == {ann, bo}
Symmetry == Permutations(MCPeople)
=============================================================================
