----------------------------- MODULE MCProposals -----------------------------
(***************************************************************************)
(* Two people and two keys of one agent; a batch over two obligations      *)
(* meets two versions of the first of them: one may set its scope as filed *)
(* or by the reviewer's correction, the other leaves it alone.             *)
(***************************************************************************)
EXTENDS Proposals, TLC

CONSTANTS agent, v2, o1, t1

MCAgentOf == [k \in Keys |-> agent]
MCTargetOf == [p \in Singles |-> o1]

MCVersionScopes == [p \in Singles |-> IF p = v2 THEN {None} ELSE {None, {t1}}]

\* The people are alike, and so are the keys of one agent.
Alike == Permutations(Users) \cup Permutations(Keys)
==============================================================================
