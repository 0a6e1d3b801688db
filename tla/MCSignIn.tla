------------------------------- MODULE MCSignIn -------------------------------
(* How a person comes into a bank, stays signed in and leaves it.  No      *)
(* variable is shared: a behaviour runs the part that `part` names.        *)
(*                                                                         *)
(* Members: three people and one item, so that a removal, a new owner and  *)
(* a last administrator are three different people, each with one of the   *)
(* bank's roles or none at first.  Session: three tabs                     *)
(* and three secrets: a tab's answer is still on its way while the others  *)
(* rotate twice.  Enrolment: two invitations, two codes of two attempts,   *)
(* two passkeys and two requests under way.                                *)
EXTENDS Members, RefreshSession, Enrolment, TLC

CONSTANTS ann, bo, cy, r1, r2

VARIABLE part

MCPeople == {ann, bo, cy}
MCRequests == {r1, r2}
MCItems == {"action"}
\* Tabs and people are never in one behaviour: one symmetry serves both.
MCTabs == MCPeople
Alike == Permutations(MCPeople) \cup Permutations(MCRequests)

\* The bank's many beginnings are tried where its members are what runs.
MCInit ==
  /\ part \in {"members", "session", "enrolment"}
  /\ Init /\ RefreshInit /\ EnrolInit
  /\ \A u \in People : roles[u] # AdminRoles
  /\ part # "members" =>
       /\ active = People /\ roles = [u \in People |-> {"administrator"}]
       /\ owner = [i \in Items |-> ann] /\ open = [i \in Items |-> TRUE]

MCNext ==
  /\ part' = part
  /\ \/ part = "members" /\ Next /\ UNCHANGED <<refreshVars, enrolVars>>
     \/ part = "session" /\ RefreshNext /\ UNCHANGED <<vars, enrolVars>>
     \/ part = "enrolment" /\ EnrolNext /\ UNCHANGED <<vars, refreshVars>>

MCSpec == MCInit /\ [][MCNext]_<<part, vars, refreshVars, enrolVars>>
=============================================================================
