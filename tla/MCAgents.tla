------------------------------- MODULE MCAgents -------------------------------
(* What agents do in the bank's name and at the bank's cost.  No variable  *)
(* is shared: a behaviour runs one part, the one `part` names.             *)
(*                                                                         *)
(* So what?: two people and three drafts, which overtake each other        *)
(* between an event and its delivery.  Runs: two callers, two runs, three  *)
(* reforms and room for two in a run.  Spend: two overlapping beats, one   *)
(* person, two agents, caps below and at two runs' limits.  Beat: two      *)
(* beats that start two of three due agents each, over three periods.      *)
EXTENDS SoWhat, AgentRuns, AgentSpend, AgentBeat, TLC

VARIABLE part

MCPeople == {"ann", "bo"}
Alike == Permutations(Beats) \cup Permutations(BankAgents)

MCInit ==
  part \in {"so_what", "runs", "spend", "beat"} /\ Init /\ RunsInit /\ SpendInit /\ BeatInit

MCNext ==
  /\ part' = part
  /\ \/ part = "so_what" /\ Next /\ UNCHANGED <<runsVars, spendVars, beatVars>>
     \/ part = "runs" /\ RunsNext /\ UNCHANGED <<vars, spendVars, beatVars>>
     \/ part = "spend" /\ SpendNext /\ UNCHANGED <<vars, runsVars, beatVars>>
     \/ part = "beat" /\ BeatNext /\ UNCHANGED <<vars, runsVars, spendVars>>

MCSpec == MCInit /\ [][MCNext]_<<part, vars, runsVars, spendVars, beatVars>>
=============================================================================
