------------------------------ MODULE AgentBeat ------------------------------
(***************************************************************************)
(* The beat that starts bleqq's own agents (run_platform_agents in         *)
(* agents/tasks.py): each agent once in a period of its cadence, at most   *)
(* PerBeat of them in one beat, the longest-waiting first.                 *)
(*                                                                         *)
(* A beat plans once, outside any transaction, then takes its agents one   *)
(* by one, each in a transaction that claims the agent first.  Beats       *)
(* overlap, and a period may end while one runs: a beat goes on with the   *)
(* period it began in.                                                     *)
(*                                                                         *)
(* Time is a count of runs started and periods begun.  All agents have one *)
(* cadence.  Every run opens: retire_version refuses to retire the last    *)
(* published version of an active agent, so the beat never meets           *)
(* no_published_version.                                                   *)
(***************************************************************************)
EXTENDS Naturals, Sequences, FiniteSets, SequencesExt

CONSTANTS PlatformAgents,  \* active and scheduled, as the numbers their keys sort by
          PBeats,
          PerBeat,         \* AGENT_RUNS_PER_BEAT
          MaxPeriods       \* bound

ASSUME BeatAssumption ==
  /\ PlatformAgents \subseteq Nat
  /\ PerBeat \in Nat \ {0} /\ MaxPeriods \in Nat
  /\ "free" \notin PBeats

VARIABLES clock, since, \* now, and when the present period began
          period,
          lastRun,      \* when each agent's latest scheduled run started; 0: never
          beat,         \* each beat: the period it began in and the agents it has left
          claim,        \* the beat holding each agent's advisory lock
          inPeriod      \* history: scheduled runs of each agent started in this period

beatVars == <<clock, since, period, lastRun, beat, claim, inPeriod>>

NoBeat == [on |-> FALSE, since |-> 0, left |-> <<>>]
Unclaimed == "free"

BeatInit ==
  /\ clock = 1 /\ since = 1 /\ period = 1
  /\ lastRun = [a \in PlatformAgents |-> 0]
  /\ beat = [b \in PBeats |-> NoBeat]
  /\ claim = [a \in PlatformAgents |-> Unclaimed]
  /\ inPeriod = [a \in PlatformAgents |-> 0]

Due(a) == lastRun[a] < since

\* order_by("last_run", "key"): the oldest run first, and no run at all after every run
Before(a, c) ==
  \/ lastRun[a] # 0 /\ (lastRun[c] = 0 \/ lastRun[a] < lastRun[c])
  \/ lastRun[a] = lastRun[c] /\ a < c
InOrder(agents) == SetToSortSeq(agents, Before)
FirstOf(seq, n) == SubSeq(seq, 1, IF Len(seq) < n THEN Len(seq) ELSE n)

\* _due_platform_agents, cut to the most one beat starts
StartBeat(b) ==
  LET due == {a \in PlatformAgents : Due(a)}
  IN  /\ beat[b] = NoBeat /\ due # {}
      /\ beat' = [beat EXCEPT ![b] =
           [on |-> TRUE, since |-> since, left |-> FirstOf(InOrder(due), PerBeat)]]
      /\ UNCHANGED <<clock, since, period, lastRun, claim, inPeriod>>

Upcoming(b) == Head(beat[b].left)
Drop(b) ==
  beat' = [beat EXCEPT ![b] =
    IF Len(beat[b].left) = 1 THEN NoBeat
    ELSE [on |-> TRUE, since |-> beat[b].since, left |-> Tail(beat[b].left)]]

\* mutant: the beat trusts its plan
NotClaimedYet(b, a) == claim[a] = Unclaimed
\* pg_try_advisory_xact_lock, then the runs of the period are read again
StillDue(b, a) == claim[a] = Unclaimed /\ lastRun[a] < beat[b].since

ClaimNext(b) ==
  /\ beat[b].on /\ claim[Upcoming(b)] # b
  /\ IF StillDue(b, Upcoming(b))
     THEN claim' = [claim EXCEPT ![Upcoming(b)] = b] /\ UNCHANGED beat
     ELSE Drop(b) /\ UNCHANGED claim
  /\ UNCHANGED <<clock, since, period, lastRun, inPeriod>>

\* open_platform_run and the commit
OpenPlatformRun(b) ==
  LET a == Upcoming(b)
  IN  /\ beat[b].on /\ claim[a] = b
      /\ clock' = clock + 1
      /\ lastRun' = [lastRun EXCEPT ![a] = clock]
      /\ inPeriod' = [inPeriod EXCEPT ![a] = @ + 1]
      /\ claim' = [claim EXCEPT ![a] = Unclaimed]
      /\ Drop(b)
      /\ UNCHANGED <<since, period>>

NewPeriod ==
  /\ period < MaxPeriods
  /\ period' = period + 1 /\ clock' = clock + 1 /\ since' = clock + 1
  /\ inPeriod' = [a \in PlatformAgents |-> 0]
  /\ UNCHANGED <<lastRun, beat, claim>>

BeatNext ==
  \/ \E b \in PBeats : StartBeat(b) \/ ClaimNext(b) \/ OpenPlatformRun(b)
  \/ NewPeriod

BeatSpec == BeatInit /\ [][BeatNext]_beatVars
-----------------------------------------------------------------------------
BeatTypeOK ==
  /\ clock \in Nat /\ since \in 1..clock /\ period \in 1..MaxPeriods
  /\ lastRun \in [PlatformAgents -> 0..clock]
  /\ \A b \in PBeats : beat[b].left \in Seq(PlatformAgents) /\ beat[b].on = (beat[b].left # <<>>)
  /\ claim \in [PlatformAgents -> PBeats \cup {Unclaimed}]

\* "two beats that overlap start one run between them" (_claim), also when the period ends
\* while the slower one still works through its plan.
OneRunPerPeriod == \A a \in PlatformAgents : inPeriod[a] <= 1
=============================================================================
