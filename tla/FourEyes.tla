------------------------------ MODULE FourEyes ------------------------------
(***************************************************************************)
(* What every four-eyes control of the product promises (docs/CONVENTIONS  *)
(* and apps/shared/tests_four_eyes.py): one person asks for a decision on  *)
(* some material, the material stands still while the question is open,    *)
(* the asker or somebody else may take it back, and only another person    *)
(* decides.  A decision is final, and so is what it was made on.           *)
(***************************************************************************)
CONSTANTS People, Materials, None

VARIABLES asker,     \* who asked, while a request stands or was decided
          decider,   \* who decided, or None
          material   \* what the decision is about

eyes == <<asker, decider, material>>

Undecided == decider = None

Init == asker = None /\ Undecided /\ material \in Materials

\* Work goes on only while nobody waits for a decision.
Work(m) == asker = None /\ material' = m /\ UNCHANGED <<asker, decider>>

Ask(p) == asker = None /\ asker' = p /\ UNCHANGED <<decider, material>>

TakeBack ==
  /\ asker # None /\ Undecided
  /\ asker' = None
  /\ UNCHANGED <<decider, material>>

Decide(p) ==
  /\ asker # None /\ Undecided
  /\ p # asker
  /\ decider' = p
  /\ UNCHANGED <<asker, material>>

Next ==
  \/ \E m \in Materials : Work(m)
  \/ \E p \in People : Ask(p) \/ Decide(p)
  \/ TakeBack

Spec == Init /\ [][Next]_eyes
=============================================================================
