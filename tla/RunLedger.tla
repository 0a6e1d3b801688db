------------------------------ MODULE RunLedger ------------------------------
(***************************************************************************)
(* What one agent run promises those who read it: while it is open it      *)
(* collects at most Limit filings of a kind, one at a time, and it closes  *)
(* once, with the number it collected.  Nothing is added to it or changed  *)
(* in it after that.                                                       *)
(***************************************************************************)
EXTENDS Naturals

CONSTANTS Limit, Ends   \* Ends: the statuses a run closes into
VARIABLES status, filings, total

ledger == <<status, filings, total>>

Init == status = "none" /\ filings = 0 /\ total = 0

Open ==
  /\ status = "none" /\ status' = "running"
  /\ UNCHANGED <<filings, total>>

File ==
  /\ status = "running" /\ filings < Limit
  /\ filings' = filings + 1
  /\ UNCHANGED <<status, total>>

Close ==
  /\ status = "running" /\ status' \in Ends
  /\ total' = filings
  /\ UNCHANGED filings

Next == Open \/ File \/ Close
Spec == Init /\ [][Next]_ledger
=============================================================================
