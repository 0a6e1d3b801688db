-------------------------- MODULE MCRegisterReminders --------------------------
(* The bank's answers about its obligations, and the reminders of what     *)
(* falls due.  No variable is shared: a behaviour runs the part that       *)
(* `part` names.                                                           *)
(*                                                                         *)
(* Register: two officers answer about one company under the obligation    *)
(* that has a recurring duty, or for the whole bank about both of them.    *)
(* Reminders: two workers and two days; an action reminded of on the day   *)
(* before and on the day itself and escalated a day later, edited once; two *)
(* messages come twice, workers die or mails are refused.                  *)
EXTENDS Register, Reminders, TLC

CONSTANTS one, two

VARIABLE part

\* The officers and the workers are never in one behaviour, so the same values stand for both.
MCPair == {one, two}
Alike == Permutations(MCPair)

MCAsked == {{<<1, "e1">>}, {<<1, Whole>>, <<2, Whole>>}}

MCInit ==
  /\ part \in {"register", "reminders"}
  /\ RegInit /\ RemindersInit
  /\ part # "reminders" => action = [due |-> 1, open |-> TRUE]

MCNext ==
  /\ part' = part
  /\ \/ part = "register" /\ RegNext /\ UNCHANGED reminderVars
     \/ part = "reminders" /\ RemindersNext /\ UNCHANGED regVars

MCSpec == MCInit /\ [][MCNext]_<<part, regVars, reminderVars>>
=============================================================================
