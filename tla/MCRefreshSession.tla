--------------------------- MODULE MCRefreshSession ---------------------------
(* Three tabs and three secrets: a tab's answer is still on its way while  *)
(* the others rotate twice.                                                *)
EXTENDS RefreshSession

MCTabs == {"left", "middle", "right"}
=============================================================================
