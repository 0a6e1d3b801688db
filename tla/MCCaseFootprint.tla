--------------------------- MODULE MCCaseFootprint ---------------------------
(* Two banks, one with a footprint that restricts and one without; a       *)
(* change whose scope moves between two services, and footprints that      *)
(* follow one of them; three outbox rows and one lost batch.                *)
EXTENDS CaseFootprint

CONSTANTS service, custody, advice, b1, b2

MCDimensionOf == [t \in Terms |-> service]
MCDims == [d \in Dimensions |-> [active |-> TRUE, restricts |-> TRUE, optIn |-> FALSE]]
MCStart == [t \in Tenants |-> IF t = b1 THEN {custody} ELSE {}]
MCScopes == {{custody}, {advice}}
=============================================================================
