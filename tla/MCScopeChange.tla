----------------------------- MODULE MCScopeChange -----------------------------
(* Three requests of three people over three terms, one company line and   *)
(* one scope item, asked for twice and taken out twice, while a term       *)
(* retires and one of the four kinds of record appears.                    *)
EXTENDS ScopeChange, TLC

CONSTANTS ann, bo, cy, t1, t2, t3, d1, d2, l1

MCPeople == {ann, bo, cy}
Alike == Permutations(MCPeople)

MCDimensionOf == (t1 :> d1) @@ (t2 :> d1) @@ (t3 :> d2)
MCDims ==
  (d1 :> [active |-> TRUE, restricts |-> TRUE, optIn |-> FALSE])
  @@ (d2 :> [active |-> TRUE, restricts |-> TRUE, optIn |-> TRUE])
MCRecords == {{t1}, {t2}, {t1, t3}, {t3}}
MCMoving == {{t2}}
MCStartRecords == MCRecords \ MCMoving

Change(adds, removes, itemTerms, itemRemoves, excludes, includes) ==
  [adds |-> adds, removes |-> removes, itemTerms |-> itemTerms,
   itemRemoves |-> itemRemoves, excludes |-> excludes, includes |-> includes]
MCChanges ==
  {Change({t2, t3}, {}, {t3}, {}, {l1}, {}),
   Change({t2}, {t1}, {}, {1}, {}, {}),
   Change({}, {t2}, {}, {1}, {}, {l1})}
=============================================================================
