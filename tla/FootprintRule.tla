---------------------------- MODULE FootprintRule ----------------------------
(***************************************************************************)
(* The one scope rule (apps/taxonomy/matching.py): does a bank whose       *)
(* footprint names these terms see a record that carries those?  It exists *)
(* twice, in Python for one record at a time and in SQL for every list     *)
(* (taxonomy migration 0008), and both halves are modelled.                *)
(*                                                                         *)
(* A dimension row is [active, restricts, optIn]; dims maps each dimension *)
(* to its row.  A record's and a footprint's terms are sets of terms.      *)
(***************************************************************************)
CONSTANTS Dimensions, Terms, DimensionOf

ASSUME TermsAssumption == DimensionOf \in [Terms -> Dimensions]

DimensionRows == [active : BOOLEAN, restricts : BOOLEAN, optIn : BOOLEAN]

TermsIn(S, d) == {t \in S : DimensionOf[t] = d}

(* The Python half.                                                        *)

\* matching.restricting_dimensions and its Restricting.opt_in
Restricting(dims) == {d \in Dimensions : dims[d].active /\ (dims[d].restricts \/ dims[d].optIn)}
OptIn(dims) == {d \in Restricting(dims) : dims[d].optIn}

\* mutant: an opt-in dimension the footprint does not name restricts nothing
InFootprintByDefault(record, footprint, dims) ==
  \A d \in Restricting(dims) :
    (TermsIn(record, d) # {} /\ TermsIn(footprint, d) # {})
      => TermsIn(record, d) \cap footprint # {}
\* matching.in_footprint: each dimension the record carries terms in
InFootprint(record, footprint, dims) ==
  \A d \in Restricting(dims) :
    TermsIn(record, d) # {} =>
      IF TermsIn(footprint, d) = {} THEN d \notin OptIn(dims)
      ELSE TermsIn(record, d) \cap footprint # {}

(* The SQL half: taxonomy_footprint_guard, read once per query, and        *)
(* taxonomy_scope_admits, run per row without reading a table.             *)

GuardTerms(footprint, dims) ==
  {t \in Terms : LET d == DimensionOf[t]
                 IN  /\ dims[d].active
                     /\ dims[d].restricts \/ dims[d].optIn
                     /\ dims[d].optIn \/ TermsIn(footprint, d) # {}}

ScopeAdmits(record, guardTerms, allowed) ==
  LET guarded == record \cap guardTerms
      wanting == {DimensionOf[t] : t \in guarded}
      met     == {DimensionOf[t] : t \in guarded \cap allowed}
  IN  wanting \subseteq met

SqlInFootprint(record, footprint, dims) ==
  ScopeAdmits(record, GuardTerms(footprint, dims), footprint)
=============================================================================
