------------------------------- MODULE Money -------------------------------
(***************************************************************************)
(* Totals of non-negative amounts over a finite set of rows, the `sum(...)` *)
(* of the ledger's SQL.  A total is the number of units in the rows, so    *)
(* that facts about totals are facts about cardinalities.                  *)
(***************************************************************************)
EXTENDS Integers, FiniteSets

\* The micro-units of the rows in S when row x carries amount f[x].
Units(S, f) == UNION {{x} \X (1..f[x]) : x \in S}

Total(S, f) == Cardinality(Units(S, f))

Excess(x, y) == IF x > y THEN x - y ELSE 0
=============================================================================
