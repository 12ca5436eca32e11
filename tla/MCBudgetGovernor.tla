-------------------------- MODULE MCBudgetGovernor --------------------------
(***************************************************************************)
(* Instances of BudgetGovernor: two processes, the last request in the     *)
(* second one.                                                             *)
(***************************************************************************)
EXTENDS BudgetGovernor, TLC

CONSTANTS r1, r2, r3, p1, p2

MCProcOf == [t \in Task |-> IF t = r3 THEN p2 ELSE p1]

\* r1 and r2 are requests of one process for endpoints of one kind.
MCSymmetry == Permutations({r1, r2})
=============================================================================
