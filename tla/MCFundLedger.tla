---------------------------- MODULE MCFundLedger ----------------------------
(***************************************************************************)
(* Instances of FundLedger.                                                *)
(***************************************************************************)
EXTENDS FundLedger

CONSTANTS f1, d1, d2, a1, a2, c1, c2, y1, y2

Asked(date, type, ref) == [fund |-> f1, date |-> date, type |-> type, ref |-> ref]

\* One reference on two dates and for two types, and another reference.
MCRequest ==
  {Asked(d1, "ISSUE", a1), Asked(d2, "ISSUE", a1), Asked(d1, "REDEEM", a1),
   Asked(d1, "ISSUE", a2)}

MCReversible == {KeyOf(Asked(d1, "ISSUE", a1))}
=============================================================================
