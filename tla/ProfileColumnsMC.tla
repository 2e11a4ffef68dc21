-------------------------- MODULE ProfileColumnsMC --------------------------
(***************************************************************************)
(* A small instance of ProfileColumns.  The int32 range is cut down to     *)
(* -21..20.  An amount of 9.7 is 10 when rounded and 9 when truncated; one *)
(* of -21 beside one of 9.7 or 19 deviates by more than 20.                *)
(***************************************************************************)
EXTENDS ProfileColumns

CONSTANTS m1, m2, p1, j1

MCModes == {m1, m2}
MCPayments == {[amount |-> 190, mode |-> m2]}
MCMoments == {0, 9, 33}

MCLines ==
    {[amount |-> 97, mode |-> m1, at |-> 9], [amount |-> -210, mode |-> m2, at |-> 24]}
=============================================================================
