--------------------------- MODULE RiskAnalysisMC --------------------------
(***************************************************************************)
(* A small instance of RiskAnalysis: profiles on both sides of every       *)
(* branch of the scorer, and amounts on both sides of every threshold they *)
(* meet.  The int32 range is cut down to -1001..1000; 2000 is out of it.   *)
(***************************************************************************)
EXTENDS RiskAnalysis

CONSTANTS m1, m2

MCModes == {m1, m2}

\* total_transactions and allowed_transactions.  The nightly rebuild changes
\* the other columns without them, so that any pair meets any habits.
Tallies ==
    {<<0, 0>>, <<4, 4>>, <<5, 2>>, <<5, 3>>, <<40, 0>>, <<40, 1>>, <<40, 11>>,
     <<40, 12>>, <<40, 17>>, <<40, 31>>, <<40, 32>>, <<60, 60>>}

Seen(avg, sd, max, modes, start, end, n) ==
    [known |-> TRUE, avg |-> avg, stdDev |-> sd, max |-> max, modes |-> modes,
     startHour |-> start, endHour |-> end, total |-> n[1], allowed |-> n[2]]

\* Nothing was allowed: the average is 0, and there are no modes and no hours.
Refused(maxima) ==
    {Seen(0, 0, mx, {}, NoHour, NoHour, n) : mx \in maxima, n \in Tallies}

\* An average, a deviation and a maximum; usual hours by day and by night.
Accepted(amounts) ==
    {Seen(a[1], a[2], a[3], {m1}, h[1], h[2], n) :
        a \in amounts, h \in {<<9, 17>>, <<22, 4>>}, n \in Tallies}

MCProfiles ==
    {EmptyProfile} \cup Refused({0, 90})
                   \cup Accepted({<<50, 0, 50>>, <<50, 10, 90>>})

MCAmounts == {20, 50, 72, 91, 400, 2000}
MCCounts == {0, 3, 4, 5, 7}
=============================================================================
