---------------------------- MODULE RiskScoring ----------------------------
(***************************************************************************)
(* The scoring algorithm of internal/pkg/helpers/txn.go: four factor       *)
(* risks, their weighted sum, the dampening by profile confidence, the     *)
(* triggered factors and the decision.                                     *)
(*                                                                         *)
(* The code computes in float64.  Here every score is an integer in a unit *)
(* fine enough for the code's constants to be exact:                       *)
(*   - a factor risk in tenths of a point, 100 points being 1000;          *)
(*   - the weighted sum in hundredths of a point, 100 points being 10000;  *)
(*   - the dampened score in 1/20000 of a point (see Points);              *)
(*   - the confidence in percent.                                          *)
(* The two quotients of the amount risk are rounded down to the unit.      *)
(***************************************************************************)
EXTENDS Integers, FiniteSets

CONSTANTS
    Modes,      \* payment modes
    MaxInt32    \* largest int32; 2^31 - 1 in the code, less in a small instance

ASSUME MaxInt32Assumption == MaxInt32 \in Nat \ {0}

MinInt32 == -MaxInt32 - 1
Int32 == MinInt32..MaxInt32
Hours == 0..23
NoHour == -1                 \* a NULL usual_transaction_*_hour

Lesser(a, b) == IF a <= b THEN a ELSE b
Greater(a, b) == IF a >= b THEN a ELSE b

(***************************************************************************)
(* A profile as the scorer sees it.  "known" says that the row exists, so  *)
(* that the average and the maximum are not NULL; both hours are NULL when *)
(* no transaction was allowed.                                             *)
(***************************************************************************)
UserProfile ==
    [known : BOOLEAN, avg : Int32, stdDev : Nat, max : Int32,
     modes : SUBSET Modes, startHour : Hours \cup {NoHour},
     endHour : Hours \cup {NoHour}, total : Nat, allowed : Nat]

EmptyProfile ==
    [known |-> FALSE, avg |-> 0, stdDev |-> 0, max |-> 0, modes |-> {},
     startHour |-> NoHour, endHour |-> NoHour, total |-> 0, allowed |-> 0]

MinTransactionsForProfiling == 5
ThresholdFrequency == 3

(***************************************************************************)
(* An operator whose name begins with Faulty is the definition after it    *)
(* with a plausible mistake; it is used only to see that the properties    *)
(* notice the mistake.                                                     *)
(***************************************************************************)

FaultyToInt32(amount) == {amount}

(***************************************************************************)
(* int32(req.Amount).  Go leaves the conversion of an out-of-range float   *)
(* to the implementation: amd64 gives the least int32, arm64 saturates.    *)
(***************************************************************************)
ToInt32(amount) ==
    IF amount \in Int32 THEN {amount}
    ELSE IF amount > MaxInt32 THEN {MinInt32, MaxInt32} ELSE {MinInt32}

CalculateProfileConfidence(profile) == Lesser(2 * profile.allowed, 100)

(***************************************************************************)
(* The amount risk: against the largest amount seen while the profile is   *)
(* young, by z-score afterwards.                                           *)
(***************************************************************************)
FaultyOverMaximumRisk(amount, max) ==   \* without the cap at 100
    IF max = 0 THEN 1000
    ELSE 200 + (300 * (amount - max)) \div Greater(max, -max)

OverMaximumRisk(amount, max) ==
    IF max = 0 THEN 1000     \* the ratio is +Inf
    ELSE LET excess == (300 * (amount - max)) \div Greater(max, -max)
         IN  Lesser(200 + (IF max > 0 THEN excess ELSE -excess), 1000)

ColdStartRisk(amount, profile) ==
    IF ~profile.known THEN 300
    ELSE IF amount > profile.max THEN OverMaximumRisk(amount, profile.max)
    ELSE 100

SameAmountRisk(amount, avg) ==
    IF amount = avg THEN 0 ELSE IF amount > avg THEN 1000 ELSE 200

FaultyZScoreRisk(amount, avg, stdDev) ==   \* small amounts as outliers too
    LET distance == Greater(amount - avg, avg - amount)
    IN  IF distance <= stdDev THEN 0
        ELSE Lesser((250 * (distance - stdDev)) \div stdDev, 1000)

ZScoreRisk(amount, avg, stdDev) ==
    IF amount - avg <= stdDev THEN 0
    ELSE Lesser((250 * (amount - avg - stdDev)) \div stdDev, 1000)

IsColdStart(profile) ==
    ~profile.known \/ profile.total < MinTransactionsForProfiling

CalculateAmountDeviationRisk(amount, profile) ==
    IF IsColdStart(profile) THEN ColdStartRisk(amount, profile)
    ELSE IF profile.stdDev = 0 THEN SameAmountRisk(amount, profile.avg)
    ELSE ZScoreRisk(amount, profile.avg, profile.stdDev)

CalculateFrequencySpikeRisk(count) ==
    IF count + 1 <= ThresholdFrequency THEN 0
    ELSE Lesser(200 * (count + 1 - ThresholdFrequency), 1000)

CalculateModeDeviationRisk(mode, profile) ==
    IF mode \in profile.modes THEN 0
    ELSE Greater(600 - 3 * CalculateProfileConfidence(profile), 200)

(***************************************************************************)
(* The time risk: distance in hours from the usual hours, which may wrap   *)
(* around midnight, and a surcharge in the small hours.                    *)
(***************************************************************************)
FaultyIsWithinUsualHours(hour, start, end) ==   \* without the last hour
    IF start <= end THEN start <= hour /\ hour < end
                    ELSE start <= hour \/ hour < end

IsWithinUsualHours(hour, start, end) ==
    IF start <= end THEN start <= hour /\ hour <= end
                    ELSE start <= hour \/ hour <= end

FaultyHoursOutside(hour, start, end) ==     \* as if they never wrapped
    IF hour < start THEN start - hour ELSE hour - end

HoursOutside(hour, start, end) ==
    IF start > end THEN Lesser(hour - end, start - hour)
    ELSE IF hour < start THEN start - hour ELSE hour - end

TimeRiskByHeuristic(hour) ==
    IF hour < 5 THEN 350 ELSE IF hour < 7 THEN 200 ELSE 50

TimeRiskByHabit(hour, start, end) ==
    IF IsWithinUsualHours(hour, start, end) THEN 0
    ELSE Lesser(100 * HoursOutside(hour, start, end)
                  + (IF hour < 4 THEN 150 ELSE 0), 1000)

CalculateTimeAnomalyRisk(hour, profile) ==
    IF profile.startHour = NoHour \/ profile.endHour = NoHour
    THEN TimeRiskByHeuristic(hour)
    ELSE TimeRiskByHabit(hour, profile.startHour, profile.endHour)

\* frequency and time exchanged
FaultyAggregate(amountRisk, frequencyRisk, modeRisk, timeRisk) ==
    Lesser(4 * amountRisk + frequencyRisk + 2 * modeRisk + 3 * timeRisk, 10000)

CalculateAggregateRiskScore(amountRisk, frequencyRisk, modeRisk, timeRisk) ==
    Lesser(4 * amountRisk + 3 * frequencyRisk + 2 * modeRisk + timeRisk, 10000)

Points(n) == 20000 * n

FaultyDampening(raw, confidence) == raw * 200               \* none
FaultySignDampening(raw, confidence) == raw * (200 + confidence)

\* raw * max(1 - confidence/200, 1/2), and never less than raw/10
DampenRiskWithProfileConfidence(raw, confidence) ==
    Greater(raw * Greater(200 - confidence, 100), 20 * raw)

DetermineTriggeredFactors(amountRisk, frequencyRisk, modeRisk, timeRisk) ==
    (IF amountRisk > 300 THEN {"AMOUNT_DEVIATION"} ELSE {})
      \cup (IF frequencyRisk > 400 THEN {"FREQUENCY_SPIKE"} ELSE {})
      \cup (IF modeRisk > 500 THEN {"NEW_MODE"} ELSE {})
      \cup (IF timeRisk > 350 THEN {"TIME_ANOMALY"} ELSE {})

FaultyDecision(final, profile) ==   \* the middle bands exchanged
    IF profile.total < MinTransactionsForProfiling
    THEN IF final < Points(60) THEN "ALLOW"
         ELSE IF final < Points(75) THEN "MFA_REQUIRED" ELSE "FLAG"
    ELSE IF final < Points(30) THEN "ALLOW"
         ELSE IF final < Points(60) THEN "MFA_REQUIRED"
         ELSE IF final < Points(80) THEN "FLAG" ELSE "BLOCK"

DetermineTransactionDecision(final, profile) ==
    IF profile.total < MinTransactionsForProfiling
    THEN IF final < Points(60) THEN "ALLOW"
         ELSE IF final < Points(75) THEN "FLAG"
         ELSE "MFA_REQUIRED"
    ELSE IF final < Points(30) THEN "ALLOW"
         ELSE IF final < Points(60) THEN "FLAG"
         ELSE IF final < Points(80) THEN "MFA_REQUIRED"
         ELSE "BLOCK"

(***************************************************************************)
(* AnalyzeTransaction, and AnalyzeBulkTransactions, which differs only in  *)
(* where the hour comes from.  "amount" is the converted amount.           *)
(***************************************************************************)
AnalyzeTransaction(amount, mode, hour, count, profile) ==
    LET a == CalculateAmountDeviationRisk(amount, profile)
        f == CalculateFrequencySpikeRisk(count)
        m == CalculateModeDeviationRisk(mode, profile)
        t == CalculateTimeAnomalyRisk(hour, profile)
        raw == CalculateAggregateRiskScore(a, f, m, t)
        final == DampenRiskWithProfileConfidence(
                     raw, CalculateProfileConfidence(profile))
    IN  [amountRisk |-> a, frequencyRisk |-> f, modeRisk |-> m,
         timeRisk |-> t, raw |-> raw, final |-> final,
         triggered |-> DetermineTriggeredFactors(a, f, m, t),
         decision |-> DetermineTransactionDecision(final, profile)]

\* The types of a result.
Risk == 0..1000
Decisions == {"ALLOW", "FLAG", "MFA_REQUIRED", "BLOCK"}
Factors == {"AMOUNT_DEVIATION", "FREQUENCY_SPIKE", "NEW_MODE", "TIME_ANOMALY"}
=============================================================================
