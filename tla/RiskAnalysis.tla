---------------------------- MODULE RiskAnalysis ---------------------------
(***************************************************************************)
(* One call of the scorer after another, over every profile and request of *)
(* a given set, with the properties its decisions must have.  It is the    *)
(* pure part of CreateTransaction and ProcessBulkTransactions in           *)
(* internal/service/txn_service.go, which hand the scorer a profile that   *)
(* may be of any age and a count that may be of any size.                  *)
(***************************************************************************)
EXTENDS RiskScoring

CONSTANTS
    Profiles,   \* profiles a call may be given
    Amounts,    \* req.Amount, in whole units, not yet converted to int32
    Counts      \* recentTransactionCount; a bulk upload always passes 0

ASSUME ProfilesAssumption == Profiles \subseteq UserProfile
ASSUME AmountsAssumption == Amounts \subseteq Int
ASSUME CountsAssumption == Counts \subseteq Nat

VARIABLES
    profile,    \* the profile of the call in progress, or of the last one
    request,    \* its arguments: the amount "asked" for, and as an int32
    result      \* what the call computed

vars == <<profile, request, result>>

NoCall == [asked |-> 0, amount |-> 0, mode |-> "none", hour |-> 0, count |-> 0]
NoResult == [decision |-> "none"]
Scored == result # NoResult

Init ==
    /\ profile \in Profiles
    /\ request = NoCall
    /\ result = NoResult

\* A call is scored.  The amount is converted when the scorer is entered.
Analyze ==
    /\ ~Scored
    /\ \E amount \in Amounts, mode \in Modes, hour \in Hours, count \in Counts :
         \E converted \in ToInt32(amount) :
           /\ request' = [asked |-> amount, amount |-> converted, mode |-> mode,
                          hour |-> hour, count |-> count]
           /\ result' = AnalyzeTransaction(converted, mode, hour, count, profile)
    /\ UNCHANGED profile

\* The result goes to the caller, and nothing of the call is kept.
Return ==
    /\ Scored
    /\ request' = NoCall
    /\ result' = NoResult
    /\ UNCHANGED profile

Next == Analyze \/ Return

Spec == Init /\ [][Next]_vars

-----------------------------------------------------------------------------

WeightedSums == 0..10000
FinalScores == 0..Points(100)

Calls ==
    [asked : Amounts, amount : Int32, mode : Modes, hour : Hours, count : Counts]
Results ==
    [amountRisk : Int, frequencyRisk : Int, modeRisk : Int, timeRisk : Int,
     raw : Int, final : Int, triggered : SUBSET Factors, decision : Decisions]

\* The type invariant.
TypeOK ==
    /\ profile \in Profiles
    /\ IF Scored THEN request \in Calls /\ result \in Results
                 ELSE request = NoCall

(***************************************************************************)
(* Every factor, the weighted sum and the final score stay on the 0-100    *)
(* scale that internal/pkg/constants/txn.go:12 gives them, for every       *)
(* profile whose largest amount is not negative.  CreateTransaction and    *)
(* ProcessBulkTransactions store them without looking at them again.       *)
(***************************************************************************)
OnScale(r) ==
    /\ {r.amountRisk, r.frequencyRisk, r.modeRisk, r.timeRisk} \subseteq Risk
    /\ r.raw \in WeightedSums
    /\ r.final \in FinalScores
ScoresOnScale == Scored /\ profile.max >= 0 => OnScale(result)

(***************************************************************************)
(* A transaction is rejected only when the amount and the frequency both   *)
(* exceed their thresholds, the profile has the five transactions that     *)
(* DetermineTransactionDecision asks for, and fewer than twelve of them    *)
(* were allowed: with twelve, dampening keeps every score under 80.        *)
(***************************************************************************)
BlockNeedsOutlierAndSpike ==
    Scored /\ result.decision = "BLOCK" =>
        /\ {"AMOUNT_DEVIATION", "FREQUENCY_SPIKE"} \subseteq result.triggered
        /\ profile.total >= MinTransactionsForProfiling
        /\ profile.allowed < 12

(***************************************************************************)
(* No user is asked for a second factor, or refused, without a factor to   *)
(* name as the reason: triggered_factors is what the client is shown.      *)
(***************************************************************************)
ChallengeHasReason ==
    Scored /\ result.decision \in {"MFA_REQUIRED", "BLOCK"} =>
        result.triggered # {}

(***************************************************************************)
(* With 32 allowed transactions a user is never challenged, whatever the   *)
(* transaction: DampenRiskWithProfileConfidence caps what is left.         *)
(***************************************************************************)
TrustedIsNeverChallenged ==
    Scored /\ profile.allowed >= 32 => result.decision \in {"ALLOW", "FLAG"}

(***************************************************************************)
(* ProcessBulkTransactions passes a count of 0, and a score without the    *)
(* frequency factor never reaches BLOCK; a young profile, or three allowed *)
(* transactions, rule out MFA_REQUIRED as well.                            *)
(***************************************************************************)
BulkIsNeverBlocked ==
    Scored /\ request.count = 0 =>
        /\ result.decision # "BLOCK"
        /\ profile.total < MinTransactionsForProfiling \/ profile.allowed >= 3
             => result.decision \in {"ALLOW", "FLAG"}

FinalScore(r, p) ==
    AnalyzeTransaction(r.amount, r.mode, r.hour, r.count, p).final

(***************************************************************************)
(* Trust helps: one more allowed transaction never raises the final score  *)
(* of the same request, although it lowers both the mode risk and the      *)
(* dampening factor.                                                       *)
(***************************************************************************)
TrustNeverHurts ==
    Scored /\ profile.max >= 0 =>
        FinalScore(request, [profile EXCEPT !.allowed = @ + 1]) <= result.final

(***************************************************************************)
(* A busier hour never lowers the final score, and neither does a larger   *)
(* amount (as an int32) when the amounts of the profile vary or when it    *)
(* already was at the average or over it.                                  *)
(***************************************************************************)
MoreIsNeverSafer ==
    Scored /\ profile.max >= 0 =>
        /\ FinalScore([request EXCEPT !.count = @ + 1], profile) >= result.final
        /\ (profile.stdDev > 0 \/ request.amount >= profile.avg)
             /\ request.amount < MaxInt32
             => FinalScore([request EXCEPT !.amount = @ + 1], profile)
                  >= result.final

\* The hours from one to another, over midnight if the second is the smaller.
Span(start, end) == {(start + k) % 24 : k \in 0..((end - start) % 24)}

\* Hours between two hours on the face of a clock, the shorter way round.
HoursApart(a, b) == Lesser((a - b) % 24, (b - a) % 24)

(***************************************************************************)
(* The usual hours follow the clock over midnight: an hour of theirs bears *)
(* no time risk, any other at least ten points for each hour to the nearer *)
(* end of them; and at most that and the 15 points of the small hours, if  *)
(* they do run over midnight (if not, the code counts hours past them on   *)
(* from their end, and never on to their next start).                      *)
(* (helpers/txn.go:155-192.)                                               *)
(***************************************************************************)
UsualHoursWrap ==
    Scored /\ NoHour \notin {profile.startHour, profile.endHour} =>
        LET hour == request.hour
            start == profile.startHour
            end == profile.endHour
            gap == Lesser(HoursApart(hour, start), HoursApart(hour, end))
        IN  IF hour \in Span(start, end) THEN result.timeRisk = 0
            ELSE /\ result.timeRisk >= Lesser(100 * gap, 1000)
                 /\ start > end => result.timeRisk <= 100 * gap + 150

(***************************************************************************)
(* README.md:9: the amount factor "detects sudden deviations from the      *)
(* user's usual transaction amount".  So an amount beyond every int32 is   *)
(* at least as risky as the largest int32.                                 *)
(***************************************************************************)
HugeAmountIsNoticed ==
    Scored /\ request.asked > MaxInt32 =>
        result.amountRisk >= CalculateAmountDeviationRisk(MaxInt32, profile)
=============================================================================
