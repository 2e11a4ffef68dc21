------------------------- MODULE RiskAnalysisProofs ------------------------
(***************************************************************************)
(* The properties of RiskAnalysis for every set of profiles, amounts and   *)
(* counts and for every width of int32.  Each follows from bounds on the   *)
(* four factors and on the confidence; the bounds are linear but for the   *)
(* product of the weighted sum and the dampening factor, for which one     *)
(* lemma on products is enough.                                            *)
(***************************************************************************)
EXTENDS RiskAnalysis, RiskScoringProofs

(***************************************************************************)
(* The inductive invariant: the type invariant, and that a result is what  *)
(* the scorer computes from the request and the profile beside it.  The    *)
(* type invariant alone would allow any decision for any scores.           *)
(***************************************************************************)
IInv ==
    /\ TypeOK
    /\ Scored => result = ResultOf(request.amount, request.mode, request.hour,
                                   request.count, profile)

LEMMA ResultIsTyped ==
    ASSUME NEW p \in UserProfile, NEW x \in Int32, NEW m, NEW h \in Hours,
           NEW n \in Nat
    PROVE  ResultOf(x, m, h, n, p) \in Results
<1> DEFINE r == ResultOf(x, m, h, n, p)
<1>1. Bounded(r, p, n)
  BY ResultIsBounded
<1>2. r = [amountRisk |-> r.amountRisk, frequencyRisk |-> r.frequencyRisk,
           modeRisk |-> r.modeRisk, timeRisk |-> r.timeRisk, raw |-> r.raw,
           final |-> r.final, triggered |-> r.triggered,
           decision |-> r.decision]
  BY DEF ResultOf, AnalyzeTransaction
<1> HIDE DEF r
<1>3. r.decision \in Decisions
  BY <1>1, DecisionThresholds DEF Bounded
<1>4. r.triggered \in SUBSET Factors
  BY <1>1 DEF Bounded, DetermineTriggeredFactors, Factors
<1>5. \A k \in Risk : k \in Int
  BY DEF Risk
<1>6. /\ r.amountRisk \in Int /\ r.frequencyRisk \in Risk
      /\ r.modeRisk \in Risk /\ r.timeRisk \in Risk
      /\ r.raw \in Int /\ r.final \in Int
  BY <1>1 DEF Bounded
<1>7. r \in Results
  BY <1>2, <1>3, <1>4, <1>5, <1>6 DEF Results
<1> QED
  BY <1>7 DEF r

LEMMA InitIInv == Init => IInv
BY ProfilesAssumption DEF Init, IInv, TypeOK, Scored

LEMMA NextIInv == IInv /\ [Next]_vars => IInv'
<1> SUFFICES ASSUME IInv, [Next]_vars PROVE IInv'
  OBVIOUS
<1>1. CASE Analyze
  <2>1. PICK amount \in Amounts, mode \in Modes, hour \in Hours, count \in Counts :
          \E converted \in ToInt32(amount) :
            /\ request' = [asked |-> amount, amount |-> converted, mode |-> mode,
                           hour |-> hour, count |-> count]
            /\ result' = AnalyzeTransaction(converted, mode, hour, count, profile)
    BY <1>1 DEF Analyze
  <2>2. PICK converted \in ToInt32(amount) :
          /\ request' = [asked |-> amount, amount |-> converted, mode |-> mode,
                         hour |-> hour, count |-> count]
          /\ result' = ResultOf(converted, mode, hour, count, profile)
    BY <2>1 DEF ResultOf
  <2>3. profile' = profile /\ profile \in Profiles /\ profile \in UserProfile
    BY <1>1, ProfilesAssumption DEF Analyze, IInv, TypeOK
  <2>4. converted \in Int32
    BY AmountsAssumption, ConversionIsInt32
  <2>5. request' \in Calls
    BY <2>2, <2>4 DEF Calls
  <2>6. result' \in Results
    BY <2>2, <2>3, <2>4, CountsAssumption, ResultIsTyped
  <2>7. result'.decision \in Decisions
    BY <2>6 DEF Results
  <2>8. Scored'
    BY <2>7 DEF Scored, NoResult, Decisions
  <2>9. result' = ResultOf(request'.amount, request'.mode, request'.hour,
                           request'.count, profile')
    BY <2>2, <2>3
  <2> QED
    BY <2>3, <2>5, <2>6, <2>8, <2>9 DEF IInv, TypeOK
<1>2. CASE Return
  BY <1>2 DEF Return, IInv, TypeOK, Scored
<1>3. CASE UNCHANGED vars
  BY <1>3 DEF vars, IInv, TypeOK, Scored
<1> QED
  BY <1>1, <1>2, <1>3 DEF Next

\* In every reachable state the result is that of the scorer on the request and
\* the profile beside it, with all of them of their types.
THEOREM Invariance == Spec => []IInv
<1>1. Init => IInv
  BY InitIInv
<1>2. IInv /\ [Next]_vars => IInv'
  BY NextIInv
<1> QED
  BY <1>1, <1>2, PTL DEF Spec

-----------------------------------------------------------------------------

(***************************************************************************)
(* The properties follow from the inductive invariant state by state.      *)
(***************************************************************************)
LEMMA ScoredCall ==
    ASSUME IInv, Scored
    PROVE  /\ profile \in UserProfile /\ request.amount \in Int32
           /\ request.hour \in Hours /\ request.count \in Nat
           /\ result = ResultOf(request.amount, request.mode, request.hour,
                                request.count, profile)
           /\ Bounded(result, profile, request.count)
<1>1. /\ profile \in UserProfile /\ request.amount \in Int32
      /\ request.hour \in Hours /\ request.count \in Nat
      /\ result = ResultOf(request.amount, request.mode, request.hour,
                           request.count, profile)
  BY ProfilesAssumption, CountsAssumption DEF IInv, TypeOK, Calls
<1>2. Bounded(ResultOf(request.amount, request.mode, request.hour,
                       request.count, profile), profile, request.count)
  BY <1>1, ResultIsBounded
<1> QED
  BY <1>1, <1>2

\* The scores of a transaction stay on the 0-100 scale (txn.go:12) for every
\* profile whose maximum is not negative.
LEMMA IInvScale == IInv => ScoresOnScale
<1> SUFFICES ASSUME IInv, Scored, profile.max >= 0 PROVE OnScale(result)
  BY DEF ScoresOnScale
<1> DEFINE c == CalculateProfileConfidence(profile)
           a == result.amountRisk
           f == result.frequencyRisk
           m == result.modeRisk
           t == result.timeRisk
           raw == result.raw
           final == result.final
<1>1. /\ a \in Int /\ a <= 1000 /\ a >= 0
      /\ f \in Risk /\ m \in Risk /\ t \in Risk
      /\ c \in 0..100 /\ raw \in Int /\ raw <= 9200 - 6 * c
      /\ raw = 4 * a + 3 * f + 2 * m + t
  BY ScoredCall DEF Bounded
<1>2. /\ final \in Int
      /\ raw >= 0 => final >= 0
      /\ \A bound \in Nat, k \in Nat :
           raw <= bound /\ 200 - c <= k => final <= bound * k
  BY ScoredCall DEF Bounded
<1>r. raw = result.raw /\ final = result.final
  OBVIOUS
<1> HIDE DEF a, f, m, t, c, raw, final
<1>3. a \in Risk
  BY <1>1 DEF Risk
<1>4. raw \in 0..10000
  <2>1. f \in Int /\ m \in Int /\ t \in Int /\ f >= 0 /\ m >= 0 /\ t >= 0
    BY <1>1 DEF Risk
  <2>2. raw >= 0
    BY <1>1, <2>1
  <2>3. raw \in Int /\ c \in Int /\ c >= 0 /\ raw <= 9200 - 6 * c
    BY <1>1
  <2>4. raw <= 9200
    BY <2>3
  <2> QED
    BY <2>2, <2>3, <2>4
<1>5. final \in 0..Points(100)
  <2>1. raw <= 10000 /\ 200 - c <= 200 => final <= 10000 * 200
    BY <1>2, SMT
  <2>2. raw >= 0 /\ raw <= 10000
    BY <1>4, SMT
  <2>3. Points(100) = 10000 * 200
    BY SMT DEF Points
  <2>4. final >= 0 /\ final <= 10000 * 200
    BY <1>1, <1>2, <2>1, <2>2, SMT
  <2> QED
    BY <1>2, <2>3, <2>4, SMT
<1>6. {a, f, m, t} \subseteq Risk
  BY <1>1, <1>3
<1>7. {result.amountRisk, result.frequencyRisk, result.modeRisk,
       result.timeRisk} \subseteq Risk
  BY <1>6 DEF a, f, m, t
<1>8. raw \in WeightedSums /\ final \in FinalScores
  BY <1>4, <1>5 DEF WeightedSums, FinalScores
<1> QED
  BY <1>7, <1>8, <1>r DEF OnScale

\* BLOCK takes an amount and a frequency over their thresholds, an
\* established profile, and fewer than twelve allowed transactions.
LEMMA IInvBlock == IInv => BlockNeedsOutlierAndSpike
<1> SUFFICES ASSUME IInv, Scored, result.decision = "BLOCK"
             PROVE  /\ {"AMOUNT_DEVIATION", "FREQUENCY_SPIKE"}
                          \subseteq result.triggered
                    /\ profile.total >= MinTransactionsForProfiling
                    /\ profile.allowed < 12
  BY DEF BlockNeedsOutlierAndSpike
<1>1. /\ result.final \in Int
      /\ result.decision = DetermineTransactionDecision(result.final, profile)
      /\ result.triggered = DetermineTriggeredFactors(result.amountRisk,
             result.frequencyRisk, result.modeRisk, result.timeRisk)
  BY ScoredCall DEF Bounded
<1>2. /\ result.final >= Points(80)
      /\ profile.total >= MinTransactionsForProfiling
  BY <1>1, ScoredCall, DecisionThresholds
<1>3. /\ result.amountRisk > 300 /\ result.frequencyRisk > 400
      /\ profile.allowed < 12
  BY <1>2, ScoredCall, EightyPoints
<1> QED
  BY <1>1, <1>2, <1>3 DEF DetermineTriggeredFactors

\* A challenge or a refusal names at least one triggered factor.
LEMMA IInvReason == IInv => ChallengeHasReason
<1> SUFFICES ASSUME IInv, Scored, result.decision \in {"MFA_REQUIRED", "BLOCK"}
             PROVE  result.triggered # {}
  BY DEF ChallengeHasReason
<1>1. /\ result.final \in Int
      /\ result.decision = DetermineTransactionDecision(result.final, profile)
      /\ result.triggered = DetermineTriggeredFactors(result.amountRisk,
             result.frequencyRisk, result.modeRisk, result.timeRisk)
  BY ScoredCall DEF Bounded
<1>2. result.final >= Points(60)
  BY <1>1, ScoredCall, DecisionThresholds
<1>3. \/ result.amountRisk > 300
      \/ result.frequencyRisk > 400
      \/ result.modeRisk > 500
      \/ result.timeRisk > 350
  BY <1>2, ScoredCall, SixtyPoints
<1> QED
  BY <1>1, <1>3 DEF DetermineTriggeredFactors

\* 32 allowed transactions rule out a challenge and a refusal.
LEMMA IInvTrusted == IInv => TrustedIsNeverChallenged
<1> SUFFICES ASSUME IInv, Scored, profile.allowed >= 32,
                    result.decision \notin {"ALLOW", "FLAG"}
             PROVE  FALSE
  BY DEF TrustedIsNeverChallenged
<1>1. /\ result.final \in Int
      /\ result.decision = DetermineTransactionDecision(result.final, profile)
  BY ScoredCall DEF Bounded
<1>2. result.final >= Points(60)
  BY <1>1, ScoredCall, DecisionThresholds
<1>3. profile.allowed < 32 /\ profile.allowed \in Nat
  BY <1>2, ScoredCall, SixtyPoints, ProfileFields
<1> QED
  BY <1>3

\* A bulk row, scored with a count of 0, is never refused.
LEMMA IInvBulk == IInv => BulkIsNeverBlocked
<1> SUFFICES ASSUME IInv, Scored, request.count = 0
             PROVE  /\ result.decision # "BLOCK"
                    /\ \/ profile.total < MinTransactionsForProfiling
                       \/ profile.allowed >= 3
                       => result.decision \in {"ALLOW", "FLAG"}
  BY DEF BulkIsNeverBlocked
<1>1. /\ result.final \in Int
      /\ result.decision = DetermineTransactionDecision(result.final, profile)
      /\ result.frequencyRisk = 0
  BY ScoredCall DEF Bounded
<1>2. result.decision # "BLOCK"
  <2> SUFFICES ASSUME result.decision = "BLOCK" PROVE FALSE
    OBVIOUS
  <2>1. result.final >= Points(80)
    BY <1>1, ScoredCall, DecisionThresholds
  <2>2. result.frequencyRisk > 400
    BY <2>1, ScoredCall, EightyPoints
  <2> QED
    BY <1>1, <2>2
<1>3. ASSUME result.decision \notin {"ALLOW", "FLAG"}
      PROVE  /\ ~(profile.total < MinTransactionsForProfiling)
             /\ ~(profile.allowed >= 3)
  <2>1. /\ result.final >= Points(60)
        /\ profile.total < MinTransactionsForProfiling
             => result.final >= Points(75)
    BY <1>1, <1>3, ScoredCall, DecisionThresholds
  <2>2. result.final < Points(75) /\ profile.allowed < 3
    BY <2>1, ScoredCall, SixtyPoints
  <2>3. profile.allowed \in Nat /\ Points(75) \in Int
    BY ScoredCall, ProfileFields, SMT DEF Points
  <2>4. ~(result.final >= Points(75)) /\ ~(profile.allowed >= 3)
    BY <1>1, <2>2, <2>3
  <2> QED
    BY <2>1, <2>4
<1> QED
  BY <1>2, <1>3

(***************************************************************************)
(* Comparing two calls: the final score follows the factors and the        *)
(* confidence.                                                             *)
(***************************************************************************)
LEMMA FinalIsMonotone ==
    ASSUME NEW p \in UserProfile, NEW q \in UserProfile, NEW n \in Nat,
           NEW k \in Nat, NEW r, NEW s, Bounded(r, p, n), Bounded(s, q, k),
           r.amountRisk >= 0, r.amountRisk <= s.amountRisk,
           r.frequencyRisk <= s.frequencyRisk, r.modeRisk <= s.modeRisk,
           r.timeRisk <= s.timeRisk,
           CalculateProfileConfidence(q) <= CalculateProfileConfidence(p)
    PROVE  r.final <= s.final
<1> DEFINE c == CalculateProfileConfidence(p)
           d == CalculateProfileConfidence(q)
           ra == r.amountRisk
           rf == r.frequencyRisk
           rm == r.modeRisk
           rt == r.timeRisk
           sa == s.amountRisk
           sf == s.frequencyRisk
           sm == s.modeRisk
           st == s.timeRisk
           low == r.raw
           high == s.raw
<1>1. /\ ra \in Int /\ rf \in Risk /\ rm \in Risk /\ rt \in Risk
      /\ low \in Int /\ low = 4 * ra + 3 * rf + 2 * rm + rt
      /\ c \in 0..100
      /\ low >= 0 => r.final = low * (200 - c)
  BY DEF Bounded
<1>2. /\ sa \in Int /\ sf \in Risk /\ sm \in Risk /\ st \in Risk
      /\ high \in Int /\ high = 4 * sa + 3 * sf + 2 * sm + st
      /\ d \in 0..100
      /\ high >= 0 => s.final = high * (200 - d)
  BY DEF Bounded
<1>3. /\ ra >= 0 /\ ra <= sa /\ rf <= sf /\ rm <= sm /\ rt <= st
      /\ d <= c
  OBVIOUS
<1>4. \A risk \in Risk : risk \in Int /\ risk >= 0
  BY DEF Risk
<1> HIDE DEF c, d, ra, rf, rm, rt, sa, sf, sm, st, low, high
<1>5. low >= 0 /\ low <= high
  BY <1>1, <1>2, <1>3, <1>4
<1>6. 200 - c \in Nat /\ 200 - d \in Nat /\ 200 - c <= 200 - d
  BY <1>1, <1>2, <1>3
<1>7. low \in Nat /\ high \in Nat
  BY <1>1, <1>2, <1>5
<1>8. low * (200 - c) <= high * (200 - d)
  BY <1>5, <1>6, <1>7, ProductIsMonotone
<1> QED
  BY <1>1, <1>2, <1>5, <1>7, <1>8

\* One more allowed transaction never raises the score of the same request.
LEMMA IInvTrust == IInv => TrustNeverHurts
<1> SUFFICES ASSUME IInv, Scored, profile.max >= 0
             PROVE  FinalScore(request, [profile EXCEPT !.allowed = @ + 1])
                      <= result.final
  BY DEF TrustNeverHurts
<1> DEFINE q == [profile EXCEPT !.allowed = @ + 1]
           x == request.amount
           m == request.mode
           h == request.hour
           n == request.count
           s == ResultOf(x, m, h, n, q)
           r == ResultOf(x, m, h, n, profile)
<1>1. /\ profile \in UserProfile /\ x \in Int32 /\ h \in Hours /\ n \in Nat
      /\ result = r /\ Bounded(r, profile, n)
  BY ScoredCall
<1>2. q \in UserProfile
  BY <1>1 DEF UserProfile
<1>3. Bounded(s, q, n)
  BY <1>1, <1>2, ResultIsBounded
<1>4. /\ q.known = profile.known /\ q.avg = profile.avg
      /\ q.stdDev = profile.stdDev /\ q.max = profile.max
      /\ q.modes = profile.modes /\ q.startHour = profile.startHour
      /\ q.endHour = profile.endHour /\ q.total = profile.total
      /\ q.allowed = profile.allowed + 1 /\ profile.allowed \in Nat
  BY <1>1 DEF UserProfile
<1> HIDE DEF q, x, m, h, n
<1>5. CalculateProfileConfidence(profile) <= CalculateProfileConfidence(q)
  BY <1>4 DEF CalculateProfileConfidence, Lesser
<1>6. s.amountRisk = r.amountRisk
  BY <1>4 DEF ResultOf, AnalyzeTransaction, CalculateAmountDeviationRisk,
              IsColdStart, ColdStartRisk
<1>7. s.frequencyRisk = r.frequencyRisk /\ s.timeRisk = r.timeRisk
  BY <1>4 DEF ResultOf, AnalyzeTransaction, CalculateTimeAnomalyRisk
<1>8. s.modeRisk <= r.modeRisk
  <2>1. /\ CalculateProfileConfidence(profile) \in 0..100
        /\ CalculateProfileConfidence(q) \in 0..100
    BY <1>1, <1>2, ConfidenceBounds
  <2>2. CalculateModeDeviationRisk(m, q) <= CalculateModeDeviationRisk(m, profile)
    BY <1>4, <1>5, <2>1 DEF CalculateModeDeviationRisk, Greater
  <2> QED
    BY <2>2 DEF ResultOf, AnalyzeTransaction
<1> HIDE DEF r, s
<1>9. /\ r.amountRisk \in Int /\ r.amountRisk >= 0
      /\ r.frequencyRisk \in Int /\ r.timeRisk \in Int
  <2>1. \A risk \in Risk : risk \in Int
    BY DEF Risk
  <2> QED
    BY <1>1, <2>1 DEF Bounded
<1>10. /\ s.amountRisk >= 0 /\ s.amountRisk <= r.amountRisk
       /\ s.frequencyRisk <= r.frequencyRisk /\ s.timeRisk <= r.timeRisk
  BY <1>6, <1>7, <1>9
<1>11. s.final <= r.final
  BY <1>1, <1>2, <1>3, <1>5, <1>8, <1>10, FinalIsMonotone
<1> QED
  BY <1>1, <1>11 DEF FinalScore, ResultOf, s, q, x, m, h, n

LEMMA AmountRiskIsMonotone ==
    ASSUME NEW p \in UserProfile, NEW x \in Int32, x + 1 \in Int32,
           p.max >= 0, p.stdDev > 0 \/ x >= p.avg
    PROVE  CalculateAmountDeviationRisk(x, p)
             <= CalculateAmountDeviationRisk(x + 1, p)
<1>1. /\ x \in Int /\ p.avg \in Int /\ p.max \in Nat /\ p.stdDev \in Nat
  BY ProfileFields, MaxInt32Assumption DEF Int32, MinInt32
<1>2. x + 1 > p.max => /\ OverMaximumRisk(x + 1, p.max) \in Int
                       /\ OverMaximumRisk(x + 1, p.max) >= 200
  <2>1. x + 1 \in Int /\ p.max \in Int /\ p.max >= 0
    BY <1>1
  <2> QED
    BY <2>1, OverMaximumBounds
<1>3. ASSUME x > p.max
      PROVE  OverMaximumRisk(x, p.max) <= OverMaximumRisk(x + 1, p.max)
  <2>1. CASE p.max = 0
    BY <2>1 DEF OverMaximumRisk
  <2>2. CASE p.max # 0
    <3> DEFINE less == (300 * (x - p.max)) \div Greater(p.max, -p.max)
               more == (300 * ((x + 1) - p.max)) \div Greater(p.max, -p.max)
    <3>1. /\ Greater(p.max, -p.max) \in Nat \ {0}
          /\ 300 * (x - p.max) \in Nat /\ 300 * ((x + 1) - p.max) \in Nat
          /\ 300 * (x - p.max) <= 300 * ((x + 1) - p.max)
      BY <1>1, <1>3, <2>2 DEF Greater
    <3>2. less \in Int /\ more \in Int /\ less <= more
      BY <3>1, QuotientIsInt, QuotientIsMonotone
    <3>3. /\ OverMaximumRisk(x, p.max) = Lesser(200 + less, 1000)
          /\ OverMaximumRisk(x + 1, p.max) = Lesser(200 + more, 1000)
      BY <1>1, <2>2 DEF OverMaximumRisk
    <3> HIDE DEF less, more
    <3> QED
      BY <3>2, <3>3 DEF Lesser
  <2> QED
    BY <2>1, <2>2
<1>4. ColdStartRisk(x, p) <= ColdStartRisk(x + 1, p)
  <2>1. CASE ~p.known
    BY <2>1 DEF ColdStartRisk
  <2>2. CASE p.known /\ x > p.max
    BY <1>1, <1>3, <2>2 DEF ColdStartRisk
  <2>3. CASE p.known /\ ~(x > p.max) /\ x + 1 > p.max
    <3>1. /\ ColdStartRisk(x, p) = 100
          /\ ColdStartRisk(x + 1, p) = OverMaximumRisk(x + 1, p.max)
      BY <2>3 DEF ColdStartRisk
    <3> QED
      BY <1>2, <2>3, <3>1
  <2>4. CASE p.known /\ ~(x > p.max) /\ ~(x + 1 > p.max)
    BY <2>4 DEF ColdStartRisk
  <2> QED
    BY <2>1, <2>2, <2>3, <2>4
<1>5. p.stdDev = 0 => SameAmountRisk(x, p.avg) <= SameAmountRisk(x + 1, p.avg)
  BY <1>1 DEF SameAmountRisk
<1>6. ASSUME p.stdDev # 0
      PROVE  ZScoreRisk(x, p.avg, p.stdDev) <= ZScoreRisk(x + 1, p.avg, p.stdDev)
  <2> DEFINE less == (250 * (x - p.avg - p.stdDev)) \div p.stdDev
             more == (250 * ((x + 1) - p.avg - p.stdDev)) \div p.stdDev
  <2>1. /\ p.stdDev \in Nat \ {0}
        /\ 250 * (x - p.avg - p.stdDev) \in Int
        /\ 250 * ((x + 1) - p.avg - p.stdDev) \in Int
        /\ 250 * (x - p.avg - p.stdDev) <= 250 * ((x + 1) - p.avg - p.stdDev)
    BY <1>1, <1>6
  <2>2. less \in Int /\ more \in Int /\ less <= more
    BY <2>1, QuotientIsInt, QuotientIsMonotone
  <2>3. ~((x + 1) - p.avg <= p.stdDev) => more >= 0
    <3>1. ~((x + 1) - p.avg <= p.stdDev) => 250 * ((x + 1) - p.avg - p.stdDev) >= 0
      BY <1>1
    <3> QED
      BY <2>1, <3>1, QuotientIsInt
  <2>4. ZScoreRisk(x, p.avg, p.stdDev)
          = IF x - p.avg <= p.stdDev THEN 0 ELSE Lesser(less, 1000)
    BY DEF ZScoreRisk
  <2>5. ZScoreRisk(x + 1, p.avg, p.stdDev)
          = IF (x + 1) - p.avg <= p.stdDev THEN 0 ELSE Lesser(more, 1000)
    BY DEF ZScoreRisk
  <2> HIDE DEF less, more
  <2> QED
    BY <1>1, <2>2, <2>3, <2>4, <2>5 DEF Lesser
<1> QED
  BY <1>4, <1>5, <1>6 DEF CalculateAmountDeviationRisk

\* A busier hour, or a larger amount, never lowers the score.
LEMMA IInvMore == IInv => MoreIsNeverSafer
<1> SUFFICES ASSUME IInv, Scored, profile.max >= 0
             PROVE  /\ result.final
                         <= FinalScore([request EXCEPT !.count = @ + 1], profile)
                    /\ (profile.stdDev > 0 \/ request.amount >= profile.avg)
                         /\ request.amount < MaxInt32
                         => result.final <= FinalScore(
                                [request EXCEPT !.amount = @ + 1], profile)
  <2> DEFINE busier == FinalScore([request EXCEPT !.count = @ + 1], profile)
             larger == FinalScore([request EXCEPT !.amount = @ + 1], profile)
  <2> HIDE DEF busier, larger
  <2> QED
    BY DEF MoreIsNeverSafer, busier, larger
<1> DEFINE x == request.amount
           m == request.mode
           h == request.hour
           n == request.count
           r == ResultOf(x, m, h, n, profile)
           busy == ResultOf(x, m, h, n + 1, profile)
           large == ResultOf(x + 1, m, h, n, profile)
           c == CalculateProfileConfidence(profile)
<1>1. /\ profile \in UserProfile /\ x \in Int32 /\ h \in Hours /\ n \in Nat
      /\ result = r /\ Bounded(r, profile, n)
  BY ScoredCall
<1>2. n + 1 \in Nat /\ Bounded(busy, profile, n + 1)
  <2>1. n + 1 \in Nat
    BY <1>1
  <2> QED
    BY <1>1, <2>1, ResultIsBounded
<1>3. request \in Calls
  BY DEF IInv, TypeOK
<1>4. /\ FinalScore([request EXCEPT !.count = @ + 1], profile) = busy.final
      /\ FinalScore([request EXCEPT !.amount = @ + 1], profile) = large.final
  BY <1>3 DEF FinalScore, ResultOf, Calls
<1> HIDE DEF x, m, h, n
<1>5. /\ busy.amountRisk = r.amountRisk /\ busy.modeRisk = r.modeRisk
      /\ busy.timeRisk = r.timeRisk
      /\ large.frequencyRisk = r.frequencyRisk /\ large.modeRisk = r.modeRisk
      /\ large.timeRisk = r.timeRisk
  BY DEF ResultOf, AnalyzeTransaction
<1>6. r.frequencyRisk <= busy.frequencyRisk
  <2>1. CalculateFrequencySpikeRisk(n) <= CalculateFrequencySpikeRisk(n + 1)
    BY <1>1 DEF CalculateFrequencySpikeRisk, ThresholdFrequency, Lesser
  <2> QED
    BY <2>1 DEF ResultOf, AnalyzeTransaction
<1>7. ASSUME profile.stdDev > 0 \/ x >= profile.avg, x < MaxInt32
      PROVE  r.amountRisk <= large.amountRisk /\ Bounded(large, profile, n)
  <2>1. x + 1 \in Int32
    BY <1>1, <1>7, MaxInt32Assumption DEF Int32, MinInt32
  <2>2. CalculateAmountDeviationRisk(x, profile)
          <= CalculateAmountDeviationRisk(x + 1, profile)
    BY <1>1, <1>7, <2>1, AmountRiskIsMonotone
  <2>3. Bounded(large, profile, n)
    BY <1>1, <2>1, ResultIsBounded
  <2> QED
    BY <2>2, <2>3 DEF ResultOf, AnalyzeTransaction
<1> HIDE DEF r, busy, large
<1>8. /\ r.amountRisk \in Int /\ r.amountRisk >= 0 /\ r.frequencyRisk \in Int
      /\ r.modeRisk \in Int /\ r.timeRisk \in Int /\ c \in Int
  <2>1. \A risk \in Risk : risk \in Int
    BY DEF Risk
  <2> QED
    BY <1>1, <2>1 DEF Bounded
<1> HIDE DEF c
<1>9. /\ r.amountRisk <= r.amountRisk /\ r.frequencyRisk <= r.frequencyRisk
      /\ r.modeRisk <= r.modeRisk /\ r.timeRisk <= r.timeRisk /\ c <= c
  BY <1>8
<1>10. r.final <= busy.final
  BY <1>1, <1>2, <1>5, <1>6, <1>8, <1>9, FinalIsMonotone DEF c
<1>11. profile.stdDev > 0 \/ x >= profile.avg => (x < MaxInt32 => r.final <= large.final)
  BY <1>1, <1>5, <1>7, <1>8, <1>9, FinalIsMonotone DEF c
<1> QED
  BY <1>1, <1>4, <1>10, <1>11 DEF x

-----------------------------------------------------------------------------

(***************************************************************************)
(* Hours on the face of a clock: with the remainders spelled out, what is  *)
(* left is linear.                                                         *)
(***************************************************************************)
LEMMA ClockSubtraction ==
    ASSUME NEW a \in Hours, NEW b \in Hours
    PROVE  (a - b) % 24 = IF a >= b THEN a - b ELSE a - b + 24
<1>1. a \in 0..23 /\ b \in 0..23
  BY DEF Hours
<1> QED
  BY <1>1, SMTT(30)

LEMMA WithinIsSpan ==
    ASSUME NEW h \in Hours, NEW s \in Hours, NEW e \in Hours
    PROVE  h \in Span(s, e) <=> IsWithinUsualHours(h, s, e)
<1> DEFINE n == IF e >= s THEN e - s ELSE e - s + 24
<1>1. Span(s, e) = {(s + k) % 24 : k \in 0..n}
  BY ClockSubtraction DEF Span
<1>2. h \in Int /\ s \in Int /\ e \in Int /\ 0 <= h /\ h <= 23
      /\ 0 <= s /\ s <= 23 /\ 0 <= e /\ e <= 23
  BY DEF Hours
<1>3. n \in Int /\ n <= 23
  BY <1>2
<1>4. ASSUME NEW k \in 0..n
      PROVE  (s + k) % 24 = IF s + k >= 24 THEN s + k - 24 ELSE s + k
  <2>1. k \in Int /\ 0 <= k /\ k <= 23
    BY <1>3
  <2> HIDE DEF n
  <2> QED
    BY <1>2, <2>1
<1>5. IsWithinUsualHours(h, s, e)
        <=> \E k \in 0..n : h = IF s + k >= 24 THEN s + k - 24 ELSE s + k
  <2>1. ASSUME IsWithinUsualHours(h, s, e)
        PROVE  \E k \in 0..n : h = IF s + k >= 24 THEN s + k - 24 ELSE s + k
    <3> DEFINE k == IF h >= s THEN h - s ELSE h - s + 24
    <3>1. k \in 0..n
      BY <1>2, <2>1 DEF IsWithinUsualHours
    <3>2. h = IF s + k >= 24 THEN s + k - 24 ELSE s + k
      BY <1>2
    <3> HIDE DEF k, n
    <3> QED
      BY <3>1, <3>2
  <2>2. ASSUME NEW k \in 0..n, h = IF s + k >= 24 THEN s + k - 24 ELSE s + k
        PROVE  IsWithinUsualHours(h, s, e)
    <3>1. k \in Int /\ 0 <= k /\ k <= n
      BY <1>3
    <3> QED
      BY <1>2, <2>2, <3>1 DEF IsWithinUsualHours
  <2> QED
    BY <2>1, <2>2
<1> HIDE DEF n
<1> QED
  BY <1>1, <1>4, <1>5

\* The time risk keeps to the clock, whichever side of midnight.
LEMMA IInvWrap == IInv => UsualHoursWrap
<1> DEFINE h == request.hour
           s == profile.startHour
           e == profile.endHour
           gap == Lesser(HoursApart(h, s), HoursApart(h, e))
<1> SUFFICES ASSUME IInv, Scored, s # NoHour, e # NoHour
             PROVE  IF h \in Span(s, e) THEN result.timeRisk = 0
                    ELSE /\ result.timeRisk >= Lesser(100 * gap, 1000)
                         /\ s > e => result.timeRisk <= 100 * gap + 150
  BY DEF UsualHoursWrap
<1>1. h \in Hours /\ s \in Hours /\ e \in Hours
  BY ScoredCall DEF UserProfile
<1>2. result.timeRisk = TimeRiskByHabit(h, s, e)
  BY ScoredCall DEF ResultOf, AnalyzeTransaction, CalculateTimeAnomalyRisk
<1> HIDE DEF h, s, e
<1>3. h \in Int /\ s \in Int /\ e \in Int /\ 0 <= h /\ h <= 23
      /\ 0 <= s /\ s <= 23 /\ 0 <= e /\ e <= 23
  BY <1>1 DEF Hours
<1>4. CASE IsWithinUsualHours(h, s, e)
  BY <1>1, <1>2, <1>4, WithinIsSpan DEF TimeRiskByHabit
<1>5. CASE ~IsWithinUsualHours(h, s, e)
  <2>1. /\ (h - s) % 24 = IF h >= s THEN h - s ELSE h - s + 24
        /\ (s - h) % 24 = IF s >= h THEN s - h ELSE s - h + 24
        /\ (h - e) % 24 = IF h >= e THEN h - e ELSE h - e + 24
        /\ (e - h) % 24 = IF e >= h THEN e - h ELSE e - h + 24
    BY <1>1, ClockSubtraction
  <2> DEFINE toStart == HoursApart(h, s)
             toEnd == HoursApart(h, e)
             out == HoursOutside(h, s, e)
  <2>2. toStart \in Int /\ toEnd \in Int /\ gap \in Int
        /\ gap <= toStart /\ gap <= toEnd /\ (gap = toStart \/ gap = toEnd)
    BY <1>3, <2>1 DEF HoursApart, Lesser
  <2>3. out \in Int /\ gap <= out /\ (s > e => out = gap)
    BY <1>3, <1>5, <2>1 DEF HoursApart, Lesser, HoursOutside, IsWithinUsualHours
  <2>4. result.timeRisk = Lesser(100 * out + (IF h < 4 THEN 150 ELSE 0), 1000)
    BY <1>2, <1>5 DEF TimeRiskByHabit
  <2>5. h \notin Span(s, e)
    BY <1>1, <1>5, WithinIsSpan
  <2> HIDE DEF out, toStart, toEnd, gap
  <2>6. /\ result.timeRisk >= Lesser(100 * gap, 1000)
        /\ s > e => result.timeRisk <= 100 * gap + 150
    BY <1>3, <2>2, <2>3, <2>4 DEF Lesser
  <2> QED
    BY <2>5, <2>6
<1> QED
  BY <1>4, <1>5

-----------------------------------------------------------------------------

\* Every call hands the scorer an int32 amount and a profile of the given set,
\* and gets a result with the fields and decisions of txn.go.
THEOREM TypeCorrect == Spec => []TypeOK
<1>1. IInv => TypeOK
  BY DEF IInv
<1> QED
  BY <1>1, Invariance, PTL

\* The scores stored with a transaction lie between 0 and 100 points, as
\* txn.go:12 has it, for every profile whose maximum is not negative.
THEOREM ScoresStayOnScale == Spec => []ScoresOnScale
<1>1. IInv => ScoresOnScale
  BY IInvScale
<1> QED
  BY <1>1, Invariance, PTL

\* DetermineTransactionDecision rejects a transaction only for an amount and a
\* frequency over their thresholds, of a profile with under 12 allowed ones.
THEOREM BlockIsJustified == Spec => []BlockNeedsOutlierAndSpike
<1>1. IInv => BlockNeedsOutlierAndSpike
  BY IInvBlock
<1> QED
  BY <1>1, Invariance, PTL

\* A challenged or rejected transaction has a triggered factor to show.
THEOREM ChallengesAreExplained == Spec => []ChallengeHasReason
<1>1. IInv => ChallengeHasReason
  BY IInvReason
<1> QED
  BY <1>1, Invariance, PTL

\* Dampening keeps users with 32 allowed transactions under the challenge
\* threshold of DetermineTransactionDecision, whatever they do.
THEOREM TrustedAreNotChallenged == Spec => []TrustedIsNeverChallenged
<1>1. IInv => TrustedIsNeverChallenged
  BY IInvTrusted
<1> QED
  BY <1>1, Invariance, PTL

\* A bulk upload, which is scored with a count of 0, never has a row rejected.
THEOREM BulkIsNotBlocked == Spec => []BulkIsNeverBlocked
<1>1. IInv => BulkIsNeverBlocked
  BY IInvBulk
<1> QED
  BY <1>1, Invariance, PTL

\* One more allowed transaction never raises the final score of a request,
\* through the mode risk and the dampening together.
THEOREM TrustHelps == Spec => []TrustNeverHurts
<1>1. IInv => TrustNeverHurts
  BY IInvTrust
<1> QED
  BY <1>1, Invariance, PTL

\* A busier hour or a larger amount never lowers the final score.
THEOREM MoreIsRiskier == Spec => []MoreIsNeverSafer
<1>1. IInv => MoreIsNeverSafer
  BY IInvMore
<1> QED
  BY <1>1, Invariance, PTL

\* CalculateTimeAnomalyRisk measures the distance from the usual hours on the
\* clock, whichever hours they are and whether or not they run over midnight.
THEOREM HoursFollowTheClock == Spec => []UsualHoursWrap
<1>1. IInv => UsualHoursWrap
  BY IInvWrap
<1> QED
  BY <1>1, Invariance, PTL
=============================================================================
