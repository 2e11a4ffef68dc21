-------------------------- MODULE RiskScoringProofs -------------------------
(***************************************************************************)
(* Lemmas about RiskScoring: the bounds of the factors, of the weighted    *)
(* sum and of the final score, and what a score of 60 or 80 points takes.  *)
(***************************************************************************)
EXTENDS RiskScoring, TLAPS

LEMMA ConversionIsInt32 ==
    ASSUME NEW amount \in Int, NEW converted \in ToInt32(amount)
    PROVE  converted \in Int32
BY MaxInt32Assumption DEF ToInt32, Int32, MinInt32

(***************************************************************************)
(* Arithmetic.                                                             *)
(***************************************************************************)
LEMMA QuotientIsInt ==
    ASSUME NEW a \in Int, NEW b \in Nat \ {0}
    PROVE  a \div b \in Int /\ (a >= 0 => a \div b >= 0)
OBVIOUS

LEMMA QuotientIsMonotone ==
    ASSUME NEW a \in Int, NEW c \in Int, NEW b \in Nat \ {0}, a <= c
    PROVE  a \div b <= c \div b
OBVIOUS

LEMMA ProductIsMonotone ==
    ASSUME NEW a \in Nat, NEW b \in Nat, NEW c \in Nat, NEW d \in Nat,
           a <= b, c <= d
    PROVE  a * c \in Nat /\ b * d \in Nat /\ a * c <= b * d
<1>1. a * c <= b * c
  OBVIOUS
<1>2. b * c <= b * d
  OBVIOUS
<1> QED
  BY <1>1, <1>2

-----------------------------------------------------------------------------

(***************************************************************************)
(* Bounds on the factors.                                                  *)
(***************************************************************************)
LEMMA ConfidenceBounds ==
    ASSUME NEW p \in UserProfile
    PROVE  /\ CalculateProfileConfidence(p) \in 0..100
           /\ \A n \in 0..50 : p.allowed >= n =>
                CalculateProfileConfidence(p) >= 2 * n
BY DEF CalculateProfileConfidence, Lesser, UserProfile

LEMMA ProfileFields ==
    ASSUME NEW p \in UserProfile
    PROVE  /\ p.known \in BOOLEAN /\ p.avg \in Int /\ p.stdDev \in Nat
           /\ p.max \in Int /\ p.total \in Nat /\ p.allowed \in Nat
           /\ p.startHour \in Int /\ p.startHour >= -1 /\ p.startHour <= 23
           /\ p.endHour \in Int /\ p.endHour >= -1 /\ p.endHour <= 23
BY MaxInt32Assumption DEF UserProfile, Int32, MinInt32, Hours, NoHour

LEMMA OverMaximumBounds ==
    ASSUME NEW x \in Int, NEW max \in Int, x > max
    PROVE  LET risk == OverMaximumRisk(x, max)
           IN  risk \in Int /\ risk <= 1000 /\ (max >= 0 => risk >= 200)
<1>1. CASE max = 0
  BY <1>1 DEF OverMaximumRisk
<1>2. CASE max # 0
  <2> DEFINE excess == (300 * (x - max)) \div Greater(max, -max)
  <2>1. Greater(max, -max) \in Nat \ {0} /\ 300 * (x - max) \in Nat
    BY <1>2 DEF Greater
  <2>2. excess \in Nat
    BY <2>1, QuotientIsInt
  <2>3. OverMaximumRisk(x, max) =
          Lesser(200 + (IF max > 0 THEN excess ELSE -excess), 1000)
    BY <1>2 DEF OverMaximumRisk
  <2> HIDE DEF excess
  <2> QED
    BY <1>2, <2>2, <2>3 DEF Lesser
<1> QED
  BY <1>1, <1>2

LEMMA AmountRiskBounds ==
    ASSUME NEW p \in UserProfile, NEW x \in Int32
    PROVE  LET risk == CalculateAmountDeviationRisk(x, p)
           IN  risk \in Int /\ risk <= 1000 /\ (p.max >= 0 => risk >= 0)
<1>1. x \in Int /\ p.avg \in Int /\ p.max \in Int /\ p.stdDev \in Nat
  BY ProfileFields, MaxInt32Assumption DEF Int32, MinInt32
<1>2. ASSUME x > p.max
      PROVE  LET risk == OverMaximumRisk(x, p.max)
             IN  risk \in Int /\ risk <= 1000 /\ (p.max >= 0 => risk >= 0)
  BY <1>1, <1>2, OverMaximumBounds
<1>3. LET risk == ColdStartRisk(x, p)
      IN  risk \in Int /\ risk <= 1000 /\ (p.max >= 0 => risk >= 0)
  BY <1>1, <1>2 DEF ColdStartRisk
<1>4. SameAmountRisk(x, p.avg) \in Risk
  BY DEF SameAmountRisk, Risk
<1>5. p.stdDev # 0 => ZScoreRisk(x, p.avg, p.stdDev) \in Risk
  <2> HAVE p.stdDev # 0
  <2>1. CASE x - p.avg <= p.stdDev
    BY <2>1 DEF ZScoreRisk, Risk
  <2>2. CASE ~(x - p.avg <= p.stdDev)
    <3>1. 250 * (x - p.avg - p.stdDev) \in Nat
      BY <1>1, <2>2
    <3> DEFINE quotient == (250 * (x - p.avg - p.stdDev)) \div p.stdDev
    <3>2. quotient \in Nat
      BY <1>1, <3>1, QuotientIsInt
    <3>3. ZScoreRisk(x, p.avg, p.stdDev) = Lesser(quotient, 1000)
      BY <2>2 DEF ZScoreRisk
    <3> HIDE DEF quotient
    <3>4. Lesser(quotient, 1000) \in Risk
      BY <3>2 DEF Risk, Lesser
    <3> QED
      BY <3>3, <3>4
  <2> QED
    BY <2>1, <2>2
<1>6. CASE IsColdStart(p)
  BY <1>3, <1>6 DEF CalculateAmountDeviationRisk
<1>7. CASE ~IsColdStart(p)
  <2>1. CalculateAmountDeviationRisk(x, p) \in Risk
    BY <1>4, <1>5, <1>7 DEF CalculateAmountDeviationRisk
  <2> QED
    BY <2>1 DEF Risk
<1> QED
  BY <1>6, <1>7

LEMMA FrequencyRiskBounds ==
    ASSUME NEW count \in Nat
    PROVE  /\ CalculateFrequencySpikeRisk(count) \in Risk
           /\ count = 0 => CalculateFrequencySpikeRisk(count) = 0
BY DEF CalculateFrequencySpikeRisk, ThresholdFrequency, Lesser, Risk

LEMMA ModeRiskBounds ==
    ASSUME NEW p \in UserProfile, NEW m
    PROVE  LET risk == CalculateModeDeviationRisk(m, p)
           IN  /\ risk \in Risk
               /\ risk <= 600 - 3 * CalculateProfileConfidence(p)
BY ConfidenceBounds DEF CalculateModeDeviationRisk, Greater, Risk

LEMMA TimeRiskBounds ==
    ASSUME NEW p \in UserProfile, NEW h \in Hours
    PROVE  CalculateTimeAnomalyRisk(h, p) \in Risk
<1>1. h \in Int /\ h >= 0 /\ h <= 23
  BY DEF Hours
<1>2. TimeRiskByHeuristic(h) \in Risk
  BY DEF TimeRiskByHeuristic, Risk
<1>3. TimeRiskByHabit(h, p.startHour, p.endHour) \in Risk
  <2>1. CASE IsWithinUsualHours(h, p.startHour, p.endHour)
    BY <2>1 DEF TimeRiskByHabit, Risk
  <2>2. CASE ~IsWithinUsualHours(h, p.startHour, p.endHour)
    <3>1. HoursOutside(h, p.startHour, p.endHour) \in Nat
      BY <1>1, <2>2, ProfileFields
      DEF HoursOutside, IsWithinUsualHours, Lesser
    <3> QED
      BY <1>1, <2>2, <3>1 DEF TimeRiskByHabit, Risk, Lesser
  <2> QED
    BY <2>1, <2>2
<1> QED
  BY <1>2, <1>3 DEF CalculateTimeAnomalyRisk

-----------------------------------------------------------------------------

(***************************************************************************)
(* Bounds on the weighted sum and on the final score.                      *)
(***************************************************************************)
LEMMA RawBounds ==
    ASSUME NEW a \in Int, a <= 1000, NEW f \in Risk, NEW m \in Risk,
           NEW t \in Risk, NEW c \in 0..100, m <= 600 - 3 * c
    PROVE  LET raw == CalculateAggregateRiskScore(a, f, m, t)
           IN  /\ raw = 4 * a + 3 * f + 2 * m + t
               /\ raw \in Int /\ raw <= 9200 - 6 * c
BY DEF CalculateAggregateRiskScore, Lesser, Risk

LEMMA DampeningFactor ==
    ASSUME NEW p \in UserProfile
    PROVE  LET c == CalculateProfileConfidence(p)
           IN  Greater(200 - c, 100) = 200 - c /\ 200 - c \in 100..200
BY ConfidenceBounds DEF Greater

LEMMA FinalOfRaw ==
    ASSUME NEW raw \in Int, NEW factor \in 100..200
    PROVE  LET final == Greater(raw * factor, 20 * raw)
           IN  /\ final \in Int
               /\ raw >= 0 => final = raw * factor /\ final >= 0
               /\ raw < 0 => final <= 0
               /\ \A r \in Nat, f \in Nat :
                    raw <= r /\ factor <= f => final <= r * f
<1> DEFINE final == Greater(raw * factor, 20 * raw)
<1>1. raw * factor \in Int
  OBVIOUS
<1>2. CASE raw >= 0
  <2>1. 20 * raw <= raw * factor
    BY <1>2
  <2>2. final = raw * factor
    BY <2>1, <1>1, <1>2 DEF Greater
  <2>3. raw * factor >= 0
    BY <1>2
  <2>4. ASSUME NEW r \in Nat, NEW f \in Nat, raw <= r, factor <= f
        PROVE  raw * factor <= r * f
    BY <2>4, <1>2, ProductIsMonotone
  <2> QED
    BY <1>1, <1>2, <2>2, <2>3, <2>4
<1>3. CASE raw < 0
  <2>1. raw * factor <= 0
    BY <1>3
  <2>2. final \in Int /\ final <= 0
    BY <1>1, <1>3, <2>1 DEF Greater
  <2>3. \A r, f \in Nat : r * f >= 0
    OBVIOUS
  <2>4. \A r, f \in Nat : r * f \in Nat
    BY <2>3
  <2> HIDE DEF final
  <2>5. \A r, f \in Nat : final <= r * f
    BY <2>2, <2>4
  <2> QED
    BY <1>3, <2>2, <2>5 DEF final
<1> QED
  BY <1>2, <1>3

(***************************************************************************)
(* What is known of every result: its fields as numbers, and three ways to *)
(* bound the final score from above.                                       *)
(***************************************************************************)
ResultOf(x, m, h, n, p) == AnalyzeTransaction(x, m, h, n, p)

LEMMA ResultFields ==
    ASSUME NEW p \in UserProfile, NEW x \in Int32, NEW m, NEW h \in Hours,
           NEW n \in Nat
    PROVE  LET r == ResultOf(x, m, h, n, p)
               c == CalculateProfileConfidence(p)
           IN  /\ r.amountRisk \in Int /\ r.amountRisk <= 1000
               /\ p.max >= 0 => r.amountRisk >= 0
               /\ r.frequencyRisk \in Risk /\ (n = 0 => r.frequencyRisk = 0)
               /\ r.modeRisk \in Risk /\ r.modeRisk <= 600 - 3 * c
               /\ r.timeRisk \in Risk
               /\ c \in 0..100
               /\ r.raw = 4 * r.amountRisk + 3 * r.frequencyRisk
                            + 2 * r.modeRisk + r.timeRisk
               /\ r.raw \in Int /\ r.raw <= 9200 - 6 * c
               /\ r.final = Greater(r.raw * (200 - c), 20 * r.raw)
               /\ r.triggered = DetermineTriggeredFactors(r.amountRisk,
                                    r.frequencyRisk, r.modeRisk, r.timeRisk)
               /\ r.decision = DetermineTransactionDecision(r.final, p)
<1> DEFINE r == ResultOf(x, m, h, n, p)
           c == CalculateProfileConfidence(p)
<1>1. /\ r.amountRisk = CalculateAmountDeviationRisk(x, p)
      /\ r.frequencyRisk = CalculateFrequencySpikeRisk(n)
      /\ r.modeRisk = CalculateModeDeviationRisk(m, p)
      /\ r.timeRisk = CalculateTimeAnomalyRisk(h, p)
      /\ r.raw = CalculateAggregateRiskScore(r.amountRisk, r.frequencyRisk,
                                             r.modeRisk, r.timeRisk)
      /\ r.final = DampenRiskWithProfileConfidence(r.raw, c)
      /\ r.triggered = DetermineTriggeredFactors(r.amountRisk,
                           r.frequencyRisk, r.modeRisk, r.timeRisk)
      /\ r.decision = DetermineTransactionDecision(r.final, p)
  BY DEF ResultOf, AnalyzeTransaction
<1> HIDE DEF r
<1>2. /\ r.amountRisk \in Int /\ r.amountRisk <= 1000
      /\ p.max >= 0 => r.amountRisk >= 0
  BY <1>1, AmountRiskBounds
<1>3. r.frequencyRisk \in Risk /\ (n = 0 => r.frequencyRisk = 0)
  BY <1>1, FrequencyRiskBounds
<1>4. r.modeRisk \in Risk /\ r.modeRisk <= 600 - 3 * c
  BY <1>1, ModeRiskBounds
<1>5. r.timeRisk \in Risk
  BY <1>1, TimeRiskBounds
<1>6. c \in 0..100
  BY ConfidenceBounds
<1> HIDE DEF c
<1>7. /\ r.raw = 4 * r.amountRisk + 3 * r.frequencyRisk
                   + 2 * r.modeRisk + r.timeRisk
      /\ r.raw \in Int /\ r.raw <= 9200 - 6 * c
  BY <1>1, <1>2, <1>3, <1>4, <1>5, <1>6, RawBounds, SMTT(30)
<1>8. r.final = Greater(r.raw * (200 - c), 20 * r.raw)
  BY <1>1, DampeningFactor DEF DampenRiskWithProfileConfidence, c
<1> QED
  BY <1>1, <1>2, <1>3, <1>4, <1>5, <1>6, <1>7, <1>8 DEF r, c

LEMMA FinalAtMost ==
    ASSUME NEW p \in UserProfile, NEW x \in Int32, NEW m, NEW h \in Hours,
           NEW n \in Nat
    PROVE  LET r == ResultOf(x, m, h, n, p)
               c == CalculateProfileConfidence(p)
           IN  /\ r.final \in Int
               /\ r.raw >= 0 => r.final = r.raw * (200 - c) /\ r.final >= 0
               /\ r.raw < 0 => r.final <= 0
               /\ \A bound \in Nat, f \in Nat :
                    r.raw <= bound /\ 200 - c <= f => r.final <= bound * f
<1> DEFINE r == ResultOf(x, m, h, n, p)
           c == CalculateProfileConfidence(p)
           raw == r.raw
           factor == 200 - c
<1>1. raw \in Int /\ factor \in 100..200
  <2>1. r.raw \in Int /\ r.raw <= 9200 - 6 * c /\ c \in 0..100
    BY ResultFields
  <2>2. 200 - c \in 100..200
    BY DampeningFactor
  <2> HIDE DEF r, c
  <2> QED
    BY <2>1, <2>2
<1>2. r.final = Greater(raw * factor, 20 * raw)
  BY ResultFields
<1> DEFINE final == Greater(raw * factor, 20 * raw)
<1> HIDE DEF raw, factor, r, c
<1>3. /\ final \in Int
      /\ raw >= 0 => final = raw * factor /\ final >= 0
      /\ raw < 0 => final <= 0
      /\ \A bound \in Nat, f \in Nat :
           raw <= bound /\ factor <= f => final <= bound * f
  BY <1>1, FinalOfRaw
<1> QED
  BY <1>2, <1>3 DEF raw, factor, r, c

LEMMA DecisionThresholds ==
    ASSUME NEW p \in UserProfile, NEW final \in Int
    PROVE  LET d == DetermineTransactionDecision(final, p)
           IN  /\ d \in Decisions
               /\ d = "BLOCK" => final >= Points(80)
                                   /\ p.total >= MinTransactionsForProfiling
               /\ d \notin {"ALLOW", "FLAG"} => final >= Points(60)
               /\ d \notin {"ALLOW", "FLAG"}
                    /\ p.total < MinTransactionsForProfiling
                  => final >= Points(75)
BY ProfileFields, SMT
DEF DetermineTransactionDecision, Decisions, Points, MinTransactionsForProfiling

(***************************************************************************)
(* The weighted sum when some of the factors are small.                    *)
(***************************************************************************)
LEMMA WeightedSum ==
    ASSUME NEW a \in Int, a <= 1000, NEW f \in Risk, NEW m \in Risk,
           NEW t \in Risk, NEW c \in 0..100, m <= 600 - 3 * c
    PROVE  LET raw == 4 * a + 3 * f + 2 * m + t
           IN  /\ a <= 300 \/ f <= 400 => raw <= 7999
               /\ f = 0 => raw <= 6200 - 6 * c
               /\ a <= 300 /\ f <= 400 /\ m <= 500 /\ t <= 350 => raw <= 5999
BY DEF Risk

LEMMA ResultWeights ==
    ASSUME NEW p \in UserProfile, NEW x \in Int32, NEW m, NEW h \in Hours,
           NEW n \in Nat
    PROVE  LET r == ResultOf(x, m, h, n, p)
               c == CalculateProfileConfidence(p)
           IN  /\ r.amountRisk <= 300 \/ r.frequencyRisk <= 400 => r.raw <= 7999
               /\ n = 0 => r.raw <= 6200 - 6 * c
               /\ ~(\/ r.amountRisk > 300
                    \/ r.frequencyRisk > 400
                    \/ r.modeRisk > 500
                    \/ r.timeRisk > 350) => r.raw <= 5999
<1> DEFINE r == ResultOf(x, m, h, n, p)
           c == CalculateProfileConfidence(p)
           a == r.amountRisk
           f == r.frequencyRisk
           mr == r.modeRisk
           t == r.timeRisk
<1>1. /\ a \in Int /\ a <= 1000 /\ f \in Risk /\ mr \in Risk
      /\ mr <= 600 - 3 * c /\ t \in Risk /\ c \in 0..100
      /\ r.raw = 4 * a + 3 * f + 2 * mr + t
      /\ n = 0 => f = 0
  BY ResultFields
<1> HIDE DEF c, a, f, mr, t
<1>2. f \in Int /\ mr \in Int /\ t \in Int
  BY <1>1 DEF Risk
<1>3. LET raw == 4 * a + 3 * f + 2 * mr + t
      IN  /\ a <= 300 \/ f <= 400 => raw <= 7999
          /\ f = 0 => raw <= 6200 - 6 * c
          /\ a <= 300 /\ f <= 400 /\ mr <= 500 /\ t <= 350 => raw <= 5999
  BY <1>1, WeightedSum
<1>4. /\ a <= 300 \/ f <= 400 => r.raw <= 7999
      /\ n = 0 => r.raw <= 6200 - 6 * c
      /\ ~(a > 300 \/ f > 400 \/ mr > 500 \/ t > 350) => r.raw <= 5999
  <2> HIDE DEF r
  <2> QED
    BY <1>1, <1>2, <1>3
<1> QED
  BY <1>4 DEF a, f, mr, t, c

(***************************************************************************)
(* All that the properties need to know of a result r that was computed    *)
(* with profile p and count n.                                             *)
(***************************************************************************)
Bounded(r, p, n) ==
    LET c == CalculateProfileConfidence(p) IN
    /\ r.amountRisk \in Int /\ r.amountRisk <= 1000
    /\ p.max >= 0 => r.amountRisk >= 0
    /\ r.frequencyRisk \in Risk /\ (n = 0 => r.frequencyRisk = 0)
    /\ r.modeRisk \in Risk /\ r.timeRisk \in Risk
    /\ c \in 0..100
    /\ r.raw = 4 * r.amountRisk + 3 * r.frequencyRisk
                 + 2 * r.modeRisk + r.timeRisk
    /\ r.raw \in Int /\ r.raw <= 9200 - 6 * c
    /\ r.amountRisk <= 300 \/ r.frequencyRisk <= 400 => r.raw <= 7999
    /\ n = 0 => r.raw <= 6200 - 6 * c
    /\ ~(\/ r.amountRisk > 300
         \/ r.frequencyRisk > 400
         \/ r.modeRisk > 500
         \/ r.timeRisk > 350) => r.raw <= 5999
    /\ r.final \in Int
    /\ r.raw >= 0 => r.final = r.raw * (200 - c) /\ r.final >= 0
    /\ r.raw < 0 => r.final <= 0
    /\ \A bound \in Nat, f \in Nat :
         r.raw <= bound /\ 200 - c <= f => r.final <= bound * f
    /\ r.triggered = DetermineTriggeredFactors(r.amountRisk,
                         r.frequencyRisk, r.modeRisk, r.timeRisk)
    /\ r.decision = DetermineTransactionDecision(r.final, p)

LEMMA ResultIsBounded ==
    ASSUME NEW p \in UserProfile, NEW x \in Int32, NEW m, NEW h \in Hours,
           NEW n \in Nat
    PROVE  Bounded(ResultOf(x, m, h, n, p), p, n)
<1> DEFINE r == ResultOf(x, m, h, n, p)
           c == CalculateProfileConfidence(p)
<1>1. /\ r.amountRisk \in Int /\ r.amountRisk <= 1000
      /\ p.max >= 0 => r.amountRisk >= 0
      /\ r.frequencyRisk \in Risk /\ (n = 0 => r.frequencyRisk = 0)
      /\ r.modeRisk \in Risk /\ r.timeRisk \in Risk
      /\ c \in 0..100
      /\ r.raw = 4 * r.amountRisk + 3 * r.frequencyRisk
                   + 2 * r.modeRisk + r.timeRisk
      /\ r.raw \in Int /\ r.raw <= 9200 - 6 * c
      /\ r.triggered = DetermineTriggeredFactors(r.amountRisk,
                           r.frequencyRisk, r.modeRisk, r.timeRisk)
      /\ r.decision = DetermineTransactionDecision(r.final, p)
  BY ResultFields
<1>2. /\ r.final \in Int
      /\ r.raw >= 0 => r.final = r.raw * (200 - c) /\ r.final >= 0
      /\ r.raw < 0 => r.final <= 0
      /\ \A bound \in Nat, f \in Nat :
           r.raw <= bound /\ 200 - c <= f => r.final <= bound * f
  BY FinalAtMost, ZenonT(30)
<1>3. /\ r.amountRisk <= 300 \/ r.frequencyRisk <= 400 => r.raw <= 7999
      /\ n = 0 => r.raw <= 6200 - 6 * c
      /\ ~(\/ r.amountRisk > 300
           \/ r.frequencyRisk > 400
           \/ r.modeRisk > 500
           \/ r.timeRisk > 350) => r.raw <= 5999
  BY ResultWeights
<1> HIDE DEF r
<1>4. Bounded(r, p, n)
  BY <1>1, <1>2, <1>3 DEF Bounded
<1> QED
  BY <1>4 DEF r

(***************************************************************************)
(* A score of 80 points or more: 92 points is the most there can be, and   *)
(* either factor at its threshold, or a confidence of 24, takes too much   *)
(* away.                                                                   *)
(***************************************************************************)
LEMMA EightyPoints ==
    ASSUME NEW p \in UserProfile, NEW n \in Nat, NEW r, Bounded(r, p, n),
           r.final >= Points(80)
    PROVE  r.amountRisk > 300 /\ r.frequencyRisk > 400 /\ p.allowed < 12
<1> DEFINE c == CalculateProfileConfidence(p)
           final == r.final
           raw == r.raw
<1>1. final \in Int /\ final >= Points(80)
  BY DEF Bounded
<1>2. \A bound \in Nat, f \in Nat :
         raw <= bound /\ 200 - c <= f => final <= bound * f
  BY DEF Bounded
<1>3. raw \in Int /\ raw <= 9200 - 6 * c /\ c \in 0..100
  BY DEF Bounded
<1>4. /\ r.amountRisk \in Int /\ r.frequencyRisk \in Int
      /\ r.amountRisk <= 300 \/ r.frequencyRisk <= 400 => raw <= 7999
  <2>1. \A k \in Risk : k \in Int
    BY DEF Risk
  <2> QED
    BY <2>1 DEF Bounded
<1>5. p.allowed \in Nat /\ (p.allowed >= 12 => c >= 24)
  BY ConfidenceBounds, ProfileFields
<1> HIDE DEF final, raw, c
<1>6. ~(raw <= 7999)
  <2>1. raw <= 7999 /\ 200 - c <= 200 => final <= 7999 * 200
    BY <1>2
  <2> QED
    BY <2>1, <1>1, <1>3, SMT DEF Points
<1>7. ~(c >= 24)
  <2>1. raw <= 9056 /\ 200 - c <= 176 => final <= 9056 * 176
    BY <1>2
  <2> QED
    BY <2>1, <1>1, <1>3, SMT DEF Points
<1> QED
  BY <1>4, <1>5, <1>6, <1>7

(***************************************************************************)
(* A score of 60 points or more: some factor is over its threshold, and    *)
(* the confidence is under 64; without the frequency factor the score is   *)
(* under 75 and the confidence under 6.                                    *)
(***************************************************************************)
LEMMA SixtyPoints ==
    ASSUME NEW p \in UserProfile, NEW n \in Nat, NEW r, Bounded(r, p, n),
           r.final >= Points(60)
    PROVE  /\ \/ r.amountRisk > 300
              \/ r.frequencyRisk > 400
              \/ r.modeRisk > 500
              \/ r.timeRisk > 350
           /\ p.allowed < 32
           /\ n = 0 => r.final < Points(75) /\ p.allowed < 3
<1> DEFINE c == CalculateProfileConfidence(p)
           final == r.final
           raw == r.raw
           some == \/ r.amountRisk > 300
                   \/ r.frequencyRisk > 400
                   \/ r.modeRisk > 500
                   \/ r.timeRisk > 350
<1>1. final \in Int /\ final >= Points(60)
  BY DEF Bounded
<1>2. \A bound \in Nat, f \in Nat :
         raw <= bound /\ 200 - c <= f => final <= bound * f
  BY DEF Bounded
<1>3. raw \in Int /\ raw <= 9200 - 6 * c /\ c \in 0..100
  BY DEF Bounded
<1>4. (n = 0 => raw <= 6200 - 6 * c) /\ (~some => raw <= 5999)
  BY DEF Bounded
<1>5. /\ p.allowed \in Nat
      /\ p.allowed >= 32 => c >= 64
      /\ p.allowed >= 3 => c >= 6
  BY ConfidenceBounds, ProfileFields
<1> HIDE DEF final, raw, c, some
<1>6. ~(raw <= 5999)
  <2>1. raw <= 5999 /\ 200 - c <= 200 => final <= 5999 * 200
    BY <1>2
  <2> QED
    BY <2>1, <1>1, <1>3, SMT DEF Points
<1>7. ~(c >= 64)
  <2>1. raw <= 8816 /\ 200 - c <= 136 => final <= 8816 * 136
    BY <1>2
  <2> QED
    BY <2>1, <1>1, <1>3, SMT DEF Points
<1>8. n = 0 => final < Points(75)
  <2>1. raw <= 6200 /\ 200 - c <= 200 => final <= 6200 * 200
    BY <1>2
  <2> QED
    BY <2>1, <1>1, <1>3, <1>4, SMT DEF Points
<1>9. n = 0 => ~(c >= 6)
  <2>1. raw <= 6164 /\ 200 - c <= 194 => final <= 6164 * 194
    BY <1>2
  <2> QED
    BY <2>1, <1>1, <1>3, <1>4, SMT DEF Points
<1>10. some /\ p.allowed < 32 /\ (n = 0 => final < Points(75) /\ p.allowed < 3)
  BY <1>3, <1>4, <1>5, <1>6, <1>7, <1>8, <1>9
<1> QED
  BY <1>10 DEF some, final
=============================================================================
