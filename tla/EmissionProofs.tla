---------------------------- MODULE EmissionProofs ----------------------------
(***************************************************************************)
(* The emission schedule for every start, rate, cap and length of a minute: *)
(* its range, its growth, its inverse and the estimates made from it.       *)
(***************************************************************************)
EXTENDS Emission, TLAPS

\* Division rounds down.
LEMMA RoundDown ==
    ASSUME NEW d \in Nat \ {0}, NEW x \in Int, NEW k \in Int
    PROVE  x \div d \in Int /\ (d * k <= x <=> k <= x \div d)
<1>. DEFINE n == x \div d
            r == x % d
<1>1. n \in Int /\ r \in 0..(d - 1) /\ x = d * n + r
    OBVIOUS
<1>. HIDE DEF n, r
<1>2. CASE k <= n
    <2>1. d * k <= d * n
        BY <1>1, <1>2
    <2>2. d * k \in Int /\ d * n \in Int
        BY <1>1
    <2>. QED
        BY <1>1, <1>2, <2>1, <2>2 DEF n
<1>3. CASE n + 1 <= k
    <2>1. d * (n + 1) <= d * k
        BY <1>1, <1>3
    <2>2. d * (n + 1) = d * n + d
        BY <1>1
    <2>3. d * k \in Int /\ d * n \in Int
        BY <1>1
    <2>. QED
        BY <1>1, <1>3, <2>1, <2>2, <2>3 DEF n
<1>. QED
    BY <1>1, <1>2, <1>3 DEF n

\* DivCurrencyRoundUp is the least factor that reaches the amount.
LEMMA RoundUp ==
    ASSUME NEW d \in Nat \ {0}, NEW s \in Nat, NEW k \in Int
    PROVE  DivCurrencyRoundUp(s, d) \in Nat /\ (d * k >= s <=> k >= DivCurrencyRoundUp(s, d))
<1>. DEFINE n == DivCurrencyRoundUp(s, d)
<1>1. n \in Int /\ (d * (k + 1) <= s + (d - 1) <=> k + 1 <= n)
    BY RoundDown DEF DivCurrencyRoundUp
<1>2. d * 0 <= s + (d - 1) <=> 0 <= n
    BY RoundDown DEF DivCurrencyRoundUp
<1>3. d * (k + 1) = d * k + d /\ d * k \in Int /\ d * 0 = 0
    OBVIOUS
<1>. HIDE DEF n
<1>. QED
    BY <1>1, <1>2, <1>3 DEF n

LEMMA MinutesType ==
    ASSUME NEW t \in Nat, ~IsPreminedPeriod(t)
    PROVE  MinutesPassed(t) \in Nat
<1>1. t - EmissionStart \in Nat
    BY EmissionAssumption DEF IsPreminedPeriod
<1>2. Minute * 0 <= t - EmissionStart <=> 0 <= MinutesPassed(t)
    BY <1>1, RoundDown, EmissionAssumption DEF MinutesPassed
<1>3. MinutesPassed(t) \in Int
    BY <1>1, RoundDown, EmissionAssumption DEF MinutesPassed
<1>. QED
    BY <1>1, <1>2, <1>3, EmissionAssumption

LEMMA TimesNat == ASSUME NEW a \in Nat, NEW b \in Nat PROVE a * b \in Nat
OBVIOUS

\* Never more than the cap.
LEMMA AllowedType ==
    ASSUME NEW t \in Nat
    PROVE  AllowedSupply(t) \in Nat /\ AllowedSupply(t) <= TotalSupply
<1>1. CASE IsPreminedPeriod(t)
    BY <1>1, EmissionAssumption DEF AllowedSupply
<1>2. CASE ~IsPreminedPeriod(t)
    <2>1. SpfPerMinute * MinutesPassed(t) \in Nat
        BY <1>2, MinutesType, TimesNat, EmissionAssumption
    <2>. QED
        BY <1>2, <2>1, EmissionAssumption DEF AllowedSupply
<1>. QED
    BY <1>1, <1>2

\* A supply below the cap is allowed exactly from its SupplyTime on.
THEOREM SupplyTimeExact ==
    ASSUME NEW t \in Nat, NEW s \in Nat \ {0}, s <= TotalSupply
    PROVE  SupplyTime(s) \in Nat /\ (AllowedSupply(t) >= s <=> SupplyTime(s) <= t)
<1>. DEFINE d == DivCurrencyRoundUp(s, SpfPerMinute)
            m == MinutesPassed(t)
<1>1. d \in Nat
    BY RoundUp, EmissionAssumption
<1>2. SupplyTime(s) = EmissionStart + Minute * d /\ Minute * d \in Nat
    BY <1>1, TimesNat, EmissionAssumption DEF SupplyTime
<1>3. CASE IsPreminedPeriod(t)
    BY <1>2, <1>3, EmissionAssumption DEF AllowedSupply, IsPreminedPeriod
<1>4. CASE ~IsPreminedPeriod(t)
    <2>1. m \in Nat /\ SpfPerMinute * m \in Nat
        BY <1>4, MinutesType, TimesNat, EmissionAssumption
    <2>2. AllowedSupply(t) >= s <=> SpfPerMinute * m >= s
        BY <1>4, <2>1, EmissionAssumption DEF AllowedSupply
    <2>3. SpfPerMinute * m >= s <=> m >= d
        BY <2>1, RoundUp, EmissionAssumption, SMTT(30)
    <2>4. t - EmissionStart \in Int
        BY EmissionAssumption
    <2>5. Minute * d <= t - EmissionStart <=> d <= m
        BY <1>1, <2>4, RoundDown, EmissionAssumption DEF MinutesPassed
    <2>. QED
        BY <1>1, <1>2, <2>1, <2>2, <2>3, <2>5, EmissionAssumption
<1>. QED
    BY <1>2, <1>3, <1>4, EmissionAssumption

\* The schedule never takes an allowance back.
LEMMA AllowedMonotone ==
    ASSUME NEW t \in Nat, NEW u \in Nat, t <= u
    PROVE  AllowedSupply(t) <= AllowedSupply(u)
<1>1. CASE AllowedSupply(t) = 0
    BY <1>1, AllowedType
<1>2. CASE AllowedSupply(t) # 0
    <2>. DEFINE s == AllowedSupply(t)
    <2>1. s \in Nat \ {0} /\ s <= TotalSupply
        BY <1>2, AllowedType
    <2>2. SupplyTime(s) \in Nat /\ SupplyTime(s) <= t
        BY <2>1, SupplyTimeExact
    <2>3. SupplyTime(s) <= u
        BY <2>2
    <2>4. AllowedSupply(u) >= s
        BY <2>1, <2>3, SupplyTimeExact
    <2>. QED
        BY <2>1, <2>4, AllowedType
<1>. QED
    BY <1>1, <1>2

\* The wait that TimeTillSupply returns is long enough.
THEOREM WaitIsEnough ==
    ASSUME NEW t \in Nat, NEW s \in Nat \ {0}, s <= TotalSupply
    PROVE  AllowedSupply(t + TimeTillSupply(t, s)) >= s
<1>1. CASE AllowedSupply(t) >= s
    BY <1>1 DEF TimeTillSupply
<1>2. CASE ~(AllowedSupply(t) >= s)
    <2>1. SupplyTime(s) \in Nat
        BY SupplyTimeExact
    <2>2. t + TimeTillSupply(t, s) = SupplyTime(s)
        BY <1>2, <2>1 DEF TimeTillSupply
    <2>3. AllowedSupply(SupplyTime(s)) >= s
        BY <2>1, SupplyTimeExact
    <2>. QED
        BY <2>2, <2>3
<1>. QED
    BY <1>1, <1>2

\* The time quoted for an amount is enough to add it, from any moment of a minute on.
THEOREM QuoteIsEnough ==
    ASSUME NEW t \in Nat, NEW q \in Nat, ~IsPreminedPeriod(t), AllowedSupply(t) + q <= TotalSupply
    PROVE  AllowedSupply(t + EmissionTime(q)) >= AllowedSupply(t) + q
<1>. DEFINE d == DivCurrencyRoundUp(q, SpfPerMinute)
            m == MinutesPassed(t)
            u == t + EmissionTime(q)
<1>1. d \in Nat /\ SpfPerMinute * d \in Nat /\ SpfPerMinute * d >= q
    <2>1. d \in Nat
        BY RoundUp, EmissionAssumption
    <2>. QED
        BY <2>1, RoundUp, TimesNat, EmissionAssumption
<1>2. Minute * d \in Nat /\ u = t + Minute * d /\ u \in Nat
    BY <1>1, TimesNat, EmissionAssumption DEF EmissionTime
<1>3. ~IsPreminedPeriod(u)
    BY <1>2, EmissionAssumption DEF IsPreminedPeriod
<1>4. m \in Nat /\ MinutesPassed(u) \in Nat
    BY <1>2, <1>3, MinutesType
<1>5. m + d <= MinutesPassed(u)
    <2>1. Minute * m <= t - EmissionStart
        BY <1>4, RoundDown, EmissionAssumption DEF MinutesPassed
    <2>2. Minute * (m + d) = Minute * m + Minute * d
        BY <1>1, <1>4, EmissionAssumption
    <2>3. Minute * (m + d) <= u - EmissionStart
        BY <1>1, <1>2, <1>4, <2>1, <2>2, TimesNat, EmissionAssumption
    <2>. QED
        BY <1>1, <1>2, <1>4, <2>3, RoundDown, EmissionAssumption DEF MinutesPassed
<1>6. SpfPerMinute * (m + d) <= SpfPerMinute * MinutesPassed(u)
    BY <1>1, <1>4, <1>5, EmissionAssumption
<1>7. SpfPerMinute * (m + d) = SpfPerMinute * m + SpfPerMinute * d
    BY <1>1, <1>4, EmissionAssumption
<1>8. SpfPerMinute * m \in Nat /\ SpfPerMinute * MinutesPassed(u) \in Nat
    BY <1>4, TimesNat, EmissionAssumption
<1>9. AllowedSupply(t) <= SpfPerMinute * m /\ AllowedSupply(t) \in Nat
    BY <1>8, AllowedType, EmissionAssumption DEF AllowedSupply
<1>10. SpfPerMinute * MinutesPassed(u) >= AllowedSupply(t) + q
    BY <1>1, <1>6, <1>7, <1>8, <1>9
<1>. QED
    BY <1>3, <1>8, <1>9, <1>10, EmissionAssumption DEF AllowedSupply
=============================================================================
