------------------------------- MODULE Emission -------------------------------
(***************************************************************************)
(* The emission schedule of spfemission/emission.go: from EmissionStart on, *)
(* every whole minute allows SpfPerMinute more units of the regular supply, *)
(* up to TotalSupply.  Times are counted in units of 1/Minute of a minute.  *)
(***************************************************************************)
EXTENDS Integers

CONSTANTS
    EmissionStart,  \* common.EmissionStart
    Minute,         \* units of time in a minute
    SpfPerMinute,   \* common.SpfPerMinute
    TotalSupply     \* common.TotalSupply

ASSUME EmissionAssumption ==
    /\ EmissionStart \in Nat
    /\ Minute \in Nat \ {0}
    /\ SpfPerMinute \in Nat \ {0}
    /\ TotalSupply \in Nat

\* Before the start regular burns are not accepted.
IsPreminedPeriod(t) == t < EmissionStart

MinutesPassed(t) == (t - EmissionStart) \div Minute

\* What may have been minted of the regular supply at time t.
AllowedSupply(t) ==
    IF IsPreminedPeriod(t) THEN 0
    ELSE LET emission == SpfPerMinute * MinutesPassed(t) IN
         IF emission > TotalSupply THEN TotalSupply ELSE emission

\* Mutant: rounds down.
DivCurrencyRoundDown(c, d) == c \div d

DivCurrencyRoundUp(c, d) == (c + (d - 1)) \div d

\* The moment the supply reaches s; defined up to TotalSupply.
SupplyTime(s) == EmissionStart + Minute * DivCurrencyRoundUp(s, SpfPerMinute)

\* Mutant: the minute that the change does not fill is not waited for.
EmissionTimeWhole(change) == Minute * (change \div SpfPerMinute)

\* How long the schedule takes to add the given amount.
EmissionTime(change) == Minute * DivCurrencyRoundUp(change, SpfPerMinute)

\* Mutant: counts from the start of the emission.
TimeTillSupplyFromStart(t, s) == IF AllowedSupply(t) >= s THEN 0 ELSE SupplyTime(s) - EmissionStart

\* How long to wait at time t until the supply reaches s.
TimeTillSupply(t, s) == IF AllowedSupply(t) >= s THEN 0 ELSE SupplyTime(s) - t
=============================================================================
