---------------------------- MODULE BurnSumProofs ----------------------------
(***************************************************************************)
(* Proofs about the amounts of BurnIntake: the supply numbers of the        *)
(* transport tables and the transported column of the premined addresses,   *)
(* for every number of burns, amounts, clients and faults.                  *)
(*                                                                         *)
(* An amount is a set of coins, and a sum the number of coins: with that    *)
(* the facts about finite sets and their cardinality are facts about sums.  *)
(***************************************************************************)
EXTENDS BurnIntakeProofs, FiniteSetTheorems

-----------------------------------------------------------------------------
(* Sums.                                                                    *)

\* A coin for each unit that g gives a burn.
Coins(g, S) == UNION {{b} \X (1..g[b]) : b \in S}

\* The coins of a burn are those of no other.
LEMMA CoinsSplit ==
    ASSUME NEW g, NEW S, NEW b \in S
    PROVE  /\ Coins(g, S) = Coins(g, S \ {b}) \cup Coins(g, {b})
           /\ Coins(g, S \ {b}) \cap Coins(g, {b}) = {}
BY DEF Coins

\* A burn has as many coins as its part of the sum.
LEMMA CoinsOne ==
    ASSUME NEW g \in [Burns -> Nat], NEW b \in Burns
    PROVE  IsFiniteSet(Coins(g, {b})) /\ Cardinality(Coins(g, {b})) = g[b]
<1>1. Coins(g, {b}) = {b} \X (1..g[b])
    BY DEF Coins
<1>2. g[b] \in Nat
    OBVIOUS
<1>3. IsFiniteSet({b}) /\ Cardinality({b}) = 1
    BY FS_Singleton
<1>4. IsFiniteSet(1..g[b]) /\ Cardinality(1..g[b]) = g[b]
    BY <1>2, FS_Interval
<1>5. /\ IsFiniteSet({b} \X (1..g[b]))
      /\ Cardinality({b} \X (1..g[b])) = Cardinality({b}) * Cardinality(1..g[b])
    BY <1>3, <1>4, FS_Product
<1>6. Cardinality({b}) * Cardinality(1..g[b]) = g[b]
    BY <1>2, <1>3, <1>4
<1>. QED
    BY <1>1, <1>5, <1>6

LEMMA CoinsFinite ==
    ASSUME NEW g \in [Burns -> Nat], NEW S \in SUBSET Burns
    PROVE  IsFiniteSet(Coins(g, S)) /\ Cardinality(Coins(g, S)) \in Nat
<1>1. IsFiniteSet(S)
    BY IntakeAssumption, FS_Subset
<1>. DEFINE f == [b \in S |-> Coins(g, {b})]
<1>2. Coins(g, S) = UNION {Coins(g, {b}) : b \in S}
    BY DEF Coins
<1>3. f \in Surjection(S, {Coins(g, {b}) : b \in S})
    BY DEF Surjection
<1>4. IsFiniteSet({Coins(g, {b}) : b \in S})
    BY <1>1, <1>3, FS_Surjection
<1>5. \A T \in {Coins(g, {b}) : b \in S} : IsFiniteSet(T)
    BY CoinsOne
<1>6. IsFiniteSet(Coins(g, S))
    BY <1>2, <1>4, <1>5, FS_UNION
<1>. QED
    BY <1>6, FS_CardinalityType

\* Total and Refund are such sums.
SumOf(g, S) == MapThenSumSet(LAMBDA b : g[b], S)

\* A sum is defined by recursion over a set.  Counting coins solves its equation, and by
\* well-founded induction over the subsets no other function does.
LEMMA SumIsCount ==
    ASSUME NEW g \in [Burns -> Nat], NEW S \in SUBSET Burns
    PROVE  SumOf(g, S) = Cardinality(Coins(g, S))
<1>. DEFINE Step(i) == [s \in SUBSET S |-> IF s = {} THEN 0
                                           ELSE LET x == CHOOSE y \in s : TRUE
                                                IN  g[x] + i[s \ {x}]]
            sum == CHOOSE i : i = Step(i)
            count == [s \in SUBSET S |-> Cardinality(Coins(g, s))]
<1>1. SumOf(g, S) = sum[S]
    BY DEF SumOf, MapThenSumSet, MapThenFoldSet
<1>2. \A s \in SUBSET S : \A x \in s : Cardinality(Coins(g, s)) = g[x] + Cardinality(Coins(g, s \ {x}))
  <2>. SUFFICES ASSUME NEW s \in SUBSET S, NEW x \in s
                PROVE  Cardinality(Coins(g, s)) = g[x] + Cardinality(Coins(g, s \ {x}))
      OBVIOUS
  <2>1. /\ IsFiniteSet(Coins(g, s \ {x})) /\ Cardinality(Coins(g, s \ {x})) \in Nat
        /\ IsFiniteSet(Coins(g, {x})) /\ Cardinality(Coins(g, {x})) = g[x] /\ g[x] \in Nat
      BY CoinsFinite, CoinsOne, IntakeAssumption
  <2>2. Cardinality(Coins(g, s \ {x}) \cup Coins(g, {x}))
          = Cardinality(Coins(g, s \ {x})) + Cardinality(Coins(g, {x}))
              - Cardinality(Coins(g, s \ {x}) \cap Coins(g, {x}))
      BY <2>1, FS_Union
  <2>3. /\ Coins(g, s) = Coins(g, s \ {x}) \cup Coins(g, {x})
        /\ Cardinality(Coins(g, s \ {x}) \cap Coins(g, {x})) = 0
      BY CoinsSplit, FS_EmptySet
  <2>. QED
      BY <2>1, <2>2, <2>3
<1>3. Cardinality(Coins(g, {})) = 0
    BY FS_EmptySet DEF Coins
<1>4. count = Step(count)
  <2>1. ASSUME NEW s \in SUBSET S
        PROVE  count[s] = Step(count)[s]
    <3>. DEFINE x == CHOOSE y \in s : TRUE
    <3>1. CASE s = {}
        BY <1>3, <3>1
    <3>2. CASE s # {}
      <4>1. x \in s /\ s \ {x} \in SUBSET S
          BY <3>2
      <4>2. Step(count)[s] = g[x] + count[s \ {x}]
          BY <3>2
      <4>3. count[s] = Cardinality(Coins(g, s)) /\ count[s \ {x}] = Cardinality(Coins(g, s \ {x}))
          BY <4>1
      <4>. HIDE DEF x, Step, count
      <4>. QED
          BY <1>2, <4>1, <4>2, <4>3
    <3>. QED
        BY <3>1, <3>2
  <2>. QED
      BY <2>1
<1>5. sum = Step(sum)
    BY <1>4
<1>6. S \in {s \in SUBSET S : sum[s] = count[s]}
  <2>. DEFINE Bad == {s \in SUBSET S : sum[s] # count[s]}
  <2>1. IsWellFoundedOn(StrictSubsetOrdering(S), FiniteSubsetsOf(S))
      BY FS_StrictSubsetOrderingWellFounded
  <2>2. FiniteSubsetsOf(S) = SUBSET S
      BY IntakeAssumption, FS_Subset, FS_FiniteSubsetsOfFinite
  <2>3. ASSUME Bad # {} PROVE FALSE
    <3>1. PICK s \in Bad : \A t \in Bad : <<t, s>> \notin StrictSubsetOrdering(S)
      <4>1. Bad \subseteq SUBSET S
          OBVIOUS
      <4>. HIDE DEF Bad
      <4>. QED
          BY <4>1, <2>1, <2>2, <2>3, WFMin
    <3>2. s # {}
        BY <1>3, <1>5
    <3>. DEFINE x == CHOOSE y \in s : TRUE
    <3>3. x \in s /\ s \ {x} \in SUBSET S
        BY <3>2
    <3>4. <<s \ {x}, s>> \in StrictSubsetOrdering(S)
        BY <3>3 DEF StrictSubsetOrdering
    <3>5. sum[s \ {x}] = count[s \ {x}]
        BY <3>1, <3>3, <3>4
    <3>6. Step(sum)[s] = g[x] + sum[s \ {x}]
        BY <3>2
    <3>7. count[s] = g[x] + count[s \ {x}]
        BY <1>2, <3>3
    <3>. QED
        BY <1>5, <3>5, <3>6, <3>7
  <2>. QED
      BY <2>3
<1>. QED
    BY <1>1, <1>6

LEMMA SumType ==
    ASSUME NEW g \in [Burns -> Nat], NEW S \in SUBSET Burns
    PROVE  SumOf(g, S) \in Nat
BY SumIsCount, CoinsFinite

\* Where g gives each burn at least what f does, its sum is at least that of f.
LEMMA SumGrows ==
    ASSUME NEW f \in [Burns -> Nat], NEW g \in [Burns -> Nat], NEW S \in SUBSET Burns,
           \A b \in S : f[b] <= g[b]
    PROVE  SumOf(f, S) <= SumOf(g, S)
<1>1. Coins(f, S) \subseteq Coins(g, S)
  <2>1. \A b \in S : f[b] \in Nat /\ g[b] \in Nat
      OBVIOUS
  <2>2. \A b \in S : {b} \X (1..f[b]) \subseteq {b} \X (1..g[b])
      BY <2>1
  <2>. QED
      BY <2>2 DEF Coins
<1>2. IsFiniteSet(Coins(g, S))
    BY CoinsFinite
<1>3. Cardinality(Coins(f, S)) <= Cardinality(Coins(g, S))
    BY <1>1, <1>2, FS_Subset
<1>. QED
    BY <1>3, SumIsCount

LEMMA TotalIsCount ==
    ASSUME NEW S \in SUBSET Burns
    PROVE  Total(S) = Cardinality(Coins(Amount, S)) /\ Amount \in [Burns -> Nat]
<1>1. Total(S) = SumOf(Amount, S)
    BY DEF Total, SumOf
<1>2. Amount \in [Burns -> Nat]
    BY IntakeAssumption
<1>. QED
    BY <1>1, <1>2, SumIsCount

LEMMA TotalType ==
    ASSUME NEW S \in SUBSET Burns
    PROVE  Total(S) \in Nat
BY TotalIsCount, CoinsFinite

LEMMA TotalEmpty == Total({}) = 0
<1>1. Coins(Amount, {}) = {}
    BY DEF Coins
<1>. QED
    BY <1>1, TotalIsCount, FS_EmptySet

LEMMA TotalOne ==
    ASSUME NEW b \in Burns
    PROVE  Total({b}) = Amount[b] /\ Amount[b] \in Nat \ {0}
BY TotalIsCount, CoinsOne, IntakeAssumption

\* Disjoint sets add up.
LEMMA TotalUnion ==
    ASSUME NEW S \in SUBSET Burns, NEW T \in SUBSET Burns, S \cap T = {}
    PROVE  Total(S \cup T) = Total(S) + Total(T)
<1>1. Coins(Amount, S \cup T) = Coins(Amount, S) \cup Coins(Amount, T) /\ Coins(Amount, S) \cap Coins(Amount, T) = {}
    BY DEF Coins
<1>2. /\ IsFiniteSet(Coins(Amount, S)) /\ Cardinality(Coins(Amount, S)) \in Nat
      /\ IsFiniteSet(Coins(Amount, T)) /\ Cardinality(Coins(Amount, T)) \in Nat
    BY CoinsFinite, TotalIsCount
<1>3. Cardinality(Coins(Amount, S) \cup Coins(Amount, T))
        = Cardinality(Coins(Amount, S)) + Cardinality(Coins(Amount, T)) - Cardinality(Coins(Amount, S) \cap Coins(Amount, T))
    BY <1>2, FS_Union
<1>4. Cardinality(Coins(Amount, S) \cap Coins(Amount, T)) = 0
    BY <1>1, FS_EmptySet
<1>5. S \cup T \in SUBSET Burns
    OBVIOUS
<1>6. /\ Total(S \cup T) = Cardinality(Coins(Amount, S) \cup Coins(Amount, T))
      /\ Total(S) = Cardinality(Coins(Amount, S)) /\ Total(T) = Cardinality(Coins(Amount, T))
    BY <1>1, <1>5, TotalIsCount
<1>. QED
    BY <1>2, <1>3, <1>4, <1>6

LEMMA TotalSubset ==
    ASSUME NEW T \in SUBSET Burns, NEW S \in SUBSET T
    PROVE  Total(T) = Total(S) + Total(T \ S) /\ Total(S) <= Total(T)
<1>1. T = S \cup (T \ S) /\ S \cap (T \ S) = {} /\ S \in SUBSET Burns /\ T \ S \in SUBSET Burns
    OBVIOUS
<1>2. Total(T) = Total(S \cup (T \ S))
    BY <1>1
<1>3. Total(S \cup (T \ S)) = Total(S) + Total(T \ S)
    BY <1>1, TotalUnion
<1>4. Total(S) \in Nat /\ Total(T \ S) \in Nat
    BY <1>1, TotalType
<1>. QED
    BY <1>2, <1>3, <1>4

\* A set of burns has one where f is greatest: by induction again, one burn less each time.
LEMMA FiniteHasGreatest ==
    ASSUME NEW f \in [Burns -> Nat], NEW S \in SUBSET Burns, S # {}
    PROVE  \E m \in S : \A b \in S : f[b] <= f[m]
<1>. DEFINE Bad == {T \in SUBSET S : T # {} /\ \A m \in T : \E b \in T : ~(f[b] <= f[m])}
<1>1. IsWellFoundedOn(StrictSubsetOrdering(S), SUBSET S)
  <2>1. IsFiniteSet(S)
      BY IntakeAssumption, FS_Subset
  <2>2. FiniteSubsetsOf(S) = SUBSET S
      BY <2>1, FS_FiniteSubsetsOfFinite
  <2>. QED
      BY <2>2, FS_StrictSubsetOrderingWellFounded
<1>2. ASSUME Bad # {} PROVE FALSE
  <2>1. PICK T \in Bad : \A U \in Bad : <<U, T>> \notin StrictSubsetOrdering(S)
    <3>1. Bad \subseteq SUBSET S
        OBVIOUS
    <3>. HIDE DEF Bad
    <3>. QED
        BY <1>1, <1>2, <3>1, WFMin
  <2>2. PICK x \in T : TRUE
      BY <2>1
  <2>3. <<T \ {x}, T>> \in StrictSubsetOrdering(S)
      BY <2>1, <2>2 DEF StrictSubsetOrdering
  <2>4. T \ {x} \notin Bad
      BY <2>1, <2>3
  <2>5. T \subseteq Burns /\ x \in Burns
      BY <2>1, <2>2
  <2>6. CASE T \ {x} = {}
      BY <2>1, <2>2, <2>5, <2>6
  <2>7. CASE T \ {x} # {}
    <3>1. PICK m \in T \ {x} : \A b \in T \ {x} : f[b] <= f[m]
        BY <2>1, <2>4, <2>7
    <3>2. f[m] \in Nat /\ f[x] \in Nat /\ \A b \in T : f[b] \in Nat
        BY <2>5, <3>1
    <3>3. \E n \in T : \A b \in T : f[b] <= f[n]
        BY <2>2, <3>1, <3>2
    <3>. QED
        BY <2>1, <3>3
  <2>. QED
      BY <2>6, <2>7
<1>. QED
    BY <1>2

\* MaxAfter, for any column and set of rows.
Greatest(f, S) == IF S = {} THEN 0 ELSE CHOOSE m \in {f[b] : b \in S} : \A b \in S : f[b] <= m

LEMMA GreatestIs ==
    ASSUME NEW f \in [Burns -> Nat], NEW S \in SUBSET Burns
    PROVE  /\ Greatest(f, S) \in Nat
           /\ \A b \in S : f[b] <= Greatest(f, S)
           /\ S # {} => \E b \in S : Greatest(f, S) = f[b]
<1>1. CASE S = {}
    BY <1>1 DEF Greatest
<1>2. CASE S # {}
  <2>1. PICK m \in S : \A b \in S : f[b] <= f[m]
      BY <1>2, FiniteHasGreatest
  <2>2. /\ Greatest(f, S) \in {f[b] : b \in S}
        /\ \A b \in S : f[b] <= Greatest(f, S)
      BY <1>2, <2>1 DEF Greatest
  <2>. QED
      BY <2>2
<1>. QED
    BY <1>1, <1>2

LEMMA GreatestSame ==
    ASSUME NEW f \in [Burns -> Nat], NEW g \in [Burns -> Nat], NEW S \in SUBSET Burns,
           \A b \in S : f[b] = g[b]
    PROVE  Greatest(f, S) = Greatest(g, S)
<1>1. CASE S = {}
    BY <1>1 DEF Greatest
<1>2. CASE S # {}
  <2>1. PICK b \in S : Greatest(f, S) = f[b]
      BY <1>2, GreatestIs
  <2>2. PICK c \in S : Greatest(g, S) = g[c]
      BY <1>2, GreatestIs
  <2>3. f[c] <= f[b] /\ g[b] <= g[c] /\ f[b] \in Nat /\ f[c] \in Nat
      BY <2>1, <2>2, GreatestIs
  <2>. QED
      BY <2>1, <2>2, <2>3
<1>. QED
    BY <1>1, <1>2

\* Rows lie on top of each other: each ends where those up to it add up to.
UpTo(S, f, b) == {c \in S : f[c] <= f[b]}
Tiled(f, S) == \A b \in S : f[b] = Total(UpTo(S, f, b))

\* Rows without gap or overlap end where all of them add up to.
LEMMA TiledAddsUp ==
    ASSUME NEW f \in [Burns -> Nat], NEW S \in SUBSET Burns, Tiled(f, S)
    PROVE  Greatest(f, S) = Total(S)
<1>1. CASE S = {}
    BY <1>1, TotalEmpty DEF Greatest
<1>2. CASE S # {}
  <2>1. PICK m \in S : Greatest(f, S) = f[m] /\ \A b \in S : f[b] <= f[m]
      BY <1>2, GreatestIs
  <2>2. UpTo(S, f, m) = S
      BY <2>1 DEF UpTo
  <2>. QED
      BY <2>1, <2>2 DEF Tiled
<1>. QED
    BY <1>1, <1>2

\* What a pass puts on top of S, in the order of place.
LEMMA TiledAbove ==
    ASSUME NEW f \in [Burns -> Nat], NEW S \in SUBSET Burns, Tiled(f, S),
           NEW T \in SUBSET Burns, S \cap T = {},
           NEW place \in [T -> Int], \A b, c \in T : b # c => place[b] # place[c],
           NEW g \in [Burns -> Nat],
           \A b \in S : g[b] = f[b],
           \A b \in T : g[b] = Total(S) + Total(UpTo(T, place, b))
    PROVE  Tiled(g, S \cup T)
<1>. DEFINE upTo(b) == UpTo(T, place, b)
<1>1. Total(S) \in Nat /\ \A b \in S : f[b] <= Total(S) /\ f[b] \in Nat
    BY TiledAddsUp, GreatestIs, TotalType
<1>2. \A b \in T : Total(upTo(b)) \in Nat /\ 0 < Total(upTo(b))
  <2>. SUFFICES ASSUME NEW b \in T PROVE Total(upTo(b)) \in Nat /\ 0 < Total(upTo(b))
      OBVIOUS
  <2>1. upTo(b) \in SUBSET Burns /\ {b} \in SUBSET upTo(b) /\ b \in Burns
      BY DEF UpTo
  <2>2. Total({b}) <= Total(upTo(b)) /\ Total(upTo(b)) \in Nat
      BY <2>1, TotalSubset, TotalType
  <2>3. Total({b}) \in Nat \ {0}
      BY <2>1, TotalOne
  <2>. HIDE DEF upTo
  <2>. QED
      BY <2>2, <2>3
<1>a. \A b \in T : g[b] = Total(S) + Total(upTo(b))
    OBVIOUS
<1>b. \A b \in S : \A c \in T : ~(g[c] <= g[b]) /\ g[b] <= g[c]
  <2>. HIDE DEF upTo
  <2>. QED
      BY <1>1, <1>2, <1>a
<1>3. \A b, c \in T : place[c] <= place[b] <=> g[c] <= g[b]
  <2>. SUFFICES ASSUME NEW b \in T, NEW c \in T PROVE place[c] <= place[b] <=> g[c] <= g[b]
      OBVIOUS
  <2>1. CASE place[c] <= place[b]
    <3>1. upTo(b) \in SUBSET Burns /\ upTo(c) \in SUBSET upTo(b)
        BY <2>1 DEF UpTo
    <3>2. Total(upTo(c)) <= Total(upTo(b))
        BY <3>1, TotalSubset
    <3>3. g[c] = Total(S) + Total(upTo(c)) /\ g[b] = Total(S) + Total(upTo(b))
        OBVIOUS
    <3>. HIDE DEF upTo
    <3>. QED
        BY <2>1, <1>1, <1>2, <3>2, <3>3
  <2>2. CASE place[b] < place[c]
    <3>1. /\ upTo(c) \in SUBSET Burns /\ upTo(b) \in SUBSET upTo(c) /\ upTo(b) \in SUBSET Burns
          /\ upTo(c) \ upTo(b) \in SUBSET Burns
          /\ {c} \in SUBSET (upTo(c) \ upTo(b)) /\ c \in Burns
        BY <2>2 DEF UpTo
    <3>2. Total(upTo(c)) = Total(upTo(b)) + Total(upTo(c) \ upTo(b))
        BY <3>1, TotalSubset
    <3>3. Total({c}) <= Total(upTo(c) \ upTo(b)) /\ Total(upTo(c) \ upTo(b)) \in Nat
        BY <3>1, TotalSubset, TotalType
    <3>4. Total({c}) = Amount[c] /\ Amount[c] \in Nat \ {0}
        BY <3>1, TotalOne
    <3>5. g[c] = Total(S) + Total(upTo(c)) /\ g[b] = Total(S) + Total(upTo(b))
        OBVIOUS
    <3>. HIDE DEF upTo
    <3>. QED
        BY <2>2, <1>1, <1>2, <3>2, <3>3, <3>4, <3>5
  <2>. QED
      BY <2>1, <2>2
<1>4. ASSUME NEW b \in S PROVE g[b] = Total(UpTo(S \cup T, g, b))
  <2>1. \A c \in T : ~(g[c] <= g[b])
      BY <1>b, <1>4
  <2>2. UpTo(S \cup T, g, b) = UpTo(S, f, b)
      BY <1>4, <2>1 DEF UpTo
  <2>. QED
      BY <1>4, <2>2 DEF Tiled
<1>5. ASSUME NEW b \in T PROVE g[b] = Total(UpTo(S \cup T, g, b))
  <2>1. \A c \in S : g[c] <= g[b]
      BY <1>b, <1>5
  <2>2. UpTo(S \cup T, g, b) = S \cup upTo(b)
      BY <1>3, <1>5, <2>1 DEF UpTo
  <2>3. upTo(b) \in SUBSET Burns /\ S \cap upTo(b) = {}
      BY DEF UpTo
  <2>4. Total(S \cup upTo(b)) = Total(S) + Total(upTo(b))
      BY <2>3, TotalUnion
  <2>. QED
      BY <1>5, <2>2, <2>4
<1>. QED
    BY <1>4, <1>5 DEF Tiled

-----------------------------------------------------------------------------
(* Types, and the rows of the transport tables.                             *)

\* The columns have their types, and each transport table is tiled.
Books ==
    /\ kind \in [Burns -> Kinds]
    /\ after \in [Burns -> Nat]
    /\ transported \in [Premined -> Int]
    /\ done \subseteq OfKind(rows, "regular")
    /\ \A k \in Kinds : Tiled(after, OfKind(rows, k))

\* The type of a call's burn; only a premined one reads the capacity of its address.
Typed ==
    /\ ckind \in [Clients -> Kinds]
    /\ \A c \in Clients : cpc[c] = "premined" => ckind[c] = "premined"

\* What a step does to the tables.
LEMMA LedgerStep ==
    ASSUME OnceInv, [Next]_vars
    PROVE  \/ /\ UNCHANGED <<unconf, kind, transported, rows, after>>
              /\ \/ done' = done
                 \/ \E b \in OfKind(rows, "regular") : done' = done \cup {b}
           \/ \E c \in Clients :
                 /\ cpc[c] = "write" /\ cpc'[c] \in {"idle", "exists"}
                 /\ cburn[c] \in Burns \ (unconf \cup rows)
                 /\ Writable(c) /\ AddUnconfirmed(cburn[c], ckind[c]) /\ done' = done
           \/ lpc = "remove" /\ RemoveAll /\ done' = done
           \/ InsertAll /\ done' = done
<1>. USE DEF tableVars
<1>1. CASE \E c \in Clients : AddUnconfirmedScpTx(c) \/ AddUnconfirmedRepeats(c)
  <2>1. PICK c \in Clients : AddUnconfirmedScpTx(c) \/ AddUnconfirmedRepeats(c)
      BY <1>1
  <2>2. cpc[c] = "write" /\ cburn[c] \in Burns \ rows /\ done' = done
      BY <2>1 DEF AddUnconfirmedScpTx, AddUnconfirmedRepeats, OnceInv, Shape, Unseen, PastCheck
  <2>3. \/ UNCHANGED <<unconf, kind, transported, rows, after>>
        \/ Writable(c) /\ AddUnconfirmed(cburn[c], ckind[c])
      BY <2>1 DEF AddUnconfirmedScpTx, AddUnconfirmedRepeats
  <2>4. Writable(c) => cburn[c] \notin unconf
      BY DEF Writable
  <2>5. cpc'[c] \in {"idle", "exists"}
      BY <2>1 DEF AddUnconfirmedScpTx, AddUnconfirmedRepeats, Return, Continue, OnceInv, Shape
  <2>. QED
      BY <2>2, <2>3, <2>4, <2>5
<1>2. CASE RemoveUnconfirmed \/ RemoveUnconfirmedRepeats
    BY <1>2 DEF RemoveUnconfirmed, RemoveUnconfirmedRepeats, At
<1>3. CASE ConfirmUnconfirmed
    BY <1>3 DEF ConfirmUnconfirmed
<1>4. CASE ProcessFails
    BY <1>4 DEF ProcessFails
<1>5. CASE \E b \in Burns : Complete(b)
    BY <1>5 DEF Complete
<1>6. CASE UnconfirmedBefore \/ UnconfirmedBeforeRepeats \/ CurrentHeight
              \/ (\E b \in Burns : CheckBurn(b)) \/ UpdateHeight \/ SetConfirmationHeight
              \/ ConfirmRefused \/ Crash
    BY <1>6 DEF UnconfirmedBefore, UnconfirmedBeforeRepeats, ListUnconfirmed, CurrentHeight,
                CheckBurn, UpdateHeight, SetConfirmationHeight, ConfirmRefused, Crash
<1>7. CASE \/ UNCHANGED vars
           \/ FindBlock
           \/ \E d \in 1..MaxReorg : Reorg(d)
           \/ \E b \in Burns : Age(b)
           \/ \E c \in Clients, b \in Burns : Submit(c, b)
           \/ \E c \in Clients : SubmitFails(c)
    BY <1>7 DEF vars, FindBlock, MineBlock, Reorg, Age, Submit, SubmitFails
<1>8. CASE \E c \in Clients :
              \/ CheckBurnIDUnique(c)
              \/ ReadUnconfirmedAmount(c) \/ ReadCompletedSupply(c) \/ CheckQueueAllowance(c)
              \/ CheckPreminedAllowance(c) \/ AddUnconfirmedRefused(c)
    BY <1>8 DEF CheckBurnIDUnique, ReadUnconfirmedAmount, ReadCompletedSupply,
                CheckQueueAllowance, CheckPreminedAllowance, AddUnconfirmedRefused
<1>. QED
    BY <1>1, <1>2, <1>3, <1>4, <1>5, <1>6, <1>7, <1>8 DEF Next, SubmitStep, LoopStep

LEMMA MaxAfterIs ==
    ASSUME NEW S PROVE MaxAfter(S) = Greatest(after, S)
BY DEF MaxAfter, Greatest

LEMMA TypedStep == OnceInv /\ Typed /\ [Next]_vars => Typed'
<1>. SUFFICES ASSUME OnceInv, Typed, [Next]_vars PROVE Typed'
    OBVIOUS
<1>. USE DEF Typed, Kinds, OnceInv, Shape
<1>1. ASSUME NEW c \in Clients, NEW b \in Burns, Submit(c, b) PROVE Typed'
    BY <1>1 DEF Submit, Continue, FindPremined
<1>2. ASSUME NEW c \in Clients, SubmitStep(c) \/ AddUnconfirmedRepeats(c) \/ SubmitFails(c)
      PROVE  Typed'
    BY <1>2 DEF SubmitStep, CheckBurnIDUnique, ReadUnconfirmedAmount, ReadCompletedSupply,
                CheckQueueAllowance, CheckPreminedAllowance, AddUnconfirmedScpTx,
                AddUnconfirmedRefused, AddUnconfirmedRepeats, SubmitFails, Return, Continue
<1>3. CASE Crash
    BY <1>3 DEF Crash
<1>4. CASE \/ UNCHANGED vars \/ FindBlock \/ (\E d \in 1..MaxReorg : Reorg(d))
           \/ (\E b \in Burns : Age(b) \/ Complete(b))
           \/ LoopStep \/ UnconfirmedBeforeRepeats \/ RemoveUnconfirmedRepeats \/ ProcessFails
    BY <1>4 DEF vars, clientVars, FindBlock, MineBlock, Reorg, Age, Complete, LoopStep,
                UnconfirmedBefore, UnconfirmedBeforeRepeats, ListUnconfirmed, CurrentHeight,
                CheckBurn, UpdateHeight, SetConfirmationHeight, RemoveUnconfirmed,
                ConfirmUnconfirmed, ConfirmRefused, RemoveUnconfirmedRepeats, ProcessFails
<1>. QED
    BY <1>1, <1>2, <1>3, <1>4 DEF Next

\* What a removal gives back is at least what its burns have taken, and just that if each
\* of them is listed once.
LEMMA RefundIs ==
    ASSUME Shape, NEW a \in Premined
    PROVE  /\ Refunded(a) \in SUBSET Burns
           /\ Refund(a) \in Nat /\ Total(Refunded(a)) \in Nat
           /\ Total(Refunded(a)) <= Refund(a)
           /\ Single => Refund(a) = Total(Refunded(a))
<1>. DEFINE S == Refunded(a)
<1>1. S \in SUBSET Burns /\ S \subseteq InList(toRemove)
    BY DEF Refunded, InList
<1>2. \A b \in Burns : Amount[b] \in Nat /\ toRemove[b] \in Nat
    BY IntakeAssumption DEF Shape
<1>3. Amount \in [Burns -> Nat] /\ Decrease \in [Burns -> Nat]
  <2>1. \A m, n \in Nat : m * n \in Nat
      OBVIOUS
  <2>. QED
      BY <1>2, <2>1, IntakeAssumption DEF Decrease
<1>4. \A b \in S : Amount[b] <= Decrease[b]
  <2>1. \A n \in Nat, m \in Nat \ {0} : n <= m * n
      OBVIOUS
  <2>2. \A b \in S : b \in Burns /\ toRemove[b] \in Nat \ {0} /\ Decrease[b] = toRemove[b] * Amount[b]
      BY <1>1, <1>2 DEF InList, Decrease
  <2>. QED
      BY <1>2, <2>1, <2>2
<1>5. Refund(a) = SumOf(Decrease, S) /\ Total(S) = SumOf(Amount, S)
    BY DEF Refund, Total, SumOf
<1>6. ASSUME Single PROVE \A b \in S : Decrease[b] <= Amount[b]
  <2>1. ASSUME NEW b \in S PROVE b \in Burns /\ toRemove[b] = 1
    <3>1. b \in Burns /\ toRemove[b] > 0 /\ batch[b] + toRemove[b] + toConfirm[b] <= 1
        BY <1>1, <1>6, <2>1 DEF Single, InList
    <3>2. batch[b] \in Nat /\ toRemove[b] \in Nat /\ toConfirm[b] \in Nat
        BY <3>1 DEF Shape
    <3>. QED
        BY <3>1, <3>2
  <2>2. \A n \in Nat : 1 * n = n
      OBVIOUS
  <2>. QED
      BY <1>2, <2>1, <2>2 DEF Decrease
<1>. HIDE DEF S
<1>7. SumOf(Decrease, S) \in Nat /\ SumOf(Amount, S) \in Nat
    BY <1>1, <1>3, SumType
<1>8. SumOf(Amount, S) <= SumOf(Decrease, S)
    BY <1>1, <1>3, <1>4, SumGrows
<1>9. Single => SumOf(Decrease, S) <= SumOf(Amount, S)
    BY <1>1, <1>3, <1>6, SumGrows
<1>. QED
    BY <1>1, <1>5, <1>7, <1>8, <1>9 DEF S

\* A confirmed batch is put on top of each table, tile on tile.
LEMMA InsertTiles ==
    ASSUME OnceInv, Books, InsertAll, done' = done
    PROVE  Books'
<1>. DEFINE list == InList(toConfirm)
<1>0. PICK place \in [list -> 1..Cardinality(list)] :
        /\ \A b, c \in list : b # c => place[b] # place[c]
        /\ after' = [b \in Burns |->
              IF b \in list
              THEN MaxAfter(OfKind(rows, seenKind[b]))
                   + Total({c \in list : seenKind[c] = seenKind[b] /\ place[c] <= place[b]})
              ELSE after[b]]
    BY DEF InsertAll
<1>2. /\ list \in SUBSET Burns /\ rows \in SUBSET Burns /\ rows \cap list = {}
      /\ kind' = kind /\ transported' = transported /\ rows' = rows \cup list
      /\ \A b \in list : seenKind[b] = kind[b]
    BY KeepsKind DEF InsertAll, MoveRows, OnceInv, Shape, Lists, BurnOnce
<1>. HIDE DEF list
<1>1. /\ \A b \in Burns \ list : after'[b] = after[b]
      /\ \A b \in list : after'[b] = MaxAfter(OfKind(rows, kind[b]))
                   + Total({c \in OfKind(list, kind[b]) : place[c] <= place[b]})
      /\ DOMAIN after' = Burns
  <2>1. ASSUME NEW b \in list
        PROVE  {c \in list : seenKind[c] = seenKind[b] /\ place[c] <= place[b]}
                 = {c \in OfKind(list, kind[b]) : place[c] <= place[b]}
      BY <1>2, <2>1 DEF OfKind
  <2>2. ASSUME NEW b \in list
        PROVE  after'[b] = MaxAfter(OfKind(rows, seenKind[b]))
                   + Total({c \in list : seenKind[c] = seenKind[b] /\ place[c] <= place[b]})
      BY <1>0, <1>2
  <2>3. ASSUME NEW b \in list PROVE seenKind[b] = kind[b]
      BY <1>2
  <2>. QED
      BY <1>0, <2>1, <2>2, <2>3
<1>3. kind \in [Burns -> Kinds] /\ after \in [Burns -> Nat]
    BY DEF Books
<1>4. \A k : OfKind(rows, k) \in SUBSET Burns /\ OfKind(list, k) \in SUBSET Burns
    BY <1>2 DEF OfKind
<1>5. \A k \in Kinds : /\ MaxAfter(OfKind(rows, k)) = Total(OfKind(rows, k))
                       /\ Total(OfKind(rows, k)) \in Nat
  <2>. TAKE k \in Kinds
  <2>1. Tiled(after, OfKind(rows, k))
      BY DEF Books
  <2>. QED
      BY <1>3, <1>4, <2>1, MaxAfterIs, TiledAddsUp, TotalType
<1>6. \A b \in list :
        after'[b] = Total(OfKind(rows, kind[b]))
                      + Total({c \in OfKind(list, kind[b]) : place[c] <= place[b]})
    BY <1>1, <1>2, <1>3, <1>5
<1>7. \A b \in list : Total({c \in OfKind(list, kind[b]) : place[c] <= place[b]}) \in Nat
  <2>1. \A b \in list : {c \in OfKind(list, kind[b]) : place[c] <= place[b]} \in SUBSET Burns
      BY <1>4
  <2>. QED
      BY <2>1, TotalType
<1>8. after' \in [Burns -> Nat]
  <2>1. \A b \in list : kind[b] \in Kinds
      BY <1>2, <1>3
  <2>a. ASSUME NEW b \in Burns, b \notin list PROVE after'[b] \in Nat
      BY <1>1, <1>3, <2>a
  <2>b. ASSUME NEW b \in list PROVE after'[b] \in Nat
    <3>1. Total(OfKind(rows, kind[b])) \in Nat
        BY <1>5, <2>1
    <3>2. Total({c \in OfKind(list, kind[b]) : place[c] <= place[b]}) \in Nat
        BY <1>7
    <3>3. after'[b] = Total(OfKind(rows, kind[b]))
                        + Total({c \in OfKind(list, kind[b]) : place[c] <= place[b]})
        BY <1>6
    <3>. QED
        BY <3>1, <3>2, <3>3
  <2>2. \A b \in Burns : after'[b] \in Nat
      BY <2>a, <2>b
  <2>. QED
      BY <1>0, <2>2
<1>9. ASSUME NEW k \in Kinds PROVE Tiled(after', OfKind(rows, k)')
  <2>. DEFINE S == OfKind(rows, k)
              T == OfKind(list, k)
              pl == [b \in T |-> place[b]]
  <2>1. OfKind(rows, k)' = S \cup T
      BY <1>2 DEF OfKind
  <2>2. S \in SUBSET Burns /\ T \in SUBSET Burns /\ S \cap T = {} /\ Tiled(after, S)
      BY <1>2, <1>4 DEF OfKind, Books
  <2>3. T \subseteq list /\ \A b \in T : kind[b] = k
      BY DEF OfKind
  <2>4. pl \in [T -> Int] /\ \A b, c \in T : b # c => pl[b] # pl[c]
      BY <1>0, <2>3
  <2>5. \A b \in S : after'[b] = after[b]
      BY <1>1, <1>2 DEF OfKind
  <2>6. \A b \in T : {c \in T : place[c] <= place[b]} = UpTo(T, pl, b)
      BY DEF UpTo
  <2>7. \A b \in T : after'[b] = Total(S) + Total(UpTo(T, pl, b))
      BY <1>6, <2>3, <2>6
  <2>8. after \in [Burns -> Nat] /\ after' \in [Burns -> Nat]
      BY <1>3, <1>8
  <2>9. Tiled(after', S \cup T)
    <3>. HIDE DEF S, T, pl
    <3>. QED
        BY <2>2, <2>4, <2>5, <2>7, <2>8, TiledAbove
  <2>. QED
      BY <2>1, <2>9
<1>10. done' \subseteq OfKind(rows, "regular")'
    BY <1>2 DEF Books, OfKind
<1>. QED
    BY <1>2, <1>3, <1>8, <1>9, <1>10 DEF Books

LEMMA BooksStep == OnceInv /\ Typed /\ Books /\ [Next]_vars => Books'
<1>. SUFFICES ASSUME OnceInv, Typed, Books, [Next]_vars PROVE Books'
    OBVIOUS
<1>1. CASE /\ UNCHANGED <<unconf, kind, transported, rows, after>>
           /\ \/ done' = done
              \/ \E b \in OfKind(rows, "regular") : done' = done \cup {b}
    BY <1>1 DEF Books, OfKind
<1>2. ASSUME NEW c \in Clients, cburn[c] \in Burns \ (unconf \cup rows),
             AddUnconfirmed(cburn[c], ckind[c]), done' = done
      PROVE  Books'
  <2>. DEFINE b == cburn[c]
  <2>1. ckind[c] \in Kinds /\ Amount[b] \in Nat
      BY <1>2, TotalOne DEF Typed
  <2>2. kind' \in [Burns -> Kinds]
      BY <1>2, <2>1 DEF AddUnconfirmed, Books
  <2>a. transported' \in [Premined -> Int]
    <3>1. transported \in [Premined -> Int]
        BY DEF Books
    <3>2. \/ transported' = transported
          \/ transported' = [transported EXCEPT ![Home[b]] = transported[Home[b]] + Amount[b]]
        BY <1>2 DEF AddUnconfirmed
    <3>. HIDE DEF b
    <3>. QED
        BY <2>1, <3>1, <3>2
  <2>3. after' = after /\ rows' = rows /\ \A a \in rows : kind'[a] = kind[a]
      BY <1>2 DEF AddUnconfirmed, Books, OnceInv, Shape
  <2>4. \A k : OfKind(rows, k)' = OfKind(rows, k)
      BY <2>3 DEF OfKind
  <2>. QED
      BY <1>2, <2>2, <2>a, <2>3, <2>4 DEF Books
<1>3. CASE RemoveAll /\ done' = done
  <2>3. transported' \in [Premined -> Int]
    <3>1. transported' = [a \in Premined |-> transported[a] - Refund(a)]
        BY <1>3 DEF RemoveAll
    <3>2. transported \in [Premined -> Int] /\ \A a \in Premined : Refund(a) \in Nat
        BY RefundIs DEF Books, OnceInv
    <3>. QED
        BY <3>1, <3>2
  <2>4. UNCHANGED <<kind, rows, after>>
      BY <1>3 DEF RemoveAll
  <2>5. \A k : OfKind(rows, k)' = OfKind(rows, k)
      BY <2>4 DEF OfKind
  <2>. QED
      BY <1>3, <2>3, <2>4, <2>5 DEF Books
<1>. QED
    BY <1>1, <1>2, <1>3, InsertTiles, LedgerStep

LEMMA BooksInit == Init => Typed /\ Books
BY DEF Init, Typed, Books, Kinds, OfKind, Tiled

LEMMA BooksHold == StableWhenRetried /\ Spec => [](OnceInv /\ Typed /\ Books)
BY OnceHolds, BooksInit, TypedStep, BooksStep, PTL DEF Spec

\* A row of a transport table ends where the amounts of it and the rows below it add up
\* to, for as long as a burn that is judged twice is judged on one chain: ConfirmUnconfirmed
\* numbers each batch without gap or overlap, which is what the minting half starts from.
THEOREM RowsAlwaysAddUp == StableWhenRetried /\ Spec => []RowsAddUp
<1>1. ASSUME OnceInv, Books PROVE RowsAddUp
  <2>. SUFFICES ASSUME NEW b \in rows
                PROVE  after[b] = Total({c \in OfKind(rows, kind[b]) : after[c] <= after[b]})
      BY DEF RowsAddUp
  <2>1. b \in OfKind(rows, kind[b]) /\ kind[b] \in Kinds
      BY <1>1 DEF OfKind, OnceInv, Shape, Books
  <2>. QED
      BY <1>1, <2>1 DEF Books, Tiled, UpTo
<1>. QED
    BY <1>1, BooksHold, PTL

\* The amounts that queueAllowance reads are numbers, and the completed ones come first.
LEMMA Numbers ==
    ASSUME OnceInv, Books
    PROVE  /\ UnconfirmedAmount("regular") \in Nat
           /\ CompletedQueueSupply \in Nat /\ UncompletedQueueSupply \in Nat
           /\ UncompletedQueueSupply = Total(OfKind(rows, "regular"))
           /\ CompletedQueueSupply <= UncompletedQueueSupply
<1>. DEFINE R == OfKind(rows, "regular")
<1>1. /\ OfKind(unconf, "regular") \in SUBSET Burns /\ R \in SUBSET Burns
      /\ done \in SUBSET Burns /\ done \subseteq R
    BY DEF OnceInv, Shape, OfKind, Books
<1>2. after \in [Burns -> Nat] /\ Tiled(after, R)
    BY DEF Books, Kinds
<1>3. CompletedQueueSupply = Greatest(after, done) /\ UncompletedQueueSupply = Greatest(after, R)
    BY MaxAfterIs DEF CompletedQueueSupply, UncompletedQueueSupply
<1>. HIDE DEF R
<1>4. /\ Greatest(after, done) \in Nat
      /\ done # {} => \E b \in done : Greatest(after, done) = after[b]
      /\ Greatest(after, R) \in Nat
      /\ \A b \in R : after[b] <= Greatest(after, R)
    BY <1>1, <1>2, GreatestIs
<1>5. Greatest(after, done) <= Greatest(after, R)
  <2>1. CASE done = {}
      BY <1>4, <2>1 DEF Greatest
  <2>2. CASE done # {}
      BY <1>1, <1>4, <2>2
  <2>. QED
      BY <2>1, <2>2
<1>6. UnconfirmedAmount("regular") \in Nat
    BY <1>1, TotalType DEF UnconfirmedAmount
<1>7. Greatest(after, R) = Total(R)
    BY <1>1, <1>2, TiledAddsUp
<1>8. UncompletedQueueSupply = Total(R) /\ CompletedQueueSupply <= UncompletedQueueSupply
    BY <1>3, <1>5, <1>7
<1>9. CompletedQueueSupply \in Nat /\ UncompletedQueueSupply \in Nat
    BY <1>3, <1>4
<1>. QED
    BY <1>6, <1>8, <1>9 DEF R

\* The rest of TypeOK: bounded counters and what the calls read.
Bounded ==
    /\ height \in 0..MaxHeight
    /\ blockOf \in [Burns -> 0..MaxHeight]
    /\ confHeight \in [Burns -> 0..MaxHeight]
    /\ seenHeight \in [Burns -> 0..MaxHeight]
    /\ curHeight \in 0..MaxHeight
    /\ seenAmount \in [Clients -> Nat]
    /\ seenCompleted \in [Clients -> Nat]
    /\ faults \in 0..MaxFaults

LEMMA BoundedStep == OnceInv /\ Books /\ Bounded /\ [Next]_vars => Bounded'
<1>. SUFFICES ASSUME OnceInv, Books, Bounded, [Next]_vars PROVE Bounded'
    OBVIOUS
<1>. USE IntakeAssumption DEF Bounded, chainVars, tableVars, clientVars, loopVars, Fault
<1>1. CASE FindBlock
    BY <1>1 DEF FindBlock, MineBlock
<1>2. ASSUME NEW d \in 1..MaxReorg, Reorg(d) PROVE Bounded'
  <2>. DEFINE orphans == {b \in Burns : blockOf[b] > height - d}
  <2>1. PICK f \in [orphans -> {0} \cup (height - d + 1)..(height + 1)] :
          blockOf' = [b \in Burns |-> IF b \in orphans THEN f[b] ELSE blockOf[b]]
      BY <1>2 DEF Reorg
  <2>2. \A b \in orphans : f[b] \in 0..MaxHeight
      BY <1>2, <2>1 DEF Reorg
  <2>3. blockOf' \in [Burns -> 0..MaxHeight]
      BY <2>1, <2>2
  <2>. QED
      BY <1>2, <2>3 DEF Reorg
<1>3. ASSUME NEW c \in Clients, SubmitStep(c) \/ AddUnconfirmedRepeats(c) \/ SubmitFails(c)
      PROVE  Bounded'
  <2>1. confHeight' = confHeight /\ UNCHANGED <<chainVars, loopVars>> /\ faults' \in 0..MaxFaults
      BY <1>3 DEF SubmitStep, CheckBurnIDUnique, ReadUnconfirmedAmount, ReadCompletedSupply,
                CheckQueueAllowance, CheckPreminedAllowance, AddUnconfirmedScpTx, AddUnconfirmed,
                AddUnconfirmedRefused, AddUnconfirmedRepeats, SubmitFails
  <2>2. seenAmount' \in [Clients -> Nat] /\ seenCompleted' \in [Clients -> Nat]
      BY <1>3, Numbers
         DEF SubmitStep, CheckBurnIDUnique, ReadUnconfirmedAmount, ReadCompletedSupply,
                CheckQueueAllowance, CheckPreminedAllowance, AddUnconfirmedScpTx,
                AddUnconfirmedRefused, AddUnconfirmedRepeats, SubmitFails, Return
  <2>. QED
      BY <2>1, <2>2
<1>4. CASE UnconfirmedBefore \/ CurrentHeight \/ UpdateHeight
    BY <1>4 DEF UnconfirmedBefore, ListUnconfirmed, NoFault, CurrentHeight, UpdateHeight
<1>a. CASE UnconfirmedBeforeRepeats
  <2>1. PICK n \in 1..(MaxFaults - faults) : ListUnconfirmed(n + 1) /\ faults' = faults + n
      BY <1>a DEF UnconfirmedBeforeRepeats
  <2>. QED
      BY <2>1 DEF ListUnconfirmed
<1>5. ASSUME NEW b \in Burns, CheckBurn(b) PROVE Bounded'
    BY <1>5 DEF CheckBurn
<1>6. CASE SetConfirmationHeight
    BY <1>6 DEF SetConfirmationHeight, SetHeights
<1>7. CASE RemoveUnconfirmed \/ RemoveUnconfirmedRepeats
    BY <1>7 DEF RemoveUnconfirmed, RemoveUnconfirmedRepeats, RemoveAll, DeleteUnconfirmed
<1>8. CASE ConfirmUnconfirmed \/ ConfirmRefused
    BY <1>8 DEF ConfirmUnconfirmed, ConfirmRefused, InsertAll, MoveRows, DeleteUnconfirmed, LoopReturns
<1>9. CASE ProcessFails
    BY <1>9 DEF ProcessFails, SetHeights, InsertAll, MoveRows, DeleteUnconfirmed, LoopReturns
<1>10. CASE Crash
    BY <1>10 DEF Crash, LoopReturns
<1>11. CASE \/ UNCHANGED vars
            \/ \E b \in Burns : Age(b) \/ Complete(b)
            \/ \E c \in Clients, b \in Burns : Submit(c, b)
    BY <1>11 DEF vars, Age, Complete, Submit
<1>. QED
    BY <1>1, <1>2, <1>3, <1>4, <1>5, <1>6, <1>7, <1>8, <1>9, <1>10, <1>11, <1>a DEF Next, LoopStep

LEMMA BoundedHolds == StableWhenRetried /\ Spec => []Bounded
<1>1. Init => Bounded
    BY IntakeAssumption DEF Init, Bounded
<1>. QED
    BY <1>1, BoundedStep, BooksHold, PTL DEF Spec

\* Every variable keeps its type; the completed rows are rows, an aged burn has a row.
THEOREM IntakeTypes == StableWhenRetried /\ Spec => []TypeOK
<1>1. OnceInv /\ Typed /\ Books /\ Bounded => TypeOK
    BY DEF OnceInv, Shape, PastCheck, Typed, Books, OfKind, Bounded, TypeOK
<1>. QED
    BY <1>1, BooksHold, BoundedHolds, PTL

-----------------------------------------------------------------------------
(* Premined addresses, if no COMMIT of RemoveUnconfirmed that took effect   *)
(* is reported as failed, and the read of a pass is not retried.            *)

\* No COMMIT of RemoveUnconfirmed takes effect and reports an error.
RemovalTold == ~RemovalMayRepeat

\* What an address has in the tables.
Held(a) == {b \in OfKind(unconf \cup rows, "premined") : Home[b] = a}

\* Until the rows of the list are deleted, they are there, and of the kind that was read.
RemovalListed ==
    lpc \in {"height", "check", "set", "remove"} =>
        \A b \in InList(toRemove) : b \in unconf /\ seenKind[b] = kind[b]

\* Accounting and limit, with the list that keeps them through the removal.
Accounts ==
    /\ \A a \in Premined : transported[a] = Total(Held(a)) /\ transported[a] <= AllowedMax[a]
    /\ RemovalListed

LEMMA ListedStep == RemovalTold /\ OnceInv /\ RemovalListed /\ [Next]_vars => RemovalListed'
<1>. SUFFICES ASSUME RemovalTold, OnceInv, RemovalListed, [Next]_vars PROVE RemovalListed'
    OBVIOUS
<1>. USE EmptyHas DEF RemovalListed, At
<1>1. ASSUME NEW n \in Nat \ {0}, ListUnconfirmed(n) PROVE RemovalListed'
  <2>1. toRemove' = EmptyList
      BY <1>1 DEF ListUnconfirmed, OnceInv, Shape
  <2>. QED
      BY <2>1
<1>2. ASSUME NEW b \in Burns, CheckBurn(b) PROVE RemovalListed'
  <2>1. lpc = "check" /\ b \in InList(batch) /\ UNCHANGED <<unconf, kind, seenKind>>
      BY <1>2, CheckHas DEF CheckBurn, OnceInv, tableVars
  <2>2. b \in unconf /\ seenKind[b] = kind[b]
      BY <2>1 DEF OnceInv, Lists, Shape
  <2>3. \A c \in InList(toRemove') : c \in InList(toRemove) \/ c = b
      BY <1>2, CheckSays DEF OnceInv
  <2>. QED
      BY <2>1, <2>2, <2>3
<1>3. CASE CurrentHeight \/ UpdateHeight \/ SetConfirmationHeight
    BY <1>3 DEF CurrentHeight, UpdateHeight, SetConfirmationHeight, tableVars
<1>4. CASE RemoveUnconfirmed \/ RemoveUnconfirmedRepeats
    BY <1>4 DEF RemoveUnconfirmed, RemoveUnconfirmedRepeats, RemovalTold
<1>5. CASE ConfirmUnconfirmed \/ ConfirmRefused \/ ProcessFails \/ Crash
    BY <1>5 DEF ConfirmUnconfirmed, ConfirmRefused, ProcessFails, Crash, LoopReturns
<1>6. CASE Aside
  <2>1. UNCHANGED <<lpc, toRemove, seenKind>>
      BY <1>6, AsideLeaves DEF loopVars
  <2>2. \/ UNCHANGED <<unconf, kind>>
        \/ \E c \in Clients : cburn[c] \notin unconf /\ AddUnconfirmed(cburn[c], ckind[c])
      BY <1>6 DEF Aside, vars, FindBlock, MineBlock, Reorg, Age, Complete, Submit, SubmitStep,
                CheckBurnIDUnique, ReadUnconfirmedAmount, ReadCompletedSupply,
                CheckQueueAllowance, CheckPreminedAllowance, AddUnconfirmedScpTx, Writable,
                AddUnconfirmedRefused, AddUnconfirmedRepeats, SubmitFails, tableVars
  <2>3. unconf \subseteq unconf' /\ \A b \in unconf : kind'[b] = kind[b]
      BY <2>2 DEF AddUnconfirmed, OnceInv, Shape
  <2>. QED
      BY <2>1, <2>3
<1>. QED
    BY <1>1, <1>2, <1>3, <1>4, <1>5, <1>6, ListedOnce, RepeatsHave DEF Next, LoopStep, Aside

\* An admission adds its burn to what its address holds, and the CHECK bounds the sum.
LEMMA AdmitHeld ==
    ASSUME OnceInv, Typed, Books, NEW a \in Premined, NEW c \in Clients,
           cburn[c] \in Burns \ (unconf \cup rows), Writable(c), AddUnconfirmed(cburn[c], ckind[c])
    PROVE  \/ Total(Held(a)') = Total(Held(a)) /\ transported'[a] = transported[a]
           \/ /\ Total(Held(a)') = Total(Held(a)) + Amount[cburn[c]]
              /\ transported'[a] = transported[a] + Amount[cburn[c]]
              /\ transported'[a] <= AllowedMax[a]
<1>. DEFINE b == cburn[c]
            added == ckind[c] = "premined" /\ Home[b] = a
<1>1. Held(a) \in SUBSET Burns /\ b \in Burns /\ b \notin Held(a)
    BY DEF Held, OfKind, OnceInv, Shape
<1>2. transported \in [Premined -> Int]
    BY DEF Books
<1>3. CASE ~added
  <2>1. Held(a)' = Held(a)
      BY <1>1, <1>3 DEF Held, OfKind, AddUnconfirmed, Books
  <2>2. transported'[a] = transported[a]
      BY <1>2, <1>3 DEF AddUnconfirmed
  <2>. QED
      BY <2>1, <2>2
<1>4. CASE added
  <2>1. Held(a)' = Held(a) \cup {b}
      BY <1>1, <1>4 DEF Held, OfKind, AddUnconfirmed, Books
  <2>2. Total(Held(a) \cup {b}) = Total(Held(a)) + Amount[b]
    <3>1. {b} \in SUBSET Burns /\ Held(a) \cap {b} = {}
        BY <1>1
    <3>2. Total(Held(a) \cup {b}) = Total(Held(a)) + Total({b})
        BY <1>1, <3>1, TotalUnion
    <3>. QED
        BY <1>1, <3>2, TotalOne
  <2>3. transported'[a] = transported[a] + Amount[b] /\ transported[a] + Amount[b] <= AllowedMax[a]
      BY <1>2, <1>4 DEF AddUnconfirmed, Writable, WithinAllowedMax
  <2>. QED
      BY <2>1, <2>2, <2>3
<1>. QED
    BY <1>3, <1>4

\* The rows that a removal deletes are those it refunds.
LEMMA RemoveHeld ==
    ASSUME OnceInv, RemovalListed, NEW a \in Premined, lpc = "remove", RemoveAll
    PROVE  /\ Refunded(a) \in SUBSET Held(a) /\ Held(a) \in SUBSET Burns
           /\ Held(a)' = Held(a) \ Refunded(a)
           /\ transported'[a] = transported[a] - Refund(a)
           /\ Total(Held(a)) = Total(Refunded(a)) + Total(Held(a)')
           /\ Total(Held(a)') \in Nat
<1>1. \A b \in InList(toRemove) : b \in unconf /\ seenKind[b] = kind[b] /\ b \notin rows
    BY DEF RemovalListed, OnceInv, BurnOnce
<1>2. Refunded(a) \in SUBSET Held(a) /\ Held(a) \in SUBSET Burns
    BY <1>1 DEF Refunded, Held, OfKind, OnceInv, Shape
<1>3. Held(a)' = Held(a) \ Refunded(a)
    BY <1>1 DEF RemoveAll, DeleteUnconfirmed, Refunded, Held, OfKind
<1>4. transported'[a] = transported[a] - Refund(a)
    BY DEF RemoveAll
<1>5. Total(Held(a)) = Total(Refunded(a)) + Total(Held(a) \ Refunded(a))
    BY <1>2, TotalSubset
<1>6. Total(Held(a) \ Refunded(a)) \in Nat
  <2>1. Held(a) \ Refunded(a) \in SUBSET Burns
      BY <1>2
  <2>. QED
      BY <2>1, TotalType
<1>. QED
    BY <1>2, <1>3, <1>4, <1>5, <1>6

\* A removal refunds what the rows it deletes have taken.
LEMMA RemoveAccounts ==
    ASSUME OnceInv, Single, Accounts, NEW a \in Premined, lpc = "remove", RemoveAll
    PROVE  transported'[a] = Total(Held(a)') /\ transported'[a] <= AllowedMax[a]
<1>1. Refund(a) = Total(Refunded(a)) /\ Refund(a) \in Nat
    BY RefundIs DEF OnceInv
<1>2. /\ transported'[a] = transported[a] - Refund(a)
      /\ Total(Held(a)) = Total(Refunded(a)) + Total(Held(a)') /\ Total(Held(a)') \in Nat
    BY RemoveHeld DEF Accounts
<1>3. /\ transported[a] = Total(Held(a)) /\ transported[a] <= AllowedMax[a]
      /\ AllowedMax[a] \in Nat
    BY IntakeAssumption DEF Accounts
<1>. QED
    BY <1>1, <1>2, <1>3

\* A confirmation leaves an address what it holds, in another table.
LEMMA InsertHeld ==
    ASSUME OnceInv, InsertAll, NEW a
    PROVE  Held(a)' = Held(a) /\ transported' = transported
<1>1. UNCHANGED <<kind, transported>> /\ unconf' \cup rows' = unconf \cup rows
    BY KeepsKind DEF InsertAll, MoveRows, DeleteUnconfirmed, OnceInv, Shape
<1>. QED
    BY <1>1 DEF Held, OfKind

LEMMA AccountsStep ==
    RemovalTold /\ Single /\ OnceInv /\ Typed /\ Books /\ Accounts /\ [Next]_vars => Accounts'
<1>. SUFFICES ASSUME RemovalTold, Single, OnceInv, Typed, Books, Accounts, [Next]_vars, NEW a \in Premined
              PROVE  transported'[a] = Total(Held(a)') /\ transported'[a] <= AllowedMax[a]
    BY ListedStep DEF Accounts
<1>1. CASE UNCHANGED <<unconf, kind, transported, rows>>
    BY <1>1 DEF Accounts, Held, OfKind
<1>2. CASE InsertAll
    BY <1>2, InsertHeld DEF Accounts
<1>3. Total(Held(a)) = transported[a] /\ transported[a] <= AllowedMax[a]
    BY DEF Accounts
<1>. QED
    BY <1>1, <1>2, <1>3, AdmitHeld, RemoveAccounts, LedgerStep

LEMMA AccountsHold == RemovalTold /\ ReadsCommit /\ Spec => []Accounts
<1>1. ASSUME RemovalTold, ReadsCommit PROVE Spec => []Accounts
  <2>1. Init => Accounts
    <3>1. Init => \A a : Held(a) = {}
        BY DEF Init, Held, OfKind
    <3>2. Init => RemovalListed
        BY EmptyHas DEF Init, RemovalListed
    <3>3. Init => \A a \in Premined : transported[a] = 0 /\ AllowedMax[a] \in Nat
        BY IntakeAssumption DEF Init
    <3>. QED
        BY <3>1, <3>2, <3>3, TotalEmpty DEF Accounts
  <2>2. Single /\ OnceInv /\ Typed /\ Books /\ Accounts /\ [Next]_vars => Accounts'
      BY <1>1, AccountsStep
  <2>3. StableWhenRetried
      BY <1>1 DEF StableWhenRetried
  <2>. QED
      BY <1>1, <2>1, <2>2, <2>3, SingleHolds, BooksHold, PTL DEF Spec
<1>. QED
    BY <1>1

\* The transported column is what the address's admitted burns add up to: submissions,
\* their retried closures, removals, confirmations, failed calls and crashes keep the two
\* equal.  Both conditions are needed: a removal that is repeated, or whose list holds a
\* burn twice because the read of the pass was retried, decreases the column again.
THEOREM PreminedAlwaysAccounted == RemovalTold /\ ReadsCommit /\ Spec => []PreminedAccounting
<1>1. Accounts => PreminedAccounting
    BY DEF Accounts, PreminedAccounting, PreminedInUse, Held
<1>. QED
    BY <1>1, AccountsHold, PTL

\* Any number of concurrent submissions stays within the limit of a premined address:
\* the UPDATE and its CHECK decide, not the allowance that was read before.  It needs the
\* same two conditions, since the CHECK compares the column and not the burns.
THEOREM PreminedAlwaysWithin == RemovalTold /\ ReadsCommit /\ Spec => []PreminedWithinLimit
<1>1. Accounts => PreminedWithinLimit
    BY DEF Accounts, PreminedWithinLimit, PreminedInUse, Held
<1>. QED
    BY <1>1, AccountsHold, PTL

\* What is left of it if the read of a pass may be retried.
Charged ==
    /\ \A a \in Premined : transported[a] <= Total(Held(a)) /\ transported[a] <= AllowedMax[a]
    /\ RemovalListed

LEMMA ChargedStep == RemovalTold /\ OnceInv /\ Typed /\ Books /\ Charged /\ [Next]_vars => Charged'
<1>. SUFFICES ASSUME RemovalTold, OnceInv, Typed, Books, Charged, [Next]_vars, NEW a \in Premined
              PROVE  transported'[a] <= Total(Held(a)') /\ transported'[a] <= AllowedMax[a]
    BY ListedStep DEF Charged
<1>1. /\ transported[a] <= Total(Held(a)) /\ transported[a] <= AllowedMax[a]
      /\ transported[a] \in Int /\ AllowedMax[a] \in Nat
    BY IntakeAssumption DEF Charged, Books
<1>2. Held(a) \in SUBSET Burns /\ Total(Held(a)) \in Nat
  <2>1. Held(a) \in SUBSET Burns
      BY DEF Held, OfKind, OnceInv, Shape
  <2>. QED
      BY <2>1, TotalType
<1>3. CASE UNCHANGED <<unconf, kind, transported, rows>>
    BY <1>1, <1>3 DEF Held, OfKind
<1>4. CASE InsertAll
    BY <1>1, <1>4, InsertHeld
<1>5. ASSUME NEW c \in Clients, cburn[c] \in Burns \ (unconf \cup rows), Writable(c),
             AddUnconfirmed(cburn[c], ckind[c])
      PROVE  transported'[a] <= Total(Held(a)') /\ transported'[a] <= AllowedMax[a]
  <2>1. Amount[cburn[c]] \in Nat
      BY <1>5, TotalOne
  <2>. QED
      BY <1>1, <1>2, <1>5, <2>1, AdmitHeld
<1>6. CASE lpc = "remove" /\ RemoveAll
  <2>1. /\ transported'[a] = transported[a] - Refund(a)
        /\ Total(Held(a)) = Total(Refunded(a)) + Total(Held(a)') /\ Total(Held(a)') \in Nat
      BY <1>6, RemoveHeld DEF Charged
  <2>2. Total(Refunded(a)) <= Refund(a) /\ Refund(a) \in Nat /\ Total(Refunded(a)) \in Nat
      BY RefundIs DEF OnceInv
  <2>. QED
      BY <1>1, <2>1, <2>2
<1>. QED
    BY <1>3, <1>4, <1>5, <1>6, LedgerStep

\* Where the read of a pass may be retried, on a chain without reorgs, an address is still
\* never charged for more than it holds: what goes wrong then only gives back.  (After a
\* removal that is repeated not even that holds.)
THEOREM PreminedNeverOvercharged ==
    RemovalTold /\ StableWhenRetried /\ Spec
        => [](\A a \in Premined : transported[a] <= PreminedInUse(a) /\ transported[a] <= AllowedMax[a])
<1>1. ASSUME RemovalTold, StableWhenRetried PROVE Spec => []Charged
  <2>1. Init => Charged
    <3>1. Init => \A a : Held(a) = {}
        BY DEF Init, Held, OfKind
    <3>2. Init => RemovalListed
        BY EmptyHas DEF Init, RemovalListed
    <3>3. Init => \A a \in Premined : transported[a] = 0 /\ AllowedMax[a] \in Nat
        BY IntakeAssumption DEF Init
    <3>. QED
        BY <3>1, <3>2, <3>3, TotalEmpty DEF Charged
  <2>2. OnceInv /\ Typed /\ Books /\ Charged /\ [Next]_vars => Charged'
      BY <1>1, ChargedStep
  <2>. QED
      BY <1>1, <2>1, <2>2, BooksHold, PTL DEF Spec
<1>2. Charged => \A a \in Premined : transported[a] <= PreminedInUse(a) /\ transported[a] <= AllowedMax[a]
    BY DEF Charged, PreminedInUse, Held
<1>3. ASSUME RemovalTold, StableWhenRetried
      PROVE  Spec => [](\A a \in Premined : transported[a] <= PreminedInUse(a)
                                             /\ transported[a] <= AllowedMax[a])
  <2>1. Spec => []Charged
      BY <1>1, <1>3
  <2>. QED
      BY <1>2, <2>1, PTL
<1>. QED
    BY <1>3
=============================================================================
