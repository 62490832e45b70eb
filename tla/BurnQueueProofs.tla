--------------------------- MODULE BurnQueueProofs ---------------------------
(***************************************************************************)
(* Proofs about the limits of the queue in BurnIntake: with one call of      *)
(* SubmitScpTx at a time they hold, whatever the loops do between its reads; *)
(* with n calls the total supply is overrun by at most n - 1 burns.          *)
(***************************************************************************)
EXTENDS BurnSumProofs

-----------------------------------------------------------------------------
(* The queue and the total supply, if calls of SubmitScpTx do not overlap.   *)

\* At most one client, so no two calls overlap; the loops still run beside it.
OneCall == \A c, d \in Clients : c = d

\* The three amounts that queueAllowance reads.
Waiting == UnconfirmedAmount("regular")
Queued == UncompletedQueueSupply
Completed == CompletedQueueSupply

\* What the call knows: the burns wait for no more than it read, no less is completed,
\* and a regular burn it will insert fits.
Fits(c) ==
    /\ Waiting + Queued - Completed + Amount[cburn[c]] <= QueueSizeLimit
    /\ Waiting + Queued + Amount[cburn[c]] <= TotalSupply

Knows(c) ==
    /\ cpc[c] = "completed" => Waiting <= seenAmount[c]
    /\ cpc[c] = "uncompleted" => Waiting <= seenAmount[c] /\ seenCompleted[c] <= Completed
    /\ cpc[c] = "write" /\ ckind[c] = "regular" => Fits(c)

QueueInv ==
    /\ QueueWithinLimit
    /\ SupplyWithinTotal
    /\ \A c \in Clients : Knows(c)

Amounts == Waiting \in Nat /\ Queued \in Nat /\ Completed \in Nat

LEMMA AmountsNow == OnceInv /\ Books => Amounts
BY Numbers DEF Amounts, Waiting, Queued, Completed

LEMMA AmountsNext == (OnceInv /\ Books => Amounts)'
BY AmountsNow, PTL

\* The supplies in terms of the lemmas above.
LEMMA SupplyIs ==
    /\ Queued = Greatest(after, OfKind(rows, "regular"))
    /\ Queued' = Greatest(after', OfKind(rows, "regular")')
    /\ Completed = Greatest(after, done)
    /\ Completed' = Greatest(after', done')
BY DEF Queued, Completed, UncompletedQueueSupply, CompletedQueueSupply, MaxAfter, Greatest

\* The minting half only adds to the completed supply.
LEMMA CompletedGrows ==
    ASSUME Books, OnceInv, after' = after, NEW b \in OfKind(rows, "regular"), done' = done \cup {b}
    PROVE  Completed <= Completed'
<1>1. /\ Completed = Greatest(after, done) /\ Completed' = Greatest(after, done \cup {b})
    BY SupplyIs
<1>2. /\ done \in SUBSET Burns /\ done \cup {b} \in SUBSET Burns /\ after \in [Burns -> Nat]
    BY DEF Books, OnceInv, Shape, OfKind
<1>3. /\ \A a \in done \cup {b} : after[a] <= Greatest(after, done \cup {b})
      /\ done # {} => \E a \in done : Greatest(after, done) = after[a]
      /\ Greatest(after, done \cup {b}) \in Nat
    BY <1>2, GreatestIs
<1>4. CASE done = {}
    BY <1>1, <1>3, <1>4 DEF Greatest
<1>5. CASE done # {}
    BY <1>1, <1>3, <1>5
<1>. QED
    BY <1>4, <1>5

\* The end of the queue moves up by the regular burns of the batch.
LEMMA InsertMoves ==
    ASSUME OnceInv, Books, InsertAll, done' = done
    PROVE  /\ Waiting' <= Waiting
           /\ Waiting' + Queued' = Waiting + Queued
           /\ Queued <= Queued'
           /\ Completed' = Completed
<1>. DEFINE W == OfKind(unconf, "regular")
            R == OfKind(rows, "regular")
            T == OfKind(InList(toConfirm), "regular")
<1>1. /\ W \in SUBSET Burns /\ R \in SUBSET Burns /\ T \in SUBSET W /\ R \cap T = {}
      /\ OfKind(unconf, "regular")' = W \ T /\ OfKind(rows, "regular")' = R \cup T
  <2>1. kind' = kind /\ InList(toConfirm) \subseteq unconf /\ InList(toConfirm) \cap rows = {}
      BY KeepsKind DEF OnceInv, Shape, BurnOnce
  <2>2. unconf' = unconf \ InList(toConfirm) /\ rows' = rows \cup InList(toConfirm)
      BY DEF InsertAll, MoveRows, DeleteUnconfirmed
  <2>3. unconf \subseteq Burns /\ rows \subseteq Burns
      BY DEF OnceInv, Shape
  <2>. QED
      BY <2>1, <2>2, <2>3 DEF OfKind
<1>2. Queued = Total(R)
    BY Numbers DEF Queued
<1>3. Queued' = Total(R \cup T)
  <2>1. Books'
      BY InsertTiles
  <2>2. Tiled(after', R \cup T) /\ after' \in [Burns -> Nat]
      BY <1>1, <2>1 DEF Books, Kinds
  <2>3. R \cup T \in SUBSET Burns
      BY <1>1
  <2>4. Queued' = Greatest(after', R \cup T)
      BY <1>1, SupplyIs
  <2>. HIDE DEF R, T
  <2>. QED
      BY <2>2, <2>3, <2>4, TiledAddsUp
<1>4. Waiting = Total(W) /\ Waiting' = Total(W \ T)
    BY <1>1 DEF Waiting, UnconfirmedAmount
<1>5. Completed' = Completed
  <2>1. \A b \in done : after'[b] = after[b]
      BY KeepsKind DEF InsertAll, Books, OfKind, OnceInv, Shape, BurnOnce
  <2>2. after \in [Burns -> Nat] /\ after' \in [Burns -> Nat] /\ done \in SUBSET Burns
      BY InsertTiles DEF Books, OfKind, OnceInv, Shape
  <2>. QED
      BY <2>1, <2>2, SupplyIs, GreatestSame
<1>. HIDE DEF W, R, T
<1>6. Total(W) = Total(T) + Total(W \ T)
    BY <1>1, TotalSubset
<1>7. Total(R \cup T) = Total(R) + Total(T)
  <2>1. T \in SUBSET Burns
      BY <1>1
  <2>. QED
      BY <1>1, <2>1, TotalUnion
<1>8. Total(T) \in Nat /\ Total(R) \in Nat /\ Total(W \ T) \in Nat
  <2>1. T \in SUBSET Burns /\ W \ T \in SUBSET Burns
      BY <1>1
  <2>. QED
      BY <1>1, <2>1, TotalType
<1>. QED
    BY <1>2, <1>3, <1>4, <1>5, <1>6, <1>7, <1>8

\* Only the insertion of a regular burn makes the queue longer.
LEMMA AmountsStep ==
    ASSUME OnceInv, Typed, Books, [Next]_vars
    PROVE  \/ /\ Waiting' <= Waiting
              /\ Waiting' + Queued' <= Waiting + Queued
              /\ Queued <= Queued'
              /\ Completed <= Completed'
           \/ \E c \in Clients :
                 /\ cpc[c] = "write" /\ ckind[c] = "regular" /\ cburn[c] \in Burns
                 /\ cpc'[c] \in {"idle", "exists"}
                 /\ Waiting' = Waiting + Amount[cburn[c]]
                 /\ Queued' = Queued /\ Completed' = Completed
<1>. DEFINE W == OfKind(unconf, "regular")
<1>a. Waiting \in Nat /\ Queued \in Nat /\ Completed \in Nat /\ W \in SUBSET Burns
    BY Numbers DEF Waiting, Queued, Completed, OnceInv, Shape, OfKind
<1>1. ASSUME UNCHANGED <<kind, rows, after>> PROVE Queued' = Queued
    BY <1>1 DEF Queued, UncompletedQueueSupply, MaxAfter, OfKind
<1>2. ASSUME done' = done, after' = after PROVE Completed' = Completed
    BY <1>2 DEF Completed, CompletedQueueSupply, MaxAfter
<1>3. CASE /\ UNCHANGED <<unconf, kind, transported, rows, after>>
           /\ \/ done' = done
              \/ \E b \in OfKind(rows, "regular") : done' = done \cup {b}
  <2>1. Waiting' = Waiting
      BY <1>3 DEF Waiting, UnconfirmedAmount, OfKind
  <2>2. Completed <= Completed'
      BY <1>a, <1>2, <1>3, CompletedGrows
  <2>. QED
      BY <1>a, <1>1, <1>3, <2>1, <2>2
<1>4. ASSUME NEW c \in Clients, cpc[c] = "write", cburn[c] \in Burns \ (unconf \cup rows),
             AddUnconfirmed(cburn[c], ckind[c]), done' = done
      PROVE  \/ Waiting' = Waiting /\ Queued' = Queued /\ Completed' = Completed
             \/ /\ ckind[c] = "regular" /\ Waiting' = Waiting + Amount[cburn[c]]
                /\ Queued' = Queued /\ Completed' = Completed
  <2>. DEFINE b == cburn[c]
  <2>1. Queued' = Queued /\ Completed' = Completed
    <3>1. \A a \in rows : kind'[a] = kind[a]
        BY <1>4 DEF AddUnconfirmed, Books, OnceInv, Shape
    <3>2. OfKind(rows, "regular")' = OfKind(rows, "regular") /\ after' = after
        BY <1>4, <3>1 DEF AddUnconfirmed, OfKind
    <3>. QED
        BY <1>2, <1>4, <3>2, SupplyIs
  <2>2. W \in SUBSET Burns /\ {b} \in SUBSET Burns /\ W \cap {b} = {}
      BY <1>4, <1>a DEF OfKind
  <2>3. CASE ckind[c] = "regular"
    <3>1. OfKind(unconf, "regular")' = W \cup {b}
        BY <1>4, <2>3 DEF AddUnconfirmed, OfKind, Books, OnceInv, Shape
    <3>2. Total(W \cup {b}) = Total(W) + Amount[b]
        BY <1>4, <2>2, TotalUnion, TotalOne
    <3>3. Waiting' = Total(W \cup {b})
        BY <3>1 DEF Waiting, UnconfirmedAmount
    <3>4. Waiting = Total(W)
        BY DEF Waiting, UnconfirmedAmount
    <3>. QED
        BY <2>1, <2>3, <3>2, <3>3, <3>4
  <2>4. CASE ckind[c] # "regular"
    <3>1. OfKind(unconf, "regular")' = W
        BY <1>4, <2>4 DEF AddUnconfirmed, OfKind, Books, OnceInv, Shape
    <3>2. Waiting' = Waiting
        BY <3>1 DEF Waiting, UnconfirmedAmount
    <3>. QED
        BY <2>1, <3>2
  <2>. QED
      BY <2>3, <2>4
<1>5. CASE RemoveAll /\ done' = done
  <2>1. OfKind(unconf, "regular")' \in SUBSET W
      BY <1>5 DEF RemoveAll, DeleteUnconfirmed, OfKind
  <2>2. Waiting' = Total(OfKind(unconf, "regular")') /\ Waiting = Total(W)
      BY DEF Waiting, UnconfirmedAmount
  <2>3. Waiting' <= Waiting
      BY <1>a, <2>1, <2>2, TotalSubset
  <2>4. Waiting' \in Nat
    <3>1. OfKind(unconf, "regular")' \in SUBSET Burns
        BY <1>a, <2>1
    <3>. QED
        BY <2>2, <3>1, TotalType
  <2>5. Queued' = Queued /\ Completed' = Completed
      BY <1>1, <1>2, <1>5 DEF RemoveAll
  <2>6. Waiting' + Queued' <= Waiting + Queued
    <3>1. PICK w \in Nat, q \in Nat, wn \in Nat : w = Waiting /\ q = Queued /\ wn = Waiting'
        BY <1>a, <2>4
    <3>2. wn <= w
        BY <2>3, <3>1, Zenon
    <3>3. wn + q <= w + q
        BY <3>2
    <3>. QED
        BY <2>5, <3>1, <3>3
  <2>7. Queued <= Queued' /\ Completed <= Completed'
      BY <1>a, <2>5
  <2>. QED
      BY <2>3, <2>6, <2>7
<1>6. CASE InsertAll /\ done' = done
    BY <1>a, <1>6, InsertMoves
<1>. HIDE DEF W
<1>. QED
    BY <1>a, <1>3, <1>4, <1>5, <1>6, LedgerStep

\* How a step moves a call.
LEMMA CallsStep ==
    ASSUME OnceInv, Typed, Bounded, [Next]_vars, NEW c \in Clients
    PROVE  \/ UNCHANGED <<cpc[c], cburn[c], ckind[c], seenAmount[c], seenCompleted[c]>>
           \/ cpc'[c] \in {"idle", "exists", "unconfirmed"}
           \/ cpc'[c] = "premined" /\ ckind'[c] = "premined"
           \/ ReadUnconfirmedAmount(c)
           \/ ReadCompletedSupply(c)
           \/ CheckQueueAllowance(c)
           \/ CheckPreminedAllowance(c)
<1>. USE DEF OnceInv, Shape, Typed, Bounded, clientVars
<1>1. ASSUME NEW d \in Clients, NEW b \in Burns, Submit(d, b)
      PROVE  \/ UNCHANGED <<cpc[c], cburn[c], ckind[c], seenAmount[c], seenCompleted[c]>>
             \/ cpc'[c] \in {"idle", "exists", "unconfirmed"}
    BY <1>1 DEF Submit, Continue
<1>2. ASSUME NEW d \in Clients, CheckBurnIDUnique(d)
      PROVE  \/ UNCHANGED <<cpc[c], cburn[c], ckind[c], seenAmount[c], seenCompleted[c]>>
             \/ cpc'[c] \in {"idle", "exists", "unconfirmed"}
             \/ cpc'[c] = "premined" /\ ckind'[c] = "premined"
    BY <1>2 DEF CheckBurnIDUnique, Return, Continue
<1>3. ASSUME NEW d \in Clients, d # c,
             ReadUnconfirmedAmount(d) \/ ReadCompletedSupply(d) \/ CheckQueueAllowance(d)
                \/ CheckPreminedAllowance(d)
      PROVE  UNCHANGED <<cpc[c], cburn[c], ckind[c], seenAmount[c], seenCompleted[c]>>
    BY <1>3 DEF ReadUnconfirmedAmount, ReadCompletedSupply, CheckQueueAllowance,
                CheckPreminedAllowance, Return, Continue
<1>4. ASSUME NEW d \in Clients,
             AddUnconfirmedScpTx(d) \/ AddUnconfirmedRefused(d) \/ AddUnconfirmedRepeats(d)
                \/ SubmitFails(d)
      PROVE  \/ UNCHANGED <<cpc[c], cburn[c], ckind[c], seenAmount[c], seenCompleted[c]>>
             \/ cpc'[c] \in {"idle", "exists", "unconfirmed"}
    BY <1>4 DEF AddUnconfirmedScpTx, AddUnconfirmedRefused, AddUnconfirmedRepeats, SubmitFails,
                Return, Continue
<1>5. CASE Crash
    BY <1>5 DEF Crash
<1>6. CASE \/ UNCHANGED vars \/ FindBlock \/ (\E d \in 1..MaxReorg : Reorg(d))
           \/ (\E b \in Burns : Age(b) \/ Complete(b))
           \/ LoopStep \/ UnconfirmedBeforeRepeats \/ RemoveUnconfirmedRepeats \/ ProcessFails
    BY <1>6 DEF vars, FindBlock, MineBlock, Reorg, Age, Complete, LoopStep,
                UnconfirmedBefore, UnconfirmedBeforeRepeats, ListUnconfirmed, CurrentHeight,
                CheckBurn, UpdateHeight, SetConfirmationHeight, RemoveUnconfirmed,
                ConfirmUnconfirmed, ConfirmRefused, RemoveUnconfirmedRepeats, ProcessFails
<1>. QED
    BY <1>1, <1>2, <1>3, <1>4, <1>5, <1>6 DEF Next, SubmitStep

\* An allowance that is big enough leaves room for the burn.
LEMMA CapacityFits ==
    ASSUME NEW u \in Nat, NEW c \in Nat, NEW q \in Nat, NEW n \in Nat \ {0},
           ~(FreeCapacity(u, c, q) < n)
    PROVE  u + q - c + n <= QueueSizeLimit /\ u + q + n <= TotalSupply
<1>1. QueueSizeLimit \in Nat /\ TotalSupply \in Nat
    BY IntakeAssumption
<1>2. q - c <= Sub(q, c) /\ Sub(q, c) \in Nat
    BY DEF Sub
<1>. DEFINE size == Sub(q, c) + u
<1>3. n <= Sub(TotalSupply, c + size) /\ n <= Sub(QueueSizeLimit, size)
  <2>1. Sub(TotalSupply, c + size) \in Nat /\ Sub(QueueSizeLimit, size) \in Nat
      BY <1>1, <1>2 DEF Sub
  <2>. QED
      BY <2>1 DEF FreeCapacity, SmallerOf
<1>4. size \in Nat /\ u + q - c <= size
    BY <1>2
<1>. HIDE DEF size
<1>5. c + size + n <= TotalSupply /\ size + n <= QueueSizeLimit
    BY <1>1, <1>3, <1>4 DEF Sub
<1>. QED
    BY <1>1, <1>4, <1>5

\* What the only call knows stays true while others change the queue.
LEMMA KnowsStep ==
    ASSUME OneCall, OnceInv, OnceInv', Typed, Books, Bounded, QueueInv, [Next]_vars, NEW c \in Clients
    PROVE  Knows(c)'
<1>1. /\ Waiting \in Nat /\ Queued \in Nat /\ Completed \in Nat
      /\ Waiting' \in Nat /\ Queued' \in Nat /\ Completed' \in Nat
    BY BooksStep, AmountsNow, AmountsNext DEF Amounts
<1>2. Knows(c) /\ QueueSizeLimit \in Nat /\ TotalSupply \in Nat
    BY IntakeAssumption DEF QueueInv
<1>3. cpc[c] # "idle" => cburn[c] \in Burns /\ Amount[cburn[c]] \in Nat \ {0}
    BY TotalOne DEF OnceInv, Shape
<1>4. seenAmount[c] \in Nat /\ seenCompleted[c] \in Nat
    BY DEF Bounded
<1>5. ASSUME NEW d \in Clients, cpc'[d] \in {"idle", "exists"} PROVE Knows(c)'
    BY <1>5 DEF OneCall, Knows
<1>6. CASE cpc'[c] \in {"idle", "exists", "unconfirmed"} \/ (cpc'[c] = "premined" /\ ckind'[c] = "premined")
    BY <1>6 DEF Knows
<1>. DEFINE Ebbs == Waiting' <= Waiting /\ Waiting' + Queued' <= Waiting + Queued /\ Completed <= Completed'
<1>7. CASE /\ UNCHANGED <<cpc[c], cburn[c], ckind[c], seenAmount[c], seenCompleted[c]>>
           /\ Ebbs
  <2>1. cpc[c] = "write" /\ ckind[c] = "regular" => Fits(c)'
      BY <1>1, <1>2, <1>3, <1>7 DEF Knows, Fits
  <2>. QED
      BY <1>1, <1>2, <1>4, <1>7, <2>1 DEF Knows
<1>8. ASSUME UNCHANGED <<tableVars, done>>
      PROVE  Waiting' = Waiting /\ Queued' = Queued /\ Completed' = Completed
    BY <1>8 DEF Waiting, Queued, Completed, UnconfirmedAmount, UncompletedQueueSupply,
                CompletedQueueSupply, MaxAfter, OfKind, tableVars
<1>9. CASE ReadUnconfirmedAmount(c)
    BY <1>1, <1>8, <1>9
       DEF ReadUnconfirmedAmount, Continue, Knows, Waiting, OnceInv, Shape, Bounded
<1>10. CASE ReadCompletedSupply(c)
    BY <1>1, <1>2, <1>8, <1>10
       DEF ReadCompletedSupply, Continue, Knows, Completed, OnceInv, Shape, Bounded
<1>11. CASE CheckPreminedAllowance(c)
    BY <1>11 DEF CheckPreminedAllowance, Return, Continue, Knows, Typed, OnceInv, Shape
<1>12. CASE CheckQueueAllowance(c)
  <2>1. CASE FreeCapacity(seenAmount[c], seenCompleted[c], UncompletedQueueSupply) < Amount[cburn[c]]
      BY <1>12, <2>1 DEF CheckQueueAllowance, Return, Knows, OnceInv, Shape
  <2>2. CASE ~(FreeCapacity(seenAmount[c], seenCompleted[c], UncompletedQueueSupply) < Amount[cburn[c]])
    <3>1. Waiting <= seenAmount[c] /\ seenCompleted[c] <= Completed
        BY <1>2, <1>12 DEF CheckQueueAllowance, Knows
    <3>2. cburn[c] \in Burns /\ Amount[cburn[c]] \in Nat \ {0}
        BY <1>3, <1>12 DEF CheckQueueAllowance
    <3>3. /\ seenAmount[c] + Queued - seenCompleted[c] + Amount[cburn[c]] <= QueueSizeLimit
          /\ seenAmount[c] + Queued + Amount[cburn[c]] <= TotalSupply
        BY <1>1, <1>4, <2>2, <3>2, CapacityFits DEF Queued
    <3>4. Fits(c)
        BY <1>1, <1>2, <1>4, <3>1, <3>2, <3>3 DEF Fits
    <3>5. cpc'[c] = "write" /\ UNCHANGED <<cburn, tableVars, done>>
        BY <1>12, <2>2 DEF CheckQueueAllowance, Continue, OnceInv, Shape
    <3>6. Fits(c)'
        BY <1>8, <3>4, <3>5 DEF Fits
    <3>. QED
        BY <3>5, <3>6 DEF Knows
  <2>. QED
      BY <2>1, <2>2
<1>. HIDE DEF Ebbs
<1>13. Ebbs \/ \E d \in Clients : cpc'[d] \in {"idle", "exists"}
    BY AmountsStep DEF Ebbs
<1>. QED
    BY <1>5, <1>6, <1>7, <1>9, <1>10, <1>11, <1>12, <1>13, CallsStep

LEMMA QueueStep == OneCall /\ OnceInv /\ OnceInv' /\ Typed /\ Books /\ Bounded /\ QueueInv /\ [Next]_vars => QueueInv'
<1>. SUFFICES ASSUME OneCall, OnceInv, OnceInv', Typed, Books, Bounded, QueueInv, [Next]_vars PROVE QueueInv'
    OBVIOUS
<1>1. /\ Waiting \in Nat /\ Queued \in Nat /\ Completed \in Nat
      /\ Waiting' \in Nat /\ Queued' \in Nat /\ Completed' \in Nat
    BY BooksStep, AmountsNow, AmountsNext DEF Amounts
<1>2. QueueSizeLimit \in Nat /\ TotalSupply \in Nat /\ \A b \in Burns : Amount[b] \in Nat
    BY IntakeAssumption
<1>3. PICK w \in Nat, q \in Nat, c \in Nat : w = Waiting /\ q = Queued /\ c = Completed
    BY <1>1
<1>n. PICK wn \in Nat, qn \in Nat, cn \in Nat : wn = Waiting' /\ qn = Queued' /\ cn = Completed'
    BY <1>1
<1>4. qn - cn + wn <= QueueSizeLimit /\ qn + wn <= TotalSupply
  <2>1. q - c + w <= QueueSizeLimit /\ q + w <= TotalSupply
      BY <1>3 DEF QueueInv, QueueWithinLimit, SupplyWithinTotal, Waiting, Queued, Completed
  <2>2. CASE wn + qn <= w + q /\ c <= cn
      BY <1>2, <2>1, <2>2
  <2>3. ASSUME NEW d \in Clients, cpc[d] = "write", ckind[d] = "regular", cburn[d] \in Burns,
               wn = w + Amount[cburn[d]], qn = q, cn = c
        PROVE  qn - cn + wn <= QueueSizeLimit /\ qn + wn <= TotalSupply
    <3>1. Knows(d) /\ Amount[cburn[d]] \in Nat
        BY <1>2, <2>3 DEF QueueInv
    <3>2. /\ w + q - c + Amount[cburn[d]] <= QueueSizeLimit
          /\ w + q + Amount[cburn[d]] <= TotalSupply
        BY <1>3, <2>3, <3>1 DEF Knows, Fits
    <3>. QED
        BY <1>2, <2>3, <3>1, <3>2
  <2>. QED
      BY <1>3, <1>n, <2>2, <2>3, AmountsStep
<1>5. QueueWithinLimit' /\ SupplyWithinTotal'
    BY <1>4, <1>n DEF QueueWithinLimit, SupplyWithinTotal, Waiting, Queued, Completed
<1>. QED
    BY <1>5, KnowsStep DEF QueueInv

LEMMA QueueHolds == OneCall /\ StableWhenRetried /\ Spec => []QueueInv
<1>1. ASSUME OneCall, StableWhenRetried PROVE Spec => []QueueInv
  <2>1. Init => QueueInv
    <3>1. ASSUME Init PROVE /\ UnconfirmedAmount("regular") = 0
                            /\ UncompletedQueueSupply = 0 /\ CompletedQueueSupply = 0
      <4>1. OfKind(unconf, "regular") = {} /\ OfKind(rows, "regular") = {} /\ done = {}
          BY <3>1 DEF Init, OfKind
      <4>. QED
          BY <4>1, TotalEmpty
             DEF UnconfirmedAmount, UncompletedQueueSupply, CompletedQueueSupply, MaxAfter
    <3>. QED
        BY <3>1, IntakeAssumption DEF Init, QueueInv, QueueWithinLimit, SupplyWithinTotal, Knows
  <2>2. OnceInv /\ OnceInv' /\ Typed /\ Books /\ Bounded /\ QueueInv /\ [Next]_vars => QueueInv'
      BY <1>1, QueueStep
  <2>. QED
      BY <1>1, <2>1, <2>2, BooksHold, BoundedHolds, PTL DEF Spec
<1>. QED
    BY <1>1

\* One call at a time keeps the queue, with the burns that wait to join it, within its
\* limit, whatever the loop confirms, removes and completes between its three reads.
THEOREM QueueAlwaysWithin == OneCall /\ StableWhenRetried /\ Spec => []QueueWithinLimit
<1>1. QueueInv => QueueWithinLimit
    BY DEF QueueInv
<1>. QED
    BY <1>1, QueueHolds, PTL

\* One call at a time admits no more regular burns than there are units to mint.
THEOREM SupplyAlwaysWithin == OneCall /\ StableWhenRetried /\ Spec => []SupplyWithinTotal
<1>1. QueueInv => SupplyWithinTotal
    BY DEF QueueInv
<1>. QED
    BY <1>1, QueueHolds, PTL

-----------------------------------------------------------------------------
(* The total supply, whatever number of calls overlaps: the calls that read  *)
(* the queue before one of them writes can each overrun it once.             *)

\* The call has read amounts that leave room for its burn, or has compared them already.
Viable(c) ==
    \/ /\ cpc[c] \in {"completed", "uncompleted"}
       /\ seenAmount[c] + Queued + Amount[cburn[c]] <= TotalSupply
    \/ cpc[c] = "write" /\ ckind[c] = "regular"

Racing == {c \in Clients : Viable(c)}

\* What a regular burn can still be worth that one of the calls of R inserts.
Needs(R) == [c \in R |-> Amount[cburn[c]]]

\* The amount a fits below B, and so do the calls of R: one with what it needs, the
\* others with at most M each.
Room(R, need, a, B, M) ==
    /\ a <= B
    /\ R # {} => \E c \in R : a + need[c] + M * (Cardinality(R) - 1) <= B

LEMMA Products ==
    ASSUME NEW M \in Nat, NEW j \in Nat, NEW k \in Nat, j <= k
    PROVE  /\ M * j \in Nat /\ M * k \in Nat /\ M * j <= M * k
           /\ M * (k + 1) = M * k + M
OBVIOUS

\* Fewer calls and a smaller amount need no more room.
LEMMA RoomShrinks ==
    ASSUME NEW R, IsFiniteSet(R), NEW Q \in SUBSET R, NEW need, NEW need2,
           NEW M \in Nat, NEW B \in Int, NEW a \in Nat, NEW a2 \in Nat, a2 <= a,
           \A c \in R : need[c] \in Nat /\ need[c] <= M,
           \A c \in Q : need2[c] = need[c],
           Room(R, need, a, B, M)
    PROVE  Room(Q, need2, a2, B, M)
<1>1. a2 <= B
    BY DEF Room
<1>2. ASSUME Q # {} PROVE \E c \in Q : a2 + need2[c] + M * (Cardinality(Q) - 1) <= B
  <2>1. IsFiniteSet(Q) /\ Cardinality(Q) \in Nat /\ Cardinality(R) \in Nat /\ Cardinality(Q) <= Cardinality(R)
      BY FS_Subset, FS_CardinalityType
  <2>2. Cardinality(Q) >= 1
      BY <1>2, <2>1, FS_EmptySet
  <2>3. PICK e \in R : a + need[e] + M * (Cardinality(R) - 1) <= B
      BY <1>2 DEF Room
  <2>. DEFINE q == Cardinality(Q) - 1
              r == Cardinality(R) - 1
  <2>4. q \in Nat /\ r \in Nat /\ q <= r
      BY <2>1, <2>2
  <2>. HIDE DEF q, r
  <2>5. a + need[e] + M * r <= B /\ M * q \in Nat /\ M * r \in Nat /\ M * q <= M * r
      BY <2>3, <2>4, Products DEF r
  <2>6. CASE e \in Q
    <3>1. a2 + need2[e] + M * q <= B
        BY <2>5, <2>6
    <3>. QED
        BY <2>6, <3>1 DEF q
  <2>7. CASE e \notin Q
    <3>1. PICK d \in Q : TRUE
        BY <1>2
    <3>2. q + 1 <= r
      <4>1. Q \in SUBSET (R \ {e}) /\ IsFiniteSet(R \ {e}) /\ Cardinality(R \ {e}) = Cardinality(R) - 1
          BY <2>7, FS_RemoveElement
      <4>2. Cardinality(Q) <= Cardinality(R \ {e})
          BY <4>1, FS_Subset
      <4>. QED
          BY <2>1, <4>1, <4>2 DEF q, r
    <3>3. M * q + M <= M * r
        BY <2>4, <3>2, Products
    <3>4. need2[d] \in Nat /\ need2[d] <= M /\ need[e] \in Nat
        BY <3>1
    <3>5. a2 + need2[d] + M * q <= B
        BY <2>5, <3>3, <3>4
    <3>. QED
        BY <3>1, <3>5 DEF q
  <2>. QED
      BY <2>6, <2>7
<1>. QED
    BY <1>1, <1>2 DEF Room

\* A call of R takes what it needs and no longer needs it.
LEMMA RoomSpends ==
    ASSUME NEW R, IsFiniteSet(R), NEW c \in R, NEW need,
           NEW M \in Nat, NEW B \in Int, NEW a \in Nat,
           \A d \in R : need[d] \in Nat /\ need[d] <= M,
           Room(R, need, a, B, M)
    PROVE  Room(R \ {c}, need, a + need[c], B, M)
<1>1. /\ Cardinality(R) \in Nat /\ IsFiniteSet(R \ {c})
      /\ Cardinality(R \ {c}) = Cardinality(R) - 1 /\ Cardinality(R \ {c}) \in Nat
    BY FS_RemoveElement, FS_CardinalityType
<1>2. PICK e \in R : a + need[e] + M * (Cardinality(R) - 1) <= B
    BY DEF Room
<1>. DEFINE r == Cardinality(R) - 1
<1>3. r \in Nat
    BY <1>1
<1>. HIDE DEF r
<1>4. a + need[e] + M * r <= B /\ M * r \in Nat
    BY <1>2, <1>3, Products DEF r
<1>5. CASE R \ {c} = {}
  <2>1. e = c
      BY <1>5
  <2>. QED
      BY <1>4, <1>5, <2>1 DEF Room
<1>6. CASE R \ {c} # {}
  <2>1. r >= 1
      BY <1>1, <1>6, FS_EmptySet DEF r
  <2>2. PICK p \in Nat : r = p + 1
      BY <1>3, <2>1
  <2>3. M * r = M * p + M /\ M * p \in Nat
      BY <2>2, Products
  <2>4. Cardinality(R \ {c}) - 1 = p
      BY <1>1, <2>2 DEF r
  <2>5. PICK d \in R \ {c} : d = e \/ c = e
      BY <1>6
  <2>6. need[c] \in Nat /\ need[d] \in Nat /\ need[c] <= M /\ need[d] <= M
      BY <2>5
  <2>7. a + need[c] + need[d] + M * p <= B
      BY <1>4, <2>3, <2>5, <2>6
  <2>8. a + need[c] <= B
      BY <2>3, <2>6, <2>7
  <2>. QED
      BY <2>4, <2>6, <2>7, <2>8 DEF Room
<1>. QED
    BY <1>5, <1>6

\* Nobody becomes viable but by reading the unconfirmed amount.
LEMMA ViableStep ==
    ASSUME OnceInv, OnceInv', Typed, Books, Bounded, [Next]_vars, NEW c \in Clients, Viable(c)'
    PROVE  cburn'[c] = cburn[c] /\ cburn[c] \in Burns /\ (Viable(c) \/ ReadUnconfirmedAmount(c))
<1>1. Amounts /\ Amounts'
    BY BooksStep, AmountsNow, AmountsNext
<1>2. cpc[c] # "idle" => cburn[c] \in Burns /\ Amount[cburn[c]] \in Nat \ {0}
    BY TotalOne DEF OnceInv, Shape
<1>3. TotalSupply \in Nat /\ seenAmount[c] \in Nat /\ seenCompleted[c] \in Nat
    BY IntakeAssumption DEF Bounded
<1>4. Queued <= Queued'
  <2>1. CASE Queued <= Queued'
      BY <2>1
  <2>2. CASE Queued' = Queued
      BY <1>1, <2>2 DEF Amounts
  <2>. QED
      BY <2>1, <2>2, AmountsStep
<1>5. CASE UNCHANGED <<cpc[c], cburn[c], ckind[c], seenAmount[c], seenCompleted[c]>>
  <2>1. PICK q \in Nat, qn \in Nat : q = Queued /\ qn = Queued'
      BY <1>1 DEF Amounts
  <2>2. q <= qn
      BY <1>4, <2>1
  <2>3. CASE cpc[c] = "write" /\ ckind[c] = "regular"
      BY <1>2, <1>5, <2>3 DEF Viable
  <2>4. CASE /\ cpc[c] \in {"completed", "uncompleted"}
             /\ seenAmount[c] + qn + Amount[cburn[c]] <= TotalSupply
    <3>1. seenAmount[c] + q + Amount[cburn[c]] <= TotalSupply
        BY <1>2, <1>3, <2>2, <2>4
    <3>. QED
        BY <1>2, <1>5, <2>1, <2>4, <3>1 DEF Viable
  <2>. QED
      BY <1>5, <2>1, <2>3, <2>4 DEF Viable
<1>6. CASE cpc'[c] \in {"idle", "exists", "unconfirmed"} \/ cpc'[c] = "premined"
    BY <1>6 DEF Viable
<1>7. CASE ReadUnconfirmedAmount(c)
    BY <1>2, <1>7 DEF ReadUnconfirmedAmount
<1>8. CASE ReadCompletedSupply(c)
  <2>1. UNCHANGED <<kind, rows, after>>
      BY <1>8 DEF ReadCompletedSupply, tableVars
  <2>2. Queued' = Queued
      BY <2>1 DEF Queued, UncompletedQueueSupply, MaxAfter, OfKind
  <2>3. /\ cpc[c] = "completed" /\ cpc'[c] = "uncompleted"
        /\ UNCHANGED <<cburn, seenAmount>>
      BY <1>8 DEF ReadCompletedSupply, Continue, OnceInv, Shape
  <2>. QED
      BY <1>2, <2>2, <2>3 DEF Viable
<1>9. CASE CheckPreminedAllowance(c)
    BY <1>9 DEF CheckPreminedAllowance, Return, Continue, Viable, Typed, OnceInv, Shape
<1>10. CASE CheckQueueAllowance(c)
  <2>1. CASE FreeCapacity(seenAmount[c], seenCompleted[c], UncompletedQueueSupply) < Amount[cburn[c]]
      BY <1>10, <2>1 DEF CheckQueueAllowance, Return, Viable, OnceInv, Shape
  <2>2. CASE ~(FreeCapacity(seenAmount[c], seenCompleted[c], UncompletedQueueSupply) < Amount[cburn[c]])
    <3>1. cpc[c] = "uncompleted" /\ UNCHANGED cburn
        BY <1>10, <2>2 DEF CheckQueueAllowance
    <3>2. seenAmount[c] + Queued + Amount[cburn[c]] <= TotalSupply
        BY <1>1, <1>2, <1>3, <2>2, <3>1, CapacityFits DEF Amounts, Queued
    <3>. QED
        BY <1>2, <3>1, <3>2 DEF Viable
  <2>. QED
      BY <2>1, <2>2
<1>. QED
    BY <1>5, <1>6, <1>7, <1>8, <1>9, <1>10, CallsStep

\* What a step does to the race: it only takes amounts and calls away, or one call joins
\* that fits as far as it knows, or one call inserts its burn and leaves.
LEMMA RacingStep ==
    ASSUME OnceInv, OnceInv', Typed, Books, Bounded, [Next]_vars
    PROVE  /\ \A c \in Racing : cburn[c] \in Burns
           /\ \A c \in Racing' : cburn'[c] = cburn[c] /\ cburn[c] \in Burns
           /\ \/ Waiting' + Queued' <= Waiting + Queued /\ Racing' \subseteq Racing
              \/ \E c \in Racing' :
                    /\ Waiting' + Queued' = Waiting + Queued
                    /\ Waiting' + Queued' + Amount[cburn[c]] <= TotalSupply
              \/ \E c \in Racing :
                    /\ Racing' \subseteq Racing \ {c}
                    /\ Waiting' + Queued' = Waiting + Queued + Amount[cburn[c]]
<1>1. \A c \in Racing : cburn[c] \in Burns
    BY DEF Racing, Viable, OnceInv, Shape
<1>2. \A c \in Racing' : /\ cburn'[c] = cburn[c] /\ cburn[c] \in Burns
                         /\ c \in Racing \/ ReadUnconfirmedAmount(c)
    BY ViableStep DEF Racing
<1>a. Amounts /\ Amounts'
    BY BooksStep, AmountsNow, AmountsNext
<1>3. ASSUME NEW c \in Racing', ReadUnconfirmedAmount(c)
      PROVE  /\ Waiting' + Queued' = Waiting + Queued
             /\ Waiting' + Queued' + Amount[cburn[c]] <= TotalSupply
  <2>1. UNCHANGED <<unconf, kind, rows, after, cburn>> /\ cpc[c] = "unconfirmed"
      BY <1>3 DEF ReadUnconfirmedAmount, tableVars
  <2>2. Waiting' = Waiting /\ Queued' = Queued
      BY <2>1 DEF Waiting, Queued, UnconfirmedAmount, UncompletedQueueSupply, MaxAfter, OfKind
  <2>3. cpc'[c] = "completed" /\ seenAmount'[c] = Waiting /\ c \in Clients
      BY <1>3 DEF ReadUnconfirmedAmount, Continue, Waiting, OnceInv, Shape, Bounded, Racing
  <2>4. seenAmount'[c] + Queued' + Amount[cburn'[c]] <= TotalSupply
      BY <1>3, <2>3 DEF Racing, Viable
  <2>. QED
      BY <2>1, <2>2, <2>3, <2>4
<1>4. CASE \E c \in Racing' : ReadUnconfirmedAmount(c)
    BY <1>1, <1>2, <1>3, <1>4
<1>5. CASE \A c \in Racing' : ~ReadUnconfirmedAmount(c)
  <2>1. Racing' \subseteq Racing
      BY <1>2, <1>5
  <2>2. CASE Waiting' + Queued' <= Waiting + Queued
      BY <1>1, <1>2, <2>1, <2>2
  <2>3. ASSUME NEW c \in Clients, cpc[c] = "write", ckind[c] = "regular", cburn[c] \in Burns,
               cpc'[c] \in {"idle", "exists"},
               Waiting' = Waiting + Amount[cburn[c]], Queued' = Queued
        PROVE  /\ c \in Racing /\ Racing' \subseteq Racing \ {c}
               /\ Waiting' + Queued' = Waiting + Queued + Amount[cburn[c]]
    <3>1. c \in Racing /\ c \notin Racing'
        BY <2>3 DEF Racing, Viable
    <3>2. PICK w \in Nat, q \in Nat : w = Waiting /\ q = Queued
        BY <1>a DEF Amounts
    <3>3. PICK n \in Nat : n = Amount[cburn[c]]
        BY <2>3, IntakeAssumption
    <3>4. w + n + q = w + q + n
        OBVIOUS
    <3>. QED
        BY <2>1, <2>3, <3>1, <3>2, <3>3, <3>4
  <2>. QED
      BY <1>1, <1>2, <2>2, <2>3, AmountsStep
<1>. QED
    BY <1>4, <1>5

Overrun(M) == M * (Cardinality(Clients) - 1)

RaceInv(M) == Room(Racing, Needs(Racing), Waiting + Queued, TotalSupply + Overrun(M), M)

LEMMA RaceStep ==
    ASSUME NEW M \in Nat, \A b \in Burns : Amount[b] <= M, Clients # {},
           OnceInv, OnceInv', Typed, Books, Bounded, RaceInv(M), [Next]_vars
    PROVE  RaceInv(M)'
<1>. DEFINE B == TotalSupply + Overrun(M)
            N == Cardinality(Clients) - 1
            R == Racing
            Rn == Racing'
            need == Needs(Racing)
            needn == Needs(Racing)'
<1>1. TotalSupply \in Nat /\ \A b \in Burns : Amount[b] \in Nat /\ Amount[b] <= M
    BY IntakeAssumption
<1>2. PICK w \in Nat, q \in Nat, wn \in Nat, qn \in Nat :
          w = Waiting /\ q = Queued /\ wn = Waiting' /\ qn = Queued'
    BY BooksStep, AmountsNow, AmountsNext DEF Amounts
<1>3. /\ IsFiniteSet(R) /\ IsFiniteSet(Rn) /\ Rn \in SUBSET Clients
      /\ IsFiniteSet(Clients) /\ N \in Nat
  <2>1. R \in SUBSET Clients /\ Rn \in SUBSET Clients /\ IsFiniteSet(Clients)
      BY IntakeAssumption DEF Racing
  <2>2. Cardinality(Clients) \in Nat /\ Cardinality(Clients) # 0
      BY <2>1, FS_CardinalityType, FS_EmptySet
  <2>. QED
      BY <2>1, <2>2, FS_Subset
<1>4. B \in Nat /\ TotalSupply <= B
    BY <1>1, <1>3, Products DEF Overrun
<1>5. /\ \A c \in R : need[c] = Amount[cburn[c]] /\ need[c] \in Nat /\ need[c] <= M
      /\ \A c \in Rn : needn[c] = Amount[cburn[c]] /\ needn[c] \in Nat /\ needn[c] <= M
    BY <1>1, RacingStep DEF Needs
<1>6. Room(R, need, w + q, B, M)
    BY <1>2 DEF RaceInv
<1>7. \/ wn + qn <= w + q /\ Rn \in SUBSET R
      \/ \E c \in Rn : wn + qn + Amount[cburn[c]] <= TotalSupply
      \/ \E c \in R : Rn \in SUBSET (R \ {c}) /\ wn + qn = w + q + Amount[cburn[c]]
    BY <1>2, RacingStep
<1>. SUFFICES Room(Rn, needn, wn + qn, B, M)
    BY <1>2 DEF RaceInv, Overrun
<1>. HIDE DEF B, R, Rn, need, needn
<1>8. CASE wn + qn <= w + q /\ Rn \in SUBSET R
  <2>1. \A c \in Rn : needn[c] = need[c]
      BY <1>5, <1>8
  <2>. QED
      BY <1>3, <1>4, <1>5, <1>6, <1>8, <2>1, RoomShrinks
<1>9. ASSUME NEW c \in Rn, wn + qn + Amount[cburn[c]] <= TotalSupply
      PROVE  Room(Rn, needn, wn + qn, B, M)
  <2>1. Cardinality(Rn) \in Nat /\ Cardinality(Rn) <= Cardinality(Clients) /\ Cardinality(Rn) # 0
      BY <1>3, <1>9, FS_Subset, FS_CardinalityType, FS_EmptySet
  <2>2. PICK r \in Nat : r = Cardinality(Rn) - 1
      BY <2>1
  <2>. HIDE DEF N
  <2>3. r <= N
      BY <2>1, <2>2, <1>3, FS_CardinalityType DEF N
  <2>4. M * r <= M * N /\ M * r \in Nat /\ M * N \in Nat
      BY <1>3, <2>3, Products
  <2>5. B = TotalSupply + M * N
      BY DEF B, N, Overrun
  <2>6. needn[c] = Amount[cburn[c]] /\ needn[c] \in Nat
      BY <1>5
  <2>7. wn + qn + needn[c] + M * r <= B /\ wn + qn <= B
      BY <1>1, <1>4, <1>9, <2>4, <2>5, <2>6
  <2>. QED
      BY <2>2, <2>7 DEF Room
<1>10. ASSUME NEW c \in R, Rn \in SUBSET (R \ {c}), wn + qn = w + q + Amount[cburn[c]]
       PROVE  Room(Rn, needn, wn + qn, B, M)
  <2>1. Room(R \ {c}, need, w + q + need[c], B, M)
    <3>1. \A d \in R : need[d] \in Nat /\ need[d] <= M
        BY <1>5
    <3>2. w + q \in Nat /\ B \in Int /\ IsFiniteSet(R) /\ c \in R
        BY <1>3, <1>4, <1>10
    <3>. QED
        BY <1>6, <3>1, <3>2, RoomSpends
  <2>2. wn + qn = w + q + need[c] /\ w + q + need[c] \in Nat
      BY <1>5, <1>10
  <2>3. /\ IsFiniteSet(R \ {c}) /\ \A d \in R \ {c} : need[d] \in Nat /\ need[d] <= M
        /\ \A d \in Rn : needn[d] = need[d]
      BY <1>3, <1>5, <1>10, FS_Subset
  <2>. QED
      BY <1>4, <1>10, <2>1, <2>2, <2>3, RoomShrinks
<1>. QED
    BY <1>7, <1>8, <1>9, <1>10

\* The race of the calls, measured: n calls of SubmitScpTx at once can admit more regular
\* burns than there are units to mint, and never more than n - 1 of the largest burn
\* above them.  One call alone cannot.
THEOREM SupplyOverrunBounded ==
    ASSUME NEW M \in Nat, \A b \in Burns : Amount[b] <= M, Clients # {}
    PROVE  StableWhenRetried /\ Spec => [](Waiting + Queued <= TotalSupply + M * (Cardinality(Clients) - 1))
<1>1. Init => RaceInv(M)
  <2>1. ASSUME Init PROVE Racing = {} /\ Waiting = 0 /\ Queued = 0
    <3>1. OfKind(unconf, "regular") = {} /\ OfKind(rows, "regular") = {}
        BY <2>1 DEF Init, OfKind
    <3>2. Racing = {}
        BY <2>1 DEF Init, Racing, Viable
    <3>. QED
        BY <3>1, <3>2, TotalEmpty
           DEF Waiting, Queued, UnconfirmedAmount, UncompletedQueueSupply, MaxAfter
  <2>2. TotalSupply + Overrun(M) \in Nat
    <3>1. Cardinality(Clients) \in Nat /\ Cardinality(Clients) # 0
        BY IntakeAssumption, FS_CardinalityType, FS_EmptySet
    <3>2. PICK N \in Nat : N = Cardinality(Clients) - 1
        BY <3>1
    <3>. QED
        BY <3>2, Products, IntakeAssumption DEF Overrun
  <2>. QED
      BY <2>1, <2>2 DEF RaceInv, Room
<1>2. OnceInv /\ OnceInv' /\ Typed /\ Books /\ Bounded /\ RaceInv(M) /\ [Next]_vars => RaceInv(M)'
    BY RaceStep
<1>3. RaceInv(M) => Waiting + Queued <= TotalSupply + M * (Cardinality(Clients) - 1)
    BY DEF RaceInv, Room, Overrun
<1>. QED
    BY <1>1, <1>2, <1>3, BooksHold, BoundedHolds, PTL DEF Spec
=============================================================================
