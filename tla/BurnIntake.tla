------------------------------ MODULE BurnIntake ------------------------------
(***************************************************************************)
(* The intake half of the transporter server: SubmitScpTx admits a burn     *)
(* into unconfirmed_burns if the limits of its type allow it, and the       *)
(* "process unconfirmed" loop moves it into a transport table once it has   *)
(* enough ScPrime confirmations, or drops it if it is not confirmed in      *)
(* time.                                                                    *)
(*                                                                         *)
(* Database transactions run at Read Committed: every SELECT of a closure   *)
(* is a step of its own and sees what is committed then, the writes of a    *)
(* closure appear together at its COMMIT.                                   *)
(***************************************************************************)
EXTENDS Integers, FiniteSets, FiniteSetsExt

CONSTANTS
    Burns,              \* burn transactions
    NoBurn,             \* no burn submitted
    Amount,             \* amount each of them burns
    Home,               \* unlock hash each of them spends from
    Premined,           \* rows of premined_limits: unlock hashes that are not blocked
    AllowedMax,         \* allowed_max of each of them
    Clients,            \* concurrent calls of SubmitScpTx
    QueueSizeLimit,     \* settings.QueueSizeLimit
    TotalSupply,        \* common.TotalSupply
    Confirmations,      \* settings.ScpTxConfirmations
    MaxHeight,          \* bound on the ScPrime height
    MaxReorg,           \* bound on the blocks a reorg replaces, 0 for no reorg
    MaxFaults,          \* bound on failed calls, crashes and reorgs
    RemovalMayRepeat,   \* may the COMMIT of RemoveUnconfirmed take effect and still err
    ReadsMayRetry       \* may the COMMIT of UnconfirmedBefore, which only reads, fail

ASSUME IntakeAssumption ==
    /\ IsFiniteSet(Burns)
    /\ NoBurn \notin Burns
    /\ Amount \in [Burns -> Nat \ {0}]
    /\ AllowedMax \in [Premined -> Nat \ {0}]
    /\ IsFiniteSet(Clients)
    /\ QueueSizeLimit \in Nat /\ TotalSupply \in Nat
    /\ Confirmations \in Nat
    /\ MaxHeight \in Nat /\ MaxReorg \in Nat /\ MaxFaults \in Nat
    /\ RemovalMayRepeat \in BOOLEAN /\ ReadsMayRetry \in BOOLEAN

Kinds == {"premined", "regular"}

VARIABLES
    \* ScPrime.
    height,         \* height of the blockchain
    blockOf,        \* block that holds a burn, 0 for none
    \* unconfirmed_burns.
    unconf,         \* burns that have a row
    kind,           \* tx_type: table of a burn that has a row here or below
    confHeight,     \* height, 0 for NULL
    aged,           \* rows older than ScpTxConfirmationTime
    \* premined_limits and the transport tables.
    transported,    \* transported
    rows,           \* burns with a row in a transport table
    after,          \* supply_after
    done,           \* regular rows whose mint is confirmed, the minting half's doing
    \* SubmitScpTx, one call per client.
    cpc,            \* where the call is
    cburn,          \* the submitted burn
    ckind,          \* its type according to checkUnlockHashes
    seenAmount,     \* unconfirmed amount it read
    seenCompleted,  \* completed queue supply it read
    \* processUnconfirmed.
    lpc,            \* where the loop is
    batch,          \* how often unconfirmedTxs still holds each burn
    seenHeight,     \* height column of unconfirmedTxs
    seenKind,       \* tx_type column of unconfirmedTxs
    curHeight,      \* height of the blockchain it read last
    setHeight,      \* burns of its first list: a height is set once or twice alike
    toRemove,       \* how often its other two lists hold each burn
    toConfirm,
    \* Faults so far.
    faults

chainVars == <<height, blockOf>>
tableVars == <<unconf, kind, confHeight, aged, transported, rows, after>>
clientVars == <<cpc, cburn, ckind, seenAmount, seenCompleted>>
loopVars == <<lpc, batch, seenHeight, seenKind, curHeight, setHeight, toRemove, toConfirm>>
vars == <<chainVars, tableVars, done, clientVars, loopVars, faults>>

Fault == faults < MaxFaults /\ faults' = faults + 1
NoFault == UNCHANGED faults

-----------------------------------------------------------------------------
(* Queries and arithmetic.                                                  *)

Total(S) == MapThenSumSet(LAMBDA b : Amount[b], S)

OfKind(S, k) == {b \in S : kind[b] = k}

\* The lists of a pass, as a count for each burn: their order does not matter.
EmptyList == [b \in Burns |-> 0]
InList(list) == {b \in Burns : list[b] > 0}
AddTo(list, b) == [list EXCEPT ![b] = @ + 1]

\* COALESCE(MAX(supply_after), 0).
MaxAfter(S) == IF S = {} THEN 0 ELSE CHOOSE m \in {after[b] : b \in S} : \A b \in S : after[b] <= m

UnconfirmedAmount(k) == Total(OfKind(unconf, k))
CompletedQueueSupply == MaxAfter(done)
UncompletedQueueSupply == MaxAfter(OfKind(rows, "regular"))

\* Currency.Sub: zero where the difference is negative.
Sub(x, y) == IF x < y THEN 0 ELSE x - y

SmallerOf(x, y) == IF x < y THEN x ELSE y

\* Mutants: the unconfirmed burns are not counted; the total supply is not looked at.
QueueOnlyCapacity(unconfirmed, completed, uncompleted) ==
    LET queueSize == Sub(uncompleted, completed)
    IN  SmallerOf(Sub(TotalSupply, completed + queueSize), Sub(QueueSizeLimit, queueSize))

LimitOnlyCapacity(unconfirmed, completed, uncompleted) ==
    Sub(QueueSizeLimit, Sub(uncompleted, completed) + unconfirmed)

\* queueAllowance(...).FreeCapacity from the three amounts it reads.
FreeCapacity(unconfirmed, completed, uncompleted) ==
    LET queueSize == Sub(uncompleted, completed) + unconfirmed
        supplyLeft == Sub(TotalSupply, completed + queueSize)
    IN  SmallerOf(supplyLeft, Sub(QueueSizeLimit, queueSize))

\* A negative bigint becomes a huge unsigned Currency, and the difference zero.
PreminedCapacity(a) == IF transported[a] < 0 THEN 0 ELSE Sub(AllowedMax[a], transported[a])

-----------------------------------------------------------------------------
Init ==
    /\ height = 0
    /\ blockOf = [b \in Burns |-> 0]
    /\ unconf = {}
    /\ kind = [b \in Burns |-> "regular"]
    /\ confHeight = [b \in Burns |-> 0]
    /\ aged = {}
    /\ transported = [a \in Premined |-> 0]
    /\ rows = {}
    /\ after = [b \in Burns |-> 0]
    /\ done = {}
    /\ cpc = [c \in Clients |-> "idle"]
    /\ cburn = [c \in Clients |-> NoBurn]
    /\ ckind = [c \in Clients |-> "regular"]
    /\ seenAmount = [c \in Clients |-> 0]
    /\ seenCompleted = [c \in Clients |-> 0]
    /\ lpc = "idle"
    /\ batch = EmptyList
    /\ seenHeight = [b \in Burns |-> 0]
    /\ seenKind = [b \in Burns |-> "regular"]
    /\ curHeight = 0
    /\ setHeight = {}
    /\ toRemove = EmptyList
    /\ toConfirm = EmptyList
    /\ faults = 0

-----------------------------------------------------------------------------
(* ScPrime: a block is found, or the last blocks are replaced by one more    *)
(* block than they were, without some of their burns.                       *)

MineBlock(S) ==
    /\ height < MaxHeight
    /\ height' = height + 1
    /\ blockOf' = [b \in Burns |-> IF b \in S THEN height + 1 ELSE blockOf[b]]
    /\ UNCHANGED <<tableVars, done, clientVars, loopVars, faults>>

Reorg(d) ==
    /\ d <= height /\ height < MaxHeight
    /\ Fault
    /\ height' = height + 1
    /\ LET orphans == {b \in Burns : blockOf[b] > height - d} IN
        \E f \in [orphans -> {0} \cup (height - d + 1)..(height + 1)] :
            blockOf' = [b \in Burns |-> IF b \in orphans THEN f[b] ELSE blockOf[b]]
    /\ UNCHANGED <<tableVars, done, clientVars, loopVars>>

\* An unconfirmed row becomes older than ScpTxConfirmationTime.  Assumption: a call
\* that has checked the uniqueness of a burn does not last that long.
Age(b) ==
    /\ b \in unconf \ aged
    /\ \A c \in Clients : cburn[c] = b => cpc[c] = "exists"
    /\ aged' = aged \cup {b}
    /\ UNCHANGED <<chainVars, unconf, kind, confHeight, transported, rows, after, done,
                   clientVars, loopVars, faults>>

\* The minting half completes the rows of the queue in order.
Complete(b) ==
    /\ b \in OfKind(rows, "regular") \ done
    /\ \A c \in OfKind(rows, "regular") : after[c] < after[b] => c \in done
    /\ done' = done \cup {b}
    /\ UNCHANGED <<chainVars, tableVars, clientVars, loopVars, faults>>

-----------------------------------------------------------------------------
(* SubmitScpTx.                                                             *)

\* The call returns, with an error or without.
Return(c) ==
    /\ cpc' = [cpc EXCEPT ![c] = "idle"]
    /\ cburn' = [cburn EXCEPT ![c] = NoBurn]
    /\ ckind' = [ckind EXCEPT ![c] = "regular"]
    /\ seenAmount' = [seenAmount EXCEPT ![c] = 0]
    /\ seenCompleted' = [seenCompleted EXCEPT ![c] = 0]

Continue(c, label) == cpc' = [cpc EXCEPT ![c] = label]

\* Mutant: another type for every burn that is not premined.
FindAirdrop(b) ==
    IF Home[b] \in Premined /\ transported[Home[b]] < AllowedMax[Home[b]] THEN "premined" ELSE "airdrop"

\* checkUnlockHashes: a premined address that is not depleted makes the burn premined.
FindPremined(b) ==
    IF Home[b] \in Premined /\ transported[Home[b]] < AllowedMax[Home[b]] THEN "premined" ELSE "regular"

\* The burn is on the blockchain or in the transaction pool, and well formed.
Submit(c, b) ==
    /\ cpc[c] = "idle"
    /\ Continue(c, "exists")
    /\ cburn' = [cburn EXCEPT ![c] = b]
    /\ ckind' = [ckind EXCEPT ![c] = FindPremined(b)]
    /\ UNCHANGED <<chainVars, tableVars, done, seenAmount, seenCompleted, loopVars, faults>>

\* Mutant: the transport tables are not searched.
BurnIDUnconfirmed(b) == b \in unconf

\* checkBurnIDUnique, over unconfirmed_burns and the transport tables.
BurnIDExists(b) == b \in unconf \cup rows

CheckBurnIDUnique(c) ==
    /\ cpc[c] = "exists"
    /\ \/ BurnIDExists(cburn[c]) /\ Return(c)
       \/ /\ ~BurnIDExists(cburn[c])
          /\ Continue(c, IF ckind[c] = "premined" THEN "premined" ELSE "unconfirmed")
          /\ UNCHANGED <<cburn, ckind, seenAmount, seenCompleted>>
    /\ UNCHANGED <<chainVars, tableVars, done, loopVars, faults>>

\* The three reads of queueAllowance, in this order.
ReadUnconfirmedAmount(c) ==
    /\ cpc[c] = "unconfirmed"
    /\ seenAmount' = [seenAmount EXCEPT ![c] = UnconfirmedAmount("regular")]
    /\ Continue(c, "completed")
    /\ UNCHANGED <<chainVars, tableVars, done, cburn, ckind, seenCompleted, loopVars, faults>>

ReadCompletedSupply(c) ==
    /\ cpc[c] = "completed"
    /\ seenCompleted' = [seenCompleted EXCEPT ![c] = CompletedQueueSupply]
    /\ Continue(c, "uncompleted")
    /\ UNCHANGED <<chainVars, tableVars, done, cburn, ckind, seenAmount, loopVars, faults>>

\* The last read, and the comparison of the allowance with the amount.
CheckQueueAllowance(c) ==
    /\ cpc[c] = "uncompleted"
    /\ IF FreeCapacity(seenAmount[c], seenCompleted[c], UncompletedQueueSupply) < Amount[cburn[c]]
       THEN Return(c)
       ELSE Continue(c, "write") /\ UNCHANGED <<cburn, ckind, seenAmount, seenCompleted>>
    /\ UNCHANGED <<chainVars, tableVars, done, loopVars, faults>>

CheckPreminedAllowance(c) ==
    /\ cpc[c] = "premined"
    /\ IF PreminedCapacity(Home[cburn[c]]) < Amount[cburn[c]]
       THEN Return(c)
       ELSE Continue(c, "write") /\ UNCHANGED <<cburn, ckind, seenAmount, seenCompleted>>
    /\ UNCHANGED <<chainVars, tableVars, done, loopVars, faults>>

\* Mutant: no CHECK constraint.
NoCheck(b) == TRUE

\* CHECK (transported <= allowed_max), on the row as committed: the UPDATE locks it.
WithinAllowedMax(b) == transported[Home[b]] + Amount[b] <= AllowedMax[Home[b]]

\* IncreasePreminedTransported and InsertUnconfirmed.
AddUnconfirmed(b, k) ==
    /\ unconf' = unconf \cup {b}
    /\ kind' = [kind EXCEPT ![b] = k]
    /\ transported' = IF k = "premined" THEN [transported EXCEPT ![Home[b]] = @ + Amount[b]]
                                        ELSE transported
    /\ UNCHANGED <<confHeight, aged, rows, after>>

\* No constraint of the tables is violated.
Writable(c) ==
    /\ cburn[c] \notin unconf
    /\ ckind[c] = "premined" => WithinAllowedMax(cburn[c])

AddUnconfirmedScpTx(c) ==
    /\ cpc[c] = "write"
    /\ Writable(c)
    /\ AddUnconfirmed(cburn[c], ckind[c])
    /\ Return(c)
    /\ UNCHANGED <<chainVars, done, loopVars, faults>>

\* The CHECK fails and the call with it; a duplicate key makes the closure run again.
AddUnconfirmedRefused(c) ==
    /\ cpc[c] = "write"
    /\ ~Writable(c)
    /\ IF ckind[c] = "premined" /\ ~WithinAllowedMax(cburn[c])
       THEN Return(c)
       ELSE Continue(c, "exists") /\ UNCHANGED <<cburn, ckind, seenAmount, seenCompleted>>
    /\ UNCHANGED <<chainVars, tableVars, done, loopVars, faults>>

\* The COMMIT errs, perhaps after it took effect, and the closure runs again.
AddUnconfirmedRepeats(c) ==
    /\ cpc[c] = "write"
    /\ Fault
    /\ \/ UNCHANGED tableVars
       \/ Writable(c) /\ AddUnconfirmed(cburn[c], ckind[c])
    /\ Continue(c, "exists")
    /\ UNCHANGED <<chainVars, done, cburn, ckind, seenAmount, seenCompleted, loopVars>>

SubmitFails(c) ==
    /\ cpc[c] # "idle"
    /\ Fault
    /\ Return(c)
    /\ UNCHANGED <<chainVars, tableVars, done, loopVars>>

-----------------------------------------------------------------------------
(* processUnconfirmed.                                                      *)

At(label, next) == lpc = label /\ lpc' = next

\* The callback returns.
LoopReturns ==
    /\ lpc' = "idle"
    /\ batch' = EmptyList
    /\ seenHeight' = [b \in Burns |-> 0]
    /\ seenKind' = [b \in Burns |-> "regular"]
    /\ curHeight' = 0
    /\ setHeight' = {}
    /\ toRemove' = EmptyList
    /\ toConfirm' = EmptyList

\* The closure of UnconfirmedBefore, run n times: it appends what it selects to the list
\* that is already there.  `before` is the same each time, and so are the rows.
ListUnconfirmed(n) ==
    /\ At("idle", "height")
    /\ batch' = [b \in Burns |-> IF b \in aged THEN n ELSE 0]
    /\ seenHeight' = confHeight
    /\ seenKind' = [b \in Burns |-> IF b \in aged THEN kind[b] ELSE "regular"]
    /\ UNCHANGED <<chainVars, tableVars, done, clientVars, curHeight, setHeight, toRemove, toConfirm>>

UnconfirmedBefore == ListUnconfirmed(1) /\ NoFault

\* Its COMMIT fails n times before it succeeds.
UnconfirmedBeforeRepeats ==
    /\ ReadsMayRetry
    /\ \E n \in 1..(MaxFaults - faults) : ListUnconfirmed(n + 1) /\ faults' = faults + n

CurrentHeight ==
    /\ At("height", "check")
    /\ curHeight' = height
    /\ UNCHANGED <<chainVars, tableVars, done, clientVars, batch, seenHeight, seenKind, setHeight,
                   toRemove, toConfirm, faults>>

IsTxConfirmed(b) == blockOf[b] # 0

\* Mutant: one confirmation more than the setting.
MoreConfirmations(b) == curHeight - seenHeight[b] > Confirmations

\* A height above curHeight gives a negative difference: int of the wrapped one.
EnoughConfirmations(b) == curHeight - seenHeight[b] >= Confirmations

\* Mutant: a burn with too few confirmations is removed as well.
CheckBurnImpatiently(b) ==
    /\ lpc = "check" /\ b \in InList(batch)
    /\ batch' = [batch EXCEPT ![b] = @ - 1]
    /\ setHeight' = IF IsTxConfirmed(b) /\ seenHeight[b] = 0 THEN setHeight \cup {b} ELSE setHeight
    /\ toConfirm' = IF IsTxConfirmed(b) /\ seenHeight[b] # 0 /\ EnoughConfirmations(b)
                    THEN AddTo(toConfirm, b) ELSE toConfirm
    /\ toRemove' = IF b \in setHeight' \/ toConfirm' # toConfirm THEN toRemove ELSE AddTo(toRemove, b)
    /\ UNCHANGED <<chainVars, tableVars, done, clientVars, lpc, seenHeight, seenKind, curHeight, faults>>

\* A burn that is listed twice is judged twice, perhaps in different ways.
CheckBurn(b) ==
    /\ lpc = "check" /\ b \in InList(batch)
    /\ batch' = [batch EXCEPT ![b] = @ - 1]
    /\ setHeight' = IF IsTxConfirmed(b) /\ seenHeight[b] = 0 THEN setHeight \cup {b} ELSE setHeight
    /\ toRemove' = IF ~IsTxConfirmed(b) THEN AddTo(toRemove, b) ELSE toRemove
    /\ toConfirm' = IF IsTxConfirmed(b) /\ seenHeight[b] # 0 /\ EnoughConfirmations(b)
                    THEN AddTo(toConfirm, b) ELSE toConfirm
    /\ UNCHANGED <<chainVars, tableVars, done, clientVars, lpc, seenHeight, seenKind, curHeight, faults>>

\* Mutant: the height read before the burns were checked is used.
KeepHeight ==
    /\ batch = EmptyList /\ At("check", "set")
    /\ UNCHANGED <<chainVars, tableVars, done, clientVars, batch, seenHeight, seenKind, curHeight,
                   setHeight, toRemove, toConfirm, faults>>

\* "Update the height just in case IsTxConfirmed() calls took too long."
UpdateHeight ==
    /\ batch = EmptyList /\ At("check", "set")
    /\ curHeight' = height
    /\ UNCHANGED <<chainVars, tableVars, done, clientVars, batch, seenHeight, seenKind, setHeight,
                   toRemove, toConfirm, faults>>

SetHeights == confHeight' = [b \in Burns |-> IF b \in setHeight THEN curHeight ELSE confHeight[b]]

SetConfirmationHeight ==
    /\ At("set", "remove")
    /\ SetHeights
    /\ UNCHANGED <<chainVars, unconf, kind, aged, transported, rows, after, done, clientVars, batch,
                   seenHeight, seenKind, curHeight, setHeight, toRemove, toConfirm, faults>>

\* DELETE FROM unconfirmed_burns: the height goes with the row.
DeleteUnconfirmed(S) ==
    /\ unconf' = unconf \ S
    /\ aged' = aged \ S
    /\ confHeight' = [b \in Burns |-> IF b \in S THEN 0 ELSE confHeight[b]]

\* Mutant: only the DELETE.
RemoveRowsOnly ==
    /\ DeleteUnconfirmed(InList(toRemove))
    /\ UNCHANGED <<kind, transported, rows, after>>

\* The burns of the list that are premined, according to the list, and spend from a.
Refunded(a) == {b \in InList(toRemove) : seenKind[b] = "premined" /\ Home[b] = a}

\* DecreasePremined, as often as the list holds the burn.
Decrease == [b \in Burns |-> toRemove[b] * Amount[b]]
Refund(a) == MapThenSumSet(LAMBDA b : Decrease[b], Refunded(a))

\* The decreases of the list, and the DELETE.
RemoveAll ==
    /\ DeleteUnconfirmed(InList(toRemove))
    /\ transported' = [a \in Premined |-> transported[a] - Refund(a)]
    /\ UNCHANGED <<kind, rows, after>>

RemoveUnconfirmed ==
    /\ At("remove", "confirm")
    /\ RemoveAll
    /\ UNCHANGED <<chainVars, done, clientVars, batch, seenHeight, seenKind, curHeight, setHeight,
                   toRemove, toConfirm, faults>>

\* The COMMIT took effect and reports an error: the closure runs again on the same list.
RemoveUnconfirmedRepeats ==
    /\ RemovalMayRepeat
    /\ lpc = "remove"
    /\ Fault
    /\ RemoveAll
    /\ UNCHANGED <<chainVars, done, clientVars, loopVars>>

\* The burns of the list can be inserted: burn_id is the key of a transport table.
Insertable == \A b \in InList(toConfirm) : toConfirm[b] = 1 /\ b \notin rows

\* The rows of the list leave unconfirmed_burns for the table of their type.
MoveRows ==
    /\ rows' = rows \cup InList(toConfirm)
    /\ kind' = [b \in Burns |-> IF b \in InList(toConfirm) THEN seenKind[b] ELSE kind[b]]
    /\ DeleteUnconfirmed(InList(toConfirm))
    /\ UNCHANGED transported

\* Mutant: every burn of the list starts at the end of the table.
InsertAllAtTop ==
    /\ Insertable
    /\ after' = [b \in Burns |-> IF b \in InList(toConfirm)
                                THEN MaxAfter(OfKind(rows, seenKind[b])) + Amount[b] ELSE after[b]]
    /\ MoveRows

\* The burns of the list, ORDER BY time: each goes to the table of its type, above
\* the rows that are there and the burns of that type before it.
InsertAll ==
    /\ Insertable
    /\ \E place \in [InList(toConfirm) -> 1..Cardinality(InList(toConfirm))] :
        /\ \A b, c \in InList(toConfirm) : b # c => place[b] # place[c]
        /\ after' = [b \in Burns |->
              IF b \in InList(toConfirm)
              THEN MaxAfter(OfKind(rows, seenKind[b]))
                   + Total({c \in InList(toConfirm) : seenKind[c] = seenKind[b] /\ place[c] <= place[b]})
              ELSE after[b]]
    /\ MoveRows

ConfirmUnconfirmed ==
    /\ lpc = "confirm"
    /\ InsertAll
    /\ LoopReturns
    /\ UNCHANGED <<chainVars, done, clientVars, faults>>

\* A key is violated each time the closure runs, and in the end the pass fails.
ConfirmRefused ==
    /\ lpc = "confirm"
    /\ ~Insertable
    /\ LoopReturns
    /\ UNCHANGED <<chainVars, tableVars, done, clientVars, faults>>

\* A call errs before it changes anything, or after SetConfirmationHeight or
\* ConfirmUnconfirmed did their work (a repetition of the latter fails on its keys).
ProcessFails ==
    /\ lpc # "idle"
    /\ Fault
    /\ \/ UNCHANGED tableVars
       \/ lpc = "set" /\ SetHeights /\ UNCHANGED <<unconf, kind, aged, transported, rows, after>>
       \/ lpc = "confirm" /\ InsertAll
    /\ LoopReturns
    /\ UNCHANGED <<chainVars, done, clientVars>>

\* The process dies, open database transactions are rolled back, and it is started again.
Crash ==
    /\ Fault
    /\ LoopReturns
    /\ cpc' = [c \in Clients |-> "idle"]
    /\ cburn' = [c \in Clients |-> NoBurn]
    /\ ckind' = [c \in Clients |-> "regular"]
    /\ seenAmount' = [c \in Clients |-> 0]
    /\ seenCompleted' = [c \in Clients |-> 0]
    /\ UNCHANGED <<chainVars, tableVars, done>>

-----------------------------------------------------------------------------
SubmitStep(c) ==
    \/ CheckBurnIDUnique(c)
    \/ ReadUnconfirmedAmount(c) \/ ReadCompletedSupply(c) \/ CheckQueueAllowance(c)
    \/ CheckPreminedAllowance(c)
    \/ AddUnconfirmedScpTx(c) \/ AddUnconfirmedRefused(c)

LoopStep ==
    \/ UnconfirmedBefore \/ CurrentHeight \/ (\E b \in Burns : CheckBurn(b)) \/ UpdateHeight
    \/ SetConfirmationHeight \/ RemoveUnconfirmed \/ ConfirmUnconfirmed \/ ConfirmRefused

FindBlock == \E S \in SUBSET {b \in Burns : blockOf[b] = 0} : MineBlock(S)

Next ==
    \/ FindBlock
    \/ \E d \in 1..MaxReorg : Reorg(d)
    \/ \E b \in Burns : Age(b) \/ Complete(b)
    \/ \E c \in Clients, b \in Burns : Submit(c, b)
    \/ \E c \in Clients : SubmitStep(c) \/ AddUnconfirmedRepeats(c) \/ SubmitFails(c)
    \/ LoopStep
    \/ UnconfirmedBeforeRepeats \/ RemoveUnconfirmedRepeats
    \/ ProcessFails
    \/ Crash

Spec == Init /\ [][Next]_vars

(* The loop ticks, a call of SubmitScpTx goes on, blocks are found and time  *)
(* passes.  Nobody has to submit a burn, and a block need not hold one.      *)
Fairness ==
    /\ WF_vars(LoopStep)
    /\ \A c \in Clients : WF_vars(SubmitStep(c))
    /\ WF_vars(FindBlock)
    /\ \A b \in Burns : WF_vars(Age(b))

FairSpec == Spec /\ Fairness

-----------------------------------------------------------------------------
(* Properties.                                                              *)

TypeOK ==
    /\ height \in 0..MaxHeight
    /\ blockOf \in [Burns -> 0..MaxHeight]
    /\ unconf \subseteq Burns /\ rows \subseteq Burns /\ aged \subseteq unconf
    /\ done \subseteq rows
    /\ kind \in [Burns -> Kinds]
    /\ confHeight \in [Burns -> 0..MaxHeight]
    /\ transported \in [Premined -> Int]
    /\ after \in [Burns -> Nat]
    /\ cpc \in [Clients -> {"idle", "exists", "unconfirmed", "completed", "uncompleted", "premined", "write"}]
    /\ cburn \in [Clients -> Burns \cup {NoBurn}]
    /\ ckind \in [Clients -> Kinds]
    /\ seenAmount \in [Clients -> Nat]
    /\ seenCompleted \in [Clients -> Nat]
    /\ lpc \in {"idle", "height", "check", "set", "remove", "confirm"}
    /\ batch \in [Burns -> Nat] /\ toRemove \in [Burns -> Nat] /\ toConfirm \in [Burns -> Nat]
    /\ seenHeight \in [Burns -> 0..MaxHeight]
    /\ seenKind \in [Burns -> Kinds]
    /\ curHeight \in 0..MaxHeight
    /\ setHeight \subseteq Burns
    /\ faults \in 0..MaxFaults

\* Everything the service has promised to transport from a premined address.
PreminedInUse(a) == Total({b \in OfKind(unconf \cup rows, "premined") : Home[b] = a})

\* A burn is either waiting for confirmations or transported, never both, whatever
\* submissions, retried submissions and passes of the loop overlap.
BurnOnce == unconf \cap rows = {}

\* The transported column is the sum of what is admitted for the address: no submission,
\* retried submission, removal or crash counts a burn twice or forgets it.  (A removal that
\* is repeated, or whose list was read twice, does.)
PreminedAccounting == \A a \in Premined : transported[a] = PreminedInUse(a)

\* Concurrent submissions cannot exceed the limit of a premined address together, nor can
\* a sequence of submissions and removals, as long as the column is right.
PreminedWithinLimit == \A a \in Premined : PreminedInUse(a) <= AllowedMax[a]

\* The queue, with the unconfirmed burns that will join it, stays within its limit.
QueueWithinLimit ==
    UncompletedQueueSupply - CompletedQueueSupply + UnconfirmedAmount("regular") <= QueueSizeLimit

\* All admitted regular burns fit below the total supply, so each can be minted.
SupplyWithinTotal == UncompletedQueueSupply + UnconfirmedAmount("regular") <= TotalSupply

\* A transported burn is on the blockchain, under enough blocks: the height recorded
\* for it and the heights read during a pass never make it look older than it is.
ConfirmedEnough == \A b \in rows : blockOf[b] # 0 /\ height - blockOf[b] >= Confirmations

\* A burn whose confirmation was recorded leaves unconfirmed_burns for a transport
\* table only.  (A pass whose read was retried may judge a burn twice, record its
\* confirmation and remove it; but never one that an earlier pass has recorded.)
NotedIsKept ==
    [][\A b \in unconf : confHeight[b] # 0 /\ (ReadsMayRetry => b \notin setHeight)
                            => b \in unconf' \cup rows']_vars

\* A burn that a pass lists for removal was in no block that the chain had when the pass
\* first read the height: however long the IsTxConfirmed calls take, and whatever is mined
\* between them, the pass gives up only on burns that were late by then.
DroppedIsLate ==
    lpc = "check" => \A b \in InList(toRemove) : blockOf[b] = 0 \/ blockOf[b] > curHeight

\* A row of a transport table ends where it and the rows below it add up to: the burns
\* of a pass and the rows before them leave no gap and do not overlap.
RowsAddUp ==
    \A b \in rows : after[b] = Total({c \in OfKind(rows, kind[b]) : after[c] <= after[b]})

\* What its transport status says of a burn; the minting half takes it from "queued" on.
StageOf(b) ==
    IF b \in unconf THEN "unconfirmed" ELSE IF b \in rows THEN "queued" ELSE "none"

\* A burn enters by a submission, leaves as unconfirmed by a removal, and reaches its
\* transport table from unconfirmed_burns only, for good.
Stages == INSTANCE BurnStages WITH stage <- [b \in Burns |-> StageOf(b)]

StagesSpec == Stages!Spec

\* No burn waits as unconfirmed forever: it is moved or removed in the end, unless its
\* confirmation was noted too late for the bounded chain to bury it.
UnconfirmedIsResolved ==
    \A b \in Burns : []<>(b \notin unconf \/ confHeight[b] + Confirmations > MaxHeight)
=============================================================================
