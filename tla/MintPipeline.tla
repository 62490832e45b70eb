----------------------------- MODULE MintPipeline -----------------------------
(***************************************************************************)
(* The minting half of the transporter server: the "process mints" loop    *)
(* (processMints and mint in loops.go), the recovery that New runs before   *)
(* the loops start (handleUnconfirmedSolana and compareSupplyToSolana in    *)
(* server.go), the database tables they share with the burn side, and the   *)
(* Solana contract, which is external and known only by what the minter     *)
(* package expects of it.                                                   *)
(*                                                                         *)
(* A transport row owns the interval (supply_before, supply_after] of the   *)
(* supply of its type.  A mint transaction names the burn it is built for;  *)
(* its amount and its expected supply are those of the row.                 *)
(***************************************************************************)
EXTENDS Emission, Sequences, FiniteSets

CONSTANTS
    Burns,          \* burn transactions that reach the transport tables
    TypeOf,         \* transport type of each burn
    Amount,         \* amount of each burn
    Closed,         \* burns whose receiver closed the token account after the submission
    FundATAMinAmount, \* the contract funds a missing account from this amount on
    TxIDs,          \* Solana transaction ids (signatures)
    NoTx,           \* a NULL solana_id
    NoBurn,         \* the content of a transaction not built yet
    MaxTime,        \* bound on the clock
    MaxFaults,      \* bound on crashes, lost calls and failed transactions
    StatusMayFail,  \* may TxStatus return an error inside mint
    ReadsMayRetry   \* may the COMMIT of a read-only transaction fail

Types == {"premined", "airdrop", "regular"}

ASSUME PipelineAssumption ==
    /\ IsFiniteSet(Burns)
    /\ TypeOf \in [Burns -> Types]
    /\ Amount \in [Burns -> Nat \ {0}]
    /\ NoTx \notin TxIDs
    /\ NoBurn \notin Burns
    /\ MaxTime \in Nat
    /\ MaxFaults \in Nat
    /\ StatusMayFail \in BOOLEAN
    /\ ReadsMayRetry \in BOOLEAN

\* TransportMin, the smallest amount a burn may have, is not below FundATAMinAmount (both
\* are 100 by default): no burn that is accepted needs an account that may be gone.
ASSUME AccountAssumption ==
    /\ Closed \subseteq Burns
    /\ FundATAMinAmount \in Nat
    /\ \A b \in Burns : Amount[b] >= FundATAMinAmount

VARIABLES
    \* Transport tables (premined_transports, airdrop_transports, queue_transports).
    rows,       \* burns that have a row
    before,     \* supply_before
    after,      \* supply_after
    solanaID,   \* solana_id, NoTx for NULL
    confirmed,  \* ids of solana_transactions with confirmed = TRUE
    \* Solana.
    supply,     \* the supply counters of the contract, one per type
    txState,    \* "none" (not on chain, cannot land), "pending", "minted", "failed"
    txBurn,     \* the burn a transaction was built for
    \* The server process.
    pc,         \* where the mint loop, or New, is
    todo,       \* requests processMints has fetched and not minted yet
    curTx,      \* transaction mint is working on
    stale,      \* records handleUnconfirmedSolana has still to handle
    found,      \* those of them whose transaction TxStatus reported minted
    \* Environment.
    now,        \* the clock
    faults      \* faults so far

dbVars == <<rows, before, after, solanaID, confirmed>>
chainVars == <<supply, txState, txBurn>>
serverVars == <<pc, todo, curTx, stale, found>>
vars == <<dbVars, chainVars, serverVars, now, faults>>

StartPCs == {"recover", "decayAll", "statusAll", "apply", "compare"}
FetchPCs == {"premined", "airdrop", "queue"}
MintPCs == {"build", "record", "send", "wait", "decay", "status", "confirm"}
PCs == {"down", "idle"} \cup StartPCs \cup FetchPCs \cup MintPCs

\* The loops run only once New has returned.
Serving == pc \notin {"down"} \cup StartPCs

OfType(S, t) == {b \in S : TypeOf[b] = t}

\* Mutant: the end of the rows that have a transaction, as ConfirmedSupply computes it.
MaxAfterRecorded(S) ==
    LET T == {b \in S : solanaID[b] # NoTx} IN
    IF T = {} THEN 0 ELSE CHOOSE m \in {after[b] : b \in T} : \A b \in T : after[b] <= m

\* COALESCE(MAX(supply_after), 0) over the given rows.
MaxAfter(S) ==
    IF S = {} THEN 0 ELSE CHOOSE m \in {after[b] : b \in S} : \A b \in S : after[b] <= m

\* Mutant: no ORDER BY.
InAnyOrder(S) == {q \in [1..Cardinality(S) -> S] : \A i, j \in DOMAIN q : i # j => q[i] # q[j]}

\* The rows of S as a list, ORDER BY supply_after.
InOrder(S) ==
    {q \in [1..Cardinality(S) -> S] : \A i, j \in DOMAIN q : i < j => after[q[i]] < after[q[j]]}

\* A transaction id that no signature has used in a way that can be told apart:
\* not on chain in any form that matters, and in no record.
FreshIDs ==
    {id \in TxIDs : txState[id] \in {"none", "failed"} /\ \A b \in Burns : solanaID[b] # id}

Completed(b) == solanaID[b] \in confirmed

Fault == faults < MaxFaults /\ faults' = faults + 1
NoFault == UNCHANGED faults

Goto(label) == pc' = label

-----------------------------------------------------------------------------
(* The process is started for the first time on empty tables and a contract *)
(* that has minted nothing.                                                 *)
Init ==
    /\ rows = {}
    /\ before = [b \in Burns |-> 0]
    /\ after = [b \in Burns |-> 0]
    /\ solanaID = [b \in Burns |-> NoTx]
    /\ confirmed = {}
    /\ supply = [t \in Types |-> 0]
    /\ txState = [id \in TxIDs |-> "none"]
    /\ txBurn = [id \in TxIDs |-> NoBurn]
    /\ pc = "down"
    /\ todo = <<>>
    /\ curTx = NoTx
    /\ stale = {}
    /\ found = {}
    /\ now = 0
    /\ faults = 0

-----------------------------------------------------------------------------
(* The burn side: ConfirmUnconfirmed moves a confirmed burn into the table  *)
(* of its type.  A batch of several burns is as many calls in a row here:   *)
(* a reader that sees part of a batch sees what smaller batches leave.      *)
(* Regular burns are admitted after the premined period, up to TotalSupply. *)
InsertTransport(b) ==
    /\ Serving
    /\ b \in Burns \ rows
    /\ LET top == MaxAfter(OfType(rows, TypeOf[b])) IN
        /\ TypeOf[b] = "regular" => ~IsPreminedPeriod(now) /\ top + Amount[b] <= TotalSupply
        /\ before' = [before EXCEPT ![b] = top]
        /\ after' = [after EXCEPT ![b] = top + Amount[b]]
    /\ rows' = rows \cup {b}
    /\ UNCHANGED <<solanaID, confirmed, chainVars, serverVars, now, faults>>

\* The clock goes on, by any amount.
TimePasses ==
    /\ now < MaxTime
    /\ now' \in (now + 1)..MaxTime
    /\ UNCHANGED <<dbVars, chainVars, serverVars, faults>>

-----------------------------------------------------------------------------
(* processMints: one tick of the loop fetches three lists, each in a        *)
(* database transaction of its own, and mints their requests one by one.    *)
Tick ==
    /\ pc = "idle"
    /\ todo' = <<>>
    /\ Goto("premined")
    /\ UNCHANGED <<dbVars, chainVars, curTx, stale, found, now, faults>>

\* Mutants: rows that have a transaction already are selected again; a row must stay
\* one more unit below the allowed supply; the allowed supply is not looked at.
AllRows(t) == {b \in OfType(rows, t) : t = "regular" => after[b] < AllowedSupply(now)}

UncompletedBelow(t) ==
    {b \in OfType(rows, t) : solanaID[b] = NoTx /\ (t = "regular" => after[b] + 1 < AllowedSupply(now))}

UncompletedAnyTime(t) == {b \in OfType(rows, t) : solanaID[b] = NoTx}

\* SelectUncompletedPremined, SelectUncompletedAirdrop and
\* SelectUncompletedFromQueue, the last one with supply_after < allowedSupply.
Uncompleted(t) ==
    {b \in OfType(rows, t) : solanaID[b] = NoTx /\ (t = "regular" => after[b] < AllowedSupply(now))}

FetchAll(t) == \E q \in InOrder(Uncompleted(t)) : todo' = todo \o q

Fetch ==
    /\ \/ pc = "premined" /\ FetchAll("premined") /\ Goto("airdrop")
       \/ pc = "airdrop"  /\ FetchAll("airdrop")  /\ Goto("queue")
       \/ pc = "queue"    /\ FetchAll("regular")  /\ Goto(IF todo' = <<>> THEN "idle" ELSE "build")
    /\ UNCHANGED <<dbVars, chainVars, curTx, stale, found, now, faults>>

\* The COMMIT fails after the closure has appended its rows to the captured
\* slice, and runRetryableTransaction runs the closure again.
FetchRetries ==
    /\ ReadsMayRetry
    /\ \/ pc = "premined" /\ FetchAll("premined")
       \/ pc = "airdrop"  /\ FetchAll("airdrop")
       \/ pc = "queue"    /\ FetchAll("regular")
    /\ Fault
    /\ UNCHANGED <<dbVars, chainVars, pc, curTx, stale, found, now>>

\* A list cannot be fetched: the tick is over, nothing is minted.
FetchFails ==
    /\ pc \in FetchPCs
    /\ Fault
    /\ todo' = <<>>
    /\ Goto("idle")
    /\ UNCHANGED <<dbVars, chainVars, curTx, stale, found, now>>

-----------------------------------------------------------------------------
(* mint(req): build, record, send, wait; never returns before the request   *)
(* is completed.                                                            *)
Req == Head(todo)

\* Mutant: the account has to exist whatever the amount.
CheckAddressAlways(b) == b \notin Closed

\* checkAddress: a mint that does not fund it needs the token account.
CheckAddress(b) == Amount[b] >= FundATAMinAmount \/ b \notin Closed

BuildTransaction ==
    /\ pc = "build"
    /\ CheckAddress(Req)
    /\ \E id \in FreshIDs :
        /\ curTx' = id
        /\ txState' = [txState EXCEPT ![id] = "none"]
        /\ txBurn' = [txBurn EXCEPT ![id] = Req]
    /\ Goto("record")
    /\ UNCHANGED <<dbVars, supply, todo, stale, found, now, faults>>

\* RPC error: `continue`.  (So does ErrATANotFound, which is no fault that goes away: where
\* CheckAddress refuses, mint goes round for good and no step of it is taken.)
BuildFails ==
    /\ pc = "build"
    /\ Fault
    /\ UNCHANGED <<dbVars, chainVars, serverVars, now>>

AddSolanaTransaction ==
    /\ pc = "record"
    /\ solanaID' = [solanaID EXCEPT ![Req] = curTx]
    /\ Goto("send")
    /\ UNCHANGED <<rows, before, after, confirmed, chainVars, todo, curTx, stale, found, now, faults>>

\* An error is returned though the write may have been committed: `continue`
\* builds another transaction.
AddSolanaTransactionFails ==
    /\ pc = "record"
    /\ Fault
    /\ \/ UNCHANGED solanaID
       \/ solanaID' = [solanaID EXCEPT ![Req] = curTx]
    /\ Goto("build")
    /\ UNCHANGED <<rows, before, after, confirmed, chainVars, todo, curTx, stale, found, now>>

\* Mutant: no supply check.
SupplyUnchecked(id) == TRUE

\* The contract checks that its supply is the one the transaction was built for.
SupplyMatches(id) == supply[TypeOf[txBurn[id]]] = before[txBurn[id]]

\* SendAndConfirm: preflight passed, the transaction is broadcast.
Send ==
    /\ pc = "send"
    /\ SupplyMatches(curTx)
    /\ txState' = [txState EXCEPT ![curTx] = "pending"]
    /\ Goto("wait")
    /\ UNCHANGED <<dbVars, supply, txBurn, todo, curTx, stale, found, now, faults>>

\* Preflight simulates the transaction and refuses it (ErrInvalidSupply).
SendRefused ==
    /\ pc = "send"
    /\ ~SupplyMatches(curTx)
    /\ Goto("decay")
    /\ UNCHANGED <<dbVars, chainVars, todo, curTx, stale, found, now, faults>>

\* The send call errs, and the transaction may have been broadcast all the same.
SendFails ==
    /\ pc = "send"
    /\ Fault
    /\ \/ UNCHANGED txState
       \/ SupplyMatches(curTx) /\ txState' = [txState EXCEPT ![curTx] = "pending"]
    /\ Goto("decay")
    /\ UNCHANGED <<dbVars, supply, txBurn, todo, curTx, stale, found, now>>

\* Mutant: any response of the subscription counts, resp.Value.Err is not looked at.
WaitAnswered ==
    /\ pc = "wait"
    /\ txState[curTx] \in {"minted", "failed"}
    /\ Goto("confirm")
    /\ UNCHANGED <<dbVars, chainVars, todo, curTx, stale, found, now, faults>>

WaitConfirmed ==
    /\ pc = "wait"
    /\ txState[curTx] = "minted"
    /\ Goto("confirm")
    /\ UNCHANGED <<dbVars, chainVars, todo, curTx, stale, found, now, faults>>

\* waitForConfirmation: execution error, timeout of a transaction that expired, or
\* a timeout or a closed subscription whatever became of the transaction.
WaitFails ==
    /\ pc = "wait"
    /\ \/ txState[curTx] \in {"none", "failed"} /\ NoFault
       \/ txState[curTx] \in {"pending", "minted"} /\ Fault
    /\ Goto("decay")
    /\ UNCHANGED <<dbVars, chainVars, todo, curTx, stale, found, now>>

\* Mutant: no sleep before the status is asked for.
NoDecaySleep ==
    /\ pc = "decay"
    /\ Goto("status")
    /\ UNCHANGED <<dbVars, chainVars, todo, curTx, stale, found, now, faults>>

\* time.Sleep(SolanaTxDecayTime).  Assumption: the configured time is long enough
\* for a transaction to land or expire.
DecaySleep ==
    /\ pc = "decay"
    /\ txState[curTx] # "pending"
    /\ Goto("status")
    /\ UNCHANGED <<dbVars, chainVars, todo, curTx, stale, found, now, faults>>

\* status.Confirmed && status.MintSuccessful as TxStatus reports them.
StatusConfirmed(id) == txState[id] \in {"minted", "failed"}
StatusMintSuccessful(id) == txState[id] = "minted"
\* Mutant: MintSuccessful is not looked at.
StatusOnChain(id) == StatusConfirmed(id)

StatusMinted(id) == StatusConfirmed(id) /\ StatusMintSuccessful(id)

\* Mutant: a transaction that did land is built again.
TxStatusIgnored ==
    /\ pc = "status"
    /\ Goto("build")
    /\ UNCHANGED <<dbVars, chainVars, todo, curTx, stale, found, now, faults>>

TxStatus ==
    /\ pc = "status"
    /\ Goto(IF StatusMinted(curTx) THEN "confirm" ELSE "build")
    /\ UNCHANGED <<dbVars, chainVars, todo, curTx, stale, found, now, faults>>

\* TxStatus returned an error: `continue` builds another transaction.
TxStatusFails ==
    /\ StatusMayFail
    /\ pc = "status"
    /\ Fault
    /\ Goto("build")
    /\ UNCHANGED <<dbVars, chainVars, todo, curTx, stale, found, now>>

\* mint returns and processMints goes on with the next request.
ConfirmSolana ==
    /\ pc = "confirm"
    /\ confirmed' = confirmed \cup {curTx}
    /\ todo' = Tail(todo)
    /\ Goto(IF todo' = <<>> THEN "idle" ELSE "build")
    /\ UNCHANGED <<rows, before, after, solanaID, chainVars, curTx, stale, found, now, faults>>

\* Retried until it succeeds, though an attempt that errs may have been committed.
ConfirmSolanaFails ==
    /\ pc = "confirm"
    /\ Fault
    /\ \/ UNCHANGED confirmed
       \/ confirmed' = confirmed \cup {curTx}
    /\ UNCHANGED <<rows, before, after, solanaID, chainVars, serverVars, now>>

-----------------------------------------------------------------------------
(* Solana: a pending transaction lands and is checked by the contract,      *)
(* fails for a reason of its own, or expires.                               *)
Land(id) ==
    /\ txState[id] = "pending"
    /\ IF SupplyMatches(id)
       THEN /\ txState' = [txState EXCEPT ![id] = "minted"]
            /\ supply' = [supply EXCEPT ![TypeOf[txBurn[id]]] = @ + Amount[txBurn[id]]]
       ELSE /\ txState' = [txState EXCEPT ![id] = "failed"]
            /\ UNCHANGED supply
    /\ UNCHANGED <<dbVars, txBurn, serverVars, now, faults>>

Drop(id) ==
    /\ txState[id] = "pending"
    /\ Fault
    /\ \E outcome \in {"none", "failed"} : txState' = [txState EXCEPT ![id] = outcome]
    /\ UNCHANGED <<dbVars, supply, txBurn, serverVars, now>>

-----------------------------------------------------------------------------
(* New: recovery and sanity check before the loops.                         *)

\* The process dies: everything it kept in memory is lost.
Crash ==
    /\ pc # "down"
    /\ Fault
    /\ Goto("down")
    /\ todo' = <<>>
    /\ curTx' = NoTx
    /\ stale' = {}
    /\ found' = {}
    /\ UNCHANGED <<dbVars, chainVars, now>>

Restart ==
    /\ pc = "down"
    /\ Goto("recover")
    /\ UNCHANGED <<dbVars, chainVars, todo, curTx, stale, found, now, faults>>

RecordsWithUnconfirmedSolana ==
    {b \in rows : solanaID[b] # NoTx /\ solanaID[b] \notin confirmed}

Recover ==
    /\ pc = "recover"
    /\ stale' = RecordsWithUnconfirmedSolana
    /\ Goto(IF stale' = {} THEN "compare" ELSE "decayAll")
    /\ UNCHANGED <<dbVars, chainVars, todo, curTx, found, now, faults>>

\* Mutant: the recovery asks for the status at once.
NoDecaySleepAll ==
    /\ pc = "decayAll"
    /\ Goto("statusAll")
    /\ UNCHANGED <<dbVars, chainVars, todo, curTx, stale, found, now, faults>>

DecaySleepAll ==
    /\ pc = "decayAll"
    /\ \A b \in stale : txState[solanaID[b]] # "pending"
    /\ Goto("statusAll")
    /\ UNCHANGED <<dbVars, chainVars, todo, curTx, stale, found, now, faults>>

TxStatusAll ==
    /\ pc = "statusAll"
    /\ found' = {b \in stale : StatusMinted(solanaID[b])}
    /\ Goto("apply")
    /\ UNCHANGED <<dbVars, chainVars, todo, curTx, stale, now, faults>>

\* Mutant: a stale transaction is left in its record.
ResolveKeeps(b) ==
    /\ confirmed' = IF b \in found THEN confirmed \cup {solanaID[b]} ELSE confirmed
    /\ UNCHANGED solanaID

\* Mutant: the record is cleared first, and what is confirmed is what it holds then.
ResolveForgets(b) ==
    /\ solanaID' = [solanaID EXCEPT ![b] = NoTx]
    /\ confirmed' = IF b \in found THEN confirmed \cup {solanaID'[b]} ELSE confirmed

\* Mark the transaction confirmed, or forget it.
Resolve(b) ==
    IF b \in found
    THEN confirmed' = confirmed \cup {solanaID[b]} /\ UNCHANGED solanaID
    ELSE solanaID' = [solanaID EXCEPT ![b] = NoTx] /\ UNCHANGED confirmed

Apply ==
    /\ pc = "apply"
    /\ \E b \in stale :
        /\ Resolve(b)
        /\ stale' = stale \ {b}
    /\ Goto(IF stale' = {} THEN "compare" ELSE "apply")
    /\ UNCHANGED <<rows, before, after, chainVars, todo, curTx, found, now, faults>>

ConfirmedSupply(t) ==
    IF t = "regular"
    THEN MaxAfter({b \in OfType(rows, t) : Completed(b)})
    ELSE MaxAfter({b \in OfType(rows, t) : solanaID[b] # NoTx})

SupplyAgrees == \A t \in Types : ConfirmedSupply(t) = supply[t]

\* A mismatch makes New return an error, and the process exits.
CompareSupplyToSolana ==
    /\ pc = "compare"
    /\ Goto(IF SupplyAgrees THEN "idle" ELSE "down")
    /\ found' = {}
    /\ UNCHANGED <<dbVars, chainVars, todo, curTx, stale, now, faults>>

\* A call of New fails, its last write perhaps done: the process exits.
StartFails ==
    /\ pc \in StartPCs
    /\ Fault
    /\ \/ UNCHANGED dbVars
       \/ /\ pc = "apply"
          /\ \E b \in stale : Resolve(b)
          /\ UNCHANGED <<rows, before, after>>
    /\ Goto("down")
    /\ stale' = {}
    /\ found' = {}
    /\ UNCHANGED <<chainVars, todo, curTx, now>>

-----------------------------------------------------------------------------
StartStep == Recover \/ DecaySleepAll \/ TxStatusAll \/ Apply \/ CompareSupplyToSolana

MintStep ==
    \/ BuildTransaction \/ AddSolanaTransaction \/ Send \/ SendRefused
    \/ WaitConfirmed \/ WaitFails \/ DecaySleep \/ TxStatus \/ ConfirmSolana

ServerStep == Tick \/ Fetch \/ MintStep \/ StartStep

ServerFault ==
    \/ FetchRetries \/ FetchFails \/ BuildFails \/ AddSolanaTransactionFails
    \/ SendFails \/ TxStatusFails \/ ConfirmSolanaFails \/ StartFails \/ Crash

Next ==
    \/ ServerStep
    \/ ServerFault
    \/ Restart
    \/ TimePasses
    \/ \E b \in Burns : InsertTransport(b)
    \/ \E id \in TxIDs : Land(id) \/ Drop(id)

Spec == Init /\ [][Next]_vars

(* The goroutine of the loop keeps running, a pending transaction lands     *)
(* sooner or later unless a fault drops it, a process that exited is        *)
(* started again, and time passes.  Faults are finitely many.               *)
Fairness ==
    /\ WF_vars(ServerStep)
    /\ WF_vars(Restart)
    /\ WF_vars(TimePasses)
    /\ \A id \in TxIDs : WF_vars(Land(id))

FairSpec == Spec /\ Fairness
-----------------------------------------------------------------------------
(* Properties.                                                              *)

TypeOK ==
    /\ rows \subseteq Burns
    /\ before \in [Burns -> Nat]
    /\ after \in [Burns -> Nat]
    /\ solanaID \in [Burns -> TxIDs \cup {NoTx}]
    /\ confirmed \subseteq TxIDs
    /\ supply \in [Types -> Nat]
    /\ txState \in [TxIDs -> {"none", "pending", "minted", "failed"}]
    /\ txBurn \in [TxIDs -> Burns \cup {NoBurn}]
    /\ pc \in PCs
    /\ todo \in Seq(Burns)
    /\ curTx \in TxIDs \cup {NoTx}
    /\ stale \subseteq Burns
    /\ found \subseteq Burns
    /\ now \in 0..MaxTime
    /\ faults \in 0..MaxFaults

Minted == {txBurn[id] : id \in {i \in TxIDs : txState[i] = "minted"}}

\* No burn is minted by two transactions, whatever fails and is retried: the
\* supply check of the contract that mintTx relies on against double minting.
MintedAtMostOnce ==
    \A i, j \in TxIDs :
        (txState[i] = "minted" /\ txState[j] = "minted" /\ txBurn[i] = txBurn[j]) => i = j

\* The supply of a type covers exactly the rows that were minted: a prefix of
\* its table, with no gap and no row half covered.
MintedPrefix ==
    \A b \in rows :
        /\ b \in Minted <=> after[b] <= supply[TypeOf[b]]
        /\ b \notin Minted <=> supply[TypeOf[b]] <= before[b]

\* A record whose transaction is marked confirmed has its tokens, by that very
\* transaction: neither mint nor the recovery confirms on a stale answer.
CompletedIsMinted ==
    \A b \in Burns :
        Completed(b) => txState[solanaID[b]] = "minted" /\ txBurn[solanaID[b]] = b

\* At most one transaction can still land, and it is the recorded, unconfirmed
\* transaction of its burn: a crash at any point leaves a trace to recover from.
OneInFlight ==
    \A i \in TxIDs : txState[i] = "pending" =>
        /\ solanaID[txBurn[i]] = i /\ i \notin confirmed
        /\ \A j \in TxIDs : txState[j] = "pending" => i = j

\* Every minted transaction is the one its record names, across retries of mint,
\* crashes and recoveries: no mint is forgotten by the database.
NoOrphanMint ==
    \A id \in TxIDs : txState[id] = "minted" => solanaID[txBurn[id]] = id

\* No regular token exists before the schedule allows it, however long a list of
\* processMints waits and whatever is retried or recovered.
EmissionRespected == supply["regular"] <= AllowedSupply(now)

\* The schedule and its inverse agree at every moment: a supply is allowed exactly
\* from its SupplyTime on, and TimeTillSupply is the wait until then.
ScheduleExact ==
    \A s \in 1..TotalSupply :
        /\ AllowedSupply(now) >= s <=> SupplyTime(s) <= now
        /\ AllowedSupply(now + TimeTillSupply(now, s)) >= s

\* The time SubmitScpTx and CheckAllowance quote for an amount is enough for the
\* schedule to add it, at any moment of a minute.
EstimateIsEnough ==
    \A q \in 0..TotalSupply :
        ~IsPreminedPeriod(now) /\ AllowedSupply(now) + q <= TotalSupply
            => AllowedSupply(now + EmissionTime(q)) >= AllowedSupply(now) + q

\* The transaction mint sends is the next one the contract accepts: the lists of
\* processMints hold the uncompleted rows of each type in order and without a gap.
NextInLine == pc = "send" => SupplyMatches(curTx)

\* After the recovery the database and the contract agree, so New succeeds.
StartupSanity == pc = "compare" => SupplyAgrees

\* A completed record stays completed: no later mint, crash or recovery takes the
\* confirmed transaction away from it.
CompletedIsFinal == [][\A b \in Burns : Completed(b) => Completed(b)']_vars

\* The pipeline implements the ledger.
Ledger == INSTANCE MintLedger WITH
    minted <- Minted,
    completed <- {b \in Burns : Completed(b)}

LedgerSpec == Ledger!Spec

\* What its transport status says of a burn; burns without a row are still unconfirmed.
StageOf(b) ==
    IF b \notin rows THEN "unconfirmed"
    ELSE IF solanaID[b] = NoTx THEN "queued"
    ELSE IF Completed(b) THEN "completed" ELSE "sent"

\* A burn goes through the stages of its life in their order: through retries, crashes
\* and recoveries it falls back only from a stale transaction to the queue.
Stages == INSTANCE BurnStages WITH stage <- [b \in Burns |-> StageOf(b)]

StagesSpec == Stages!Spec

\* mint returns: once faults are over, it does not block the requests behind it.
MintReturns == pc \in MintPCs ~> pc \notin MintPCs

\* Every accepted burn below the cap of the emission is completed in the end.
AcceptedIsCompleted ==
    \A b \in Burns :
        (b \in rows /\ (TypeOf[b] = "regular" => after[b] < TotalSupply)) ~> Completed(b)

\* The same with no exception for the burn that ends exactly at the cap.
EveryAcceptedIsCompleted == \A b \in Burns : b \in rows ~> Completed(b)
=============================================================================
