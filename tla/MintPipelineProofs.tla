-------------------------- MODULE MintPipelineProofs --------------------------
(***************************************************************************)
(* The safety of MintPipeline for every set of burns, every amount and any  *)
(* number of faults.                                                        *)
(***************************************************************************)
EXTENDS MintPipeline, EmissionProofs, FiniteSetTheorems

-----------------------------------------------------------------------------
(* Type correctness.                                                        *)

\* A list of database rows is a sequence of burns.
LEMMA InOrderType ==
    ASSUME NEW R \in SUBSET Burns, NEW S \in SUBSET R, NEW q \in InOrder(S)
    PROVE  q \in Seq(R)
<1>1. IsFiniteSet(S)
    BY PipelineAssumption, FS_Subset
<1>2. Cardinality(S) \in Nat
    BY <1>1, FS_CardinalityType
<1>. QED
    BY <1>2 DEF InOrder

\* Whatever a fetch appends keeps the list of requests a list of rows.
LEMMA FetchAllType ==
    ASSUME NEW t \in Types, NEW R \in SUBSET Burns, rows \subseteq R, todo \in Seq(R), FetchAll(t)
    PROVE  todo' \in Seq(R)
<1>1. Uncompleted(t) \subseteq R
    BY DEF Uncompleted, OfType
<1>2. PICK q \in InOrder(Uncompleted(t)) : todo' = todo \o q
    BY DEF FetchAll
<1>. QED
    BY <1>1, <1>2, InOrderType

-----------------------------------------------------------------------------
(* The inductive invariant, in four parts.                                  *)

Pending == {id \in TxIDs : txState[id] = "pending"}

\* Rows of a type own disjoint intervals, and the table has a last row.
Intervals ==
    /\ \A b \in rows : after[b] = before[b] + Amount[b]
    /\ \A b, c \in rows :
          (TypeOf[b] = TypeOf[c] /\ b # c) => (after[b] <= before[c] \/ after[c] <= before[b])
    /\ \A t \in Types : OfType(rows, t) # {} =>
          \E b \in OfType(rows, t) : \A c \in OfType(rows, t) : after[c] <= after[b]

\* The contract has minted whole rows from the first one on, each once.
Contract ==
    /\ \A id \in TxIDs : txState[id] # "none" => txBurn[id] \in rows
    /\ \A t \in Types : supply[t] = 0 \/ \E b \in OfType(rows, t) : after[b] = supply[t]
    /\ MintedPrefix
    /\ MintedAtMostOnce

\* What a record says of its transaction is true of the chain.
Records ==
    /\ \A b \in Burns : solanaID[b] # NoTx => b \in rows /\ txBurn[solanaID[b]] = b
    /\ \A id \in confirmed : txState[id] = "minted"
    /\ \A id \in Pending : solanaID[txBurn[id]] = id
    /\ \A i, j \in Pending : i = j

\* Where the server is tells which transaction can be in flight.
Server ==
    /\ todo \in Seq(rows)
    /\ pc \in MintPCs => todo # <<>>
    /\ pc \in MintPCs \ {"build"} => curTx \in TxIDs /\ txBurn[curTx] = Req
    /\ pc = "record" => \A b \in Burns : solanaID[b] # curTx
    /\ pc \in MintPCs \ {"build", "record"} => solanaID[Req] = curTx
    /\ pc \in {"record", "send"} => txState[curTx] = "none"
    /\ pc = "confirm" => txState[curTx] = "minted"
    /\ \A id \in Pending :
          \/ pc \in {"down", "recover"}
          \/ pc = "decayAll" /\ txBurn[id] \in stale
          \/ pc \in {"wait", "decay"} /\ id = curTx
    /\ pc \in {"decayAll", "statusAll", "apply"} => \A b \in stale : solanaID[b] # NoTx
    /\ pc = "apply" => \A b \in stale \cap found : txState[solanaID[b]] = "minted"

IInv == TypeOK /\ Intervals /\ Contract /\ Records /\ Server

-----------------------------------------------------------------------------
(* MAX(supply_after) of a table.                                            *)

LEMMA MaxAfterValue ==
    ASSUME NEW S, NEW m \in S, \A b \in S : after[b] \in Nat /\ after[b] <= after[m]
    PROVE  MaxAfter(S) = after[m]
BY DEF MaxAfter

\* The end of a table is 0 or the end of one of its rows, and no row exceeds it.
LEMMA EndOfTable ==
    ASSUME TypeOK, Intervals, NEW t \in Types
    PROVE  /\ MaxAfter(OfType(rows, t)) \in Nat
           /\ \A b \in OfType(rows, t) : after[b] <= MaxAfter(OfType(rows, t))
           /\ OfType(rows, t) = {} => MaxAfter(OfType(rows, t)) = 0
<1>. DEFINE S == OfType(rows, t)
<1>1. \A b \in S : after[b] \in Nat
    BY DEF TypeOK, OfType
<1>2. CASE S = {}
    BY <1>2 DEF MaxAfter
<1>3. CASE S # {}
    <2>1. PICK m \in S : \A c \in S : after[c] <= after[m]
        BY <1>3 DEF Intervals
    <2>2. MaxAfter(S) = after[m]
        BY <1>1, <2>1, MaxAfterValue
    <2>. QED
        BY <1>1, <1>3, <2>1, <2>2
<1>. QED
    BY <1>2, <1>3

-----------------------------------------------------------------------------
\* The request in hand is a row of the tables.
LEMMA ReqIsRow ==
    ASSUME Server, pc \in MintPCs
    PROVE  Req \in rows /\ Tail(todo) \in Seq(rows)
BY DEF Server, Req

LEMMA TypeInit == Init => TypeOK
BY PipelineAssumption DEF Init, TypeOK, PCs, StartPCs, FetchPCs, MintPCs

LEMMA ResolveType ==
    ASSUME TypeOK, Server, pc = "apply", NEW b \in stale, Resolve(b)
    PROVE  confirmed' \subseteq TxIDs /\ solanaID' \in [Burns -> TxIDs \cup {NoTx}]
<1>1. b \in Burns /\ solanaID[b] \in TxIDs
    BY DEF TypeOK, Server
<1>2. CASE b \in found
    BY <1>1, <1>2 DEF TypeOK, Resolve
<1>3. CASE b \notin found
    BY <1>1, <1>3 DEF TypeOK, Resolve
<1>. QED
    BY <1>2, <1>3

LEMMA TypeStep ==
    ASSUME TypeOK, Intervals, Contract, Server, [Next]_vars
    PROVE  TypeOK'
<1>. USE PipelineAssumption DEF TypeOK, PCs, StartPCs, FetchPCs, MintPCs, Goto, Fault, NoFault,
     dbVars, chainVars, serverVars
<1>a. pc \in MintPCs => Req \in Burns /\ Tail(todo) \in Seq(Burns)
    BY DEF Server, Req
<1>b. pc \in MintPCs \ {"build"} => curTx \in TxIDs
    BY DEF Server
<1>c. stale \subseteq Burns /\ \A b \in stale : pc = "apply" => solanaID[b] \in TxIDs
    BY DEF Server
<1>1. CASE Tick
    BY <1>1 DEF Tick
<1>2. CASE Fetch
    BY <1>2, FetchAllType DEF Fetch, Types
<1>3. CASE BuildTransaction
    BY <1>3, <1>a DEF FreshIDs, BuildTransaction
<1>4. CASE AddSolanaTransaction
    BY <1>4, <1>a, <1>b DEF AddSolanaTransaction
<1>5. CASE Send
    BY <1>5 DEF Send
<1>6. CASE SendRefused
    BY <1>6 DEF SendRefused
<1>7. CASE WaitConfirmed
    BY <1>7 DEF WaitConfirmed
<1>8. CASE WaitFails
    BY <1>8 DEF WaitFails
<1>9. CASE DecaySleep
    BY <1>9 DEF DecaySleep
<1>10. CASE TxStatus
    BY <1>10 DEF TxStatus
<1>11. CASE ConfirmSolana
    BY <1>11, <1>a, <1>b DEF ConfirmSolana
<1>12. CASE Recover
    BY <1>12 DEF RecordsWithUnconfirmedSolana, Recover
<1>13. CASE DecaySleepAll
    BY <1>13 DEF DecaySleepAll
<1>14. CASE TxStatusAll
    BY <1>14 DEF TxStatusAll
<1>15. CASE Apply
    <2>1. PICK b \in stale : Resolve(b) /\ stale' = stale \ {b}
        BY <1>15 DEF Apply
    <2>2. confirmed' \subseteq TxIDs /\ solanaID' \in [Burns -> TxIDs \cup {NoTx}]
        BY <2>1, <1>15, ResolveType DEF Apply
    <2>. QED
        BY <1>15, <2>1, <2>2, <1>c DEF Apply
<1>16. CASE CompareSupplyToSolana
    BY <1>16 DEF CompareSupplyToSolana
<1>17. CASE FetchRetries
    BY <1>17, FetchAllType DEF Types, FetchRetries
<1>18. CASE FetchFails
    BY <1>18 DEF FetchFails
<1>19. CASE BuildFails
    BY <1>19 DEF BuildFails
<1>20. CASE AddSolanaTransactionFails
    <2>1. CASE UNCHANGED solanaID
        BY <1>20, <2>1 DEF AddSolanaTransactionFails
    <2>2. CASE solanaID' = [solanaID EXCEPT ![Req] = curTx]
        BY <1>20, <2>2, <1>a, <1>b, SMTT(30) DEF AddSolanaTransactionFails
    <2>. QED
        BY <1>20, <2>1, <2>2 DEF AddSolanaTransactionFails
<1>21. CASE SendFails
    BY <1>21 DEF SendFails
<1>22. CASE TxStatusFails
    BY <1>22 DEF TxStatusFails
<1>23. CASE ConfirmSolanaFails
    BY <1>23, <1>b DEF ConfirmSolanaFails
<1>24. CASE StartFails
    <2>1. confirmed' \subseteq TxIDs /\ solanaID' \in [Burns -> TxIDs \cup {NoTx}]
        <3>1. CASE UNCHANGED dbVars
            BY <3>1
        <3>2. CASE pc = "apply" /\ \E b \in stale : Resolve(b)
            BY <3>2, ResolveType
        <3>. QED
            BY <1>24, <3>1, <3>2 DEF StartFails
    <2>. QED
        BY <1>24, <2>1 DEF StartFails
<1>25. CASE Crash
    BY <1>25 DEF Crash
<1>26. CASE Restart
    BY <1>26 DEF Restart
<1>27. CASE TimePasses
    BY <1>27 DEF TimePasses
<1>28. ASSUME NEW b \in Burns, InsertTransport(b) PROVE TypeOK'
    <2>1. MaxAfter(OfType(rows, TypeOf[b])) \in Nat
        BY EndOfTable
    <2>. QED
        BY <1>28, <2>1 DEF InsertTransport
<1>29. ASSUME NEW id \in TxIDs, Land(id) PROVE TypeOK'
    <2>1. txBurn[id] \in Burns
        BY <1>29 DEF Land, Contract
    <2>2. CASE SupplyMatches(id)
        <3>1. TypeOf[txBurn[id]] \in Types /\ Amount[txBurn[id]] \in Nat
            BY <2>1
        <3>2. supply' \in [Types -> Nat]
            BY <1>29, <2>2, <3>1 DEF Land
        <3>3. txState' = [txState EXCEPT ![id] = "minted"]
            BY <1>29, <2>2 DEF Land
        <3>. QED
            BY <1>29, <3>2, <3>3 DEF Land
    <2>3. CASE ~SupplyMatches(id)
        BY <1>29, <2>3 DEF Land
    <2>. QED
        BY <2>2, <2>3
<1>30. ASSUME NEW id \in TxIDs, Drop(id) PROVE TypeOK'
    BY <1>30 DEF Drop
<1>31. CASE UNCHANGED vars
    BY <1>31 DEF vars
<1>. QED
    BY <1>1, <1>2, <1>3, <1>4, <1>5, <1>6, <1>7, <1>8, <1>9, <1>10, <1>11, <1>12, <1>13, <1>14, <1>15, <1>16, <1>17, <1>18, <1>19, <1>20, <1>21, <1>22, <1>23, <1>24, <1>25, <1>26, <1>27, <1>28, <1>29, <1>30, <1>31
    DEF Next, ServerStep, ServerFault, StartStep, MintStep

-----------------------------------------------------------------------------
(* The tables: only InsertTransport writes a row.                           *)

LEMMA RowsStep ==
    ASSUME [Next]_vars
    PROVE  UNCHANGED <<rows, before, after>> \/ \E b \in Burns : InsertTransport(b)
BY DEF Next, vars, dbVars, ServerStep, ServerFault, StartStep, MintStep,
    Tick, Fetch, BuildTransaction, AddSolanaTransaction, Send, SendRefused, WaitConfirmed,
    WaitFails, DecaySleep, TxStatus, ConfirmSolana, Recover, DecaySleepAll, TxStatusAll, Apply,
    CompareSupplyToSolana, FetchRetries, FetchFails, BuildFails, AddSolanaTransactionFails,
    SendFails, TxStatusFails, ConfirmSolanaFails, StartFails, Crash, Restart, TimePasses,
    Land, Drop

\* The new row lies above every row of its type.
LEMMA NewRow ==
    ASSUME TypeOK, Intervals, NEW b \in Burns, InsertTransport(b)
    PROVE  /\ b \notin rows /\ rows' = rows \cup {b}
           /\ before'[b] \in Nat /\ after'[b] = before'[b] + Amount[b]
           /\ \A c \in rows : before'[c] = before[c] /\ after'[c] = after[c]
           /\ \A c \in OfType(rows, TypeOf[b]) : after[c] <= before'[b]
           /\ OfType(rows, TypeOf[b]) = {} => before'[b] = 0
<1>. DEFINE top == MaxAfter(OfType(rows, TypeOf[b]))
<1>1. /\ b \in Burns \ rows
      /\ before' = [before EXCEPT ![b] = top]
      /\ after' = [after EXCEPT ![b] = top + Amount[b]]
      /\ rows' = rows \cup {b}
    BY DEF InsertTransport
<1>2. TypeOf[b] \in Types
    BY PipelineAssumption
<1>3. /\ top \in Nat
      /\ \A c \in OfType(rows, TypeOf[b]) : after[c] <= top
      /\ OfType(rows, TypeOf[b]) = {} => top = 0
    BY <1>2, EndOfTable
<1>. HIDE DEF top
<1>4. before'[b] = top /\ after'[b] = top + Amount[b]
    BY <1>1 DEF TypeOK
<1>5. \A c \in rows : before'[c] = before[c] /\ after'[c] = after[c]
    BY <1>1 DEF TypeOK
<1>. QED
    BY <1>1, <1>3, <1>4, <1>5

LEMMA IntervalsStep ==
    ASSUME TypeOK, Intervals, [Next]_vars
    PROVE  Intervals'
<1>1. CASE UNCHANGED <<rows, before, after>>
    BY <1>1 DEF Intervals, OfType
<1>2. ASSUME NEW b \in Burns, InsertTransport(b) PROVE Intervals'
    <2>. DEFINE Rows(t) == OfType(rows, t)
    <2>1. /\ b \notin rows /\ rows' = rows \cup {b}
          /\ before'[b] \in Nat /\ after'[b] = before'[b] + Amount[b]
          /\ \A c \in rows : before'[c] = before[c] /\ after'[c] = after[c]
          /\ \A c \in Rows(TypeOf[b]) : after[c] <= before'[b]
        BY <1>2, NewRow
    <2>2. Amount[b] \in Nat \ {0} /\ \A c \in rows : after[c] \in Nat /\ before[c] \in Nat
        BY PipelineAssumption DEF TypeOK
    <2>3. \A c \in rows' : after'[c] = before'[c] + Amount[c]
        BY <2>1 DEF Intervals
    <2>4. ASSUME NEW c \in rows', NEW d \in rows', TypeOf[c] = TypeOf[d], c # d
          PROVE  after'[c] <= before'[d] \/ after'[d] <= before'[c]
        <3>1. CASE c \in rows /\ d \in rows
            BY <2>1, <2>4, <3>1 DEF Intervals
        <3>2. CASE c = b \/ d = b
            BY <2>1, <2>4, <3>2 DEF OfType
        <3>. QED
            BY <2>1, <3>1, <3>2
    <2>5. ASSUME NEW t \in Types, OfType(rows', t) # {}
          PROVE  \E c \in OfType(rows', t) : \A d \in OfType(rows', t) : after'[d] <= after'[c]
        <3>1. CASE t = TypeOf[b]
            <4>1. b \in OfType(rows', t)
                BY <2>1, <3>1 DEF OfType
            <4>2. \A d \in OfType(rows', t) : after'[d] <= after'[b]
                BY <2>1, <2>2, <3>1 DEF OfType
            <4>. QED
                BY <4>1, <4>2
        <3>2. CASE t # TypeOf[b]
            <4>1. OfType(rows', t) = Rows(t)
                BY <2>1, <3>2 DEF OfType
            <4>2. PICK c \in Rows(t) : \A d \in Rows(t) : after[d] <= after[c]
                BY <2>5, <4>1 DEF Intervals
            <4>3. \A d \in Rows(t) : after'[d] = after[d]
                BY <2>1 DEF OfType
            <4>. QED
                BY <4>1, <4>2, <4>3
        <3>. QED
            BY <3>1, <3>2
    <2>6. \A t \in Types : OfType(rows, t)' = OfType(rows', t)
        BY DEF OfType
    <2>. QED
        BY <2>3, <2>4, <2>5, <2>6 DEF Intervals
<1>. QED
    BY <1>1, <1>2, RowsStep

-----------------------------------------------------------------------------
(* The chain: what a step can do to the transactions and to the supply.     *)

\* Apart from a transaction that lands, a step mints nothing and unmints nothing;
\* a transaction leaves the state "none" for its row to be found by.
LEMMA ChainStep ==
    ASSUME TypeOK, Contract, Server, [Next]_vars
    PROVE  \/ /\ UNCHANGED supply
              /\ \A id \in TxIDs :
                    /\ txState'[id] = "minted" <=> txState[id] = "minted"
                    /\ txState[id] = "minted" => txBurn'[id] = txBurn[id]
                    /\ txState'[id] # "none" => txBurn'[id] \in rows
           \/ \E id \in TxIDs : Land(id) /\ SupplyMatches(id)
<1>. DEFINE Still ==
       /\ UNCHANGED supply
       /\ \A id \in TxIDs :
             /\ txState'[id] = "minted" <=> txState[id] = "minted"
             /\ txState[id] = "minted" => txBurn'[id] = txBurn[id]
             /\ txState'[id] # "none" => txBurn'[id] \in rows
<1>1. CASE UNCHANGED chainVars
    BY <1>1 DEF chainVars, Contract
<1>2. CASE BuildTransaction
    <2>1. PICK id \in FreshIDs : /\ txState' = [txState EXCEPT ![id] = "none"]
                                 /\ txBurn' = [txBurn EXCEPT ![id] = Req]
        BY <1>2 DEF BuildTransaction
    <2>. QED
        BY <1>2, <2>1 DEF BuildTransaction, FreshIDs, TypeOK, Contract
<1>3. CASE Send \/ SendFails
    <2>1. /\ curTx \in TxIDs /\ txState[curTx] = "none" /\ txBurn[curTx] \in rows
        BY <1>3, ReqIsRow DEF Send, SendFails, Server, MintPCs
    <2>2. /\ txBurn' = txBurn /\ supply' = supply
          /\ txState' = txState \/ txState' = [txState EXCEPT ![curTx] = "pending"]
        BY <1>3 DEF Send, SendFails
    <2>. QED
        BY <2>1, <2>2 DEF TypeOK, Contract
<1>4. ASSUME NEW id \in TxIDs, Land(id), ~SupplyMatches(id) PROVE Still
    BY <1>4 DEF Land, TypeOK, Contract
<1>5. ASSUME NEW id \in TxIDs, Drop(id) PROVE Still
    BY <1>5 DEF Drop, TypeOK, Contract
<1>. QED
    BY <1>1, <1>2, <1>3, <1>4, <1>5
    DEF Next, vars, dbVars, chainVars, ServerStep, ServerFault, StartStep, MintStep,
    Tick, Fetch, AddSolanaTransaction, SendRefused, WaitConfirmed, WaitFails,
    DecaySleep, TxStatus, ConfirmSolana, Recover, DecaySleepAll, TxStatusAll, Apply,
    CompareSupplyToSolana, FetchRetries, FetchFails, BuildFails, AddSolanaTransactionFails,
    TxStatusFails, ConfirmSolanaFails, StartFails, Crash, Restart, TimePasses,
    InsertTransport

\* A new row extends its table above everything minted.
LEMMA ContractInsert ==
    ASSUME TypeOK, Intervals, Contract, NEW b \in Burns, InsertTransport(b)
    PROVE  Contract'
<1>1. /\ b \notin rows /\ rows' = rows \cup {b}
      /\ before'[b] \in Nat /\ after'[b] = before'[b] + Amount[b]
      /\ \A c \in rows : before'[c] = before[c] /\ after'[c] = after[c]
      /\ \A c \in OfType(rows, TypeOf[b]) : after[c] <= before'[b]
      /\ OfType(rows, TypeOf[b]) = {} => before'[b] = 0
    BY NewRow
<1>2. UNCHANGED <<supply, txState, txBurn>>
    BY DEF InsertTransport, chainVars
<1>3. Minted' = Minted
    BY <1>2 DEF Minted
<1>4. TypeOf[b] \in Types /\ Amount[b] \in Nat \ {0}
    BY PipelineAssumption
<1>5. supply[TypeOf[b]] \in Nat /\ supply[TypeOf[b]] <= before'[b]
    <2>1. supply[TypeOf[b]] = 0 \/ \E c \in OfType(rows, TypeOf[b]) : after[c] = supply[TypeOf[b]]
        BY <1>4 DEF Contract
    <2>. QED
        BY <1>1, <1>4, <2>1 DEF TypeOK
<1>6. b \notin Minted
    BY <1>1 DEF Minted, Contract
<1>7. MintedPrefix'
    BY <1>1, <1>2, <1>3, <1>4, <1>5, <1>6 DEF MintedPrefix, Contract
<1>8. MintedAtMostOnce'
    BY <1>2 DEF MintedAtMostOnce, Contract
<1>9. \A t \in Types : supply[t] = 0 \/ \E c \in OfType(rows, t)' : after'[c] = supply[t]
    BY <1>1 DEF Contract, OfType
<1>. QED
    BY <1>1, <1>2, <1>7, <1>8, <1>9 DEF Contract

\* A transaction that lands finds the supply at the start of its row: it mints the
\* first row that is not minted, and no other.
LEMMA ContractMint ==
    ASSUME TypeOK, Intervals, Contract, NEW id \in TxIDs, Land(id), SupplyMatches(id)
    PROVE  /\ Contract'
           /\ txBurn[id] \in rows \ Minted
           /\ Minted' = Minted \cup {txBurn[id]}
<1>. DEFINE b == txBurn[id]
            t == TypeOf[b]
<1>1. /\ txState[id] = "pending"
      /\ txState' = [txState EXCEPT ![id] = "minted"]
      /\ supply' = [supply EXCEPT ![t] = @ + Amount[b]]
      /\ UNCHANGED <<rows, before, after, txBurn>>
      /\ supply[t] = before[b]
    BY DEF Land, SupplyMatches, dbVars
<1>2. b \in rows /\ b \in Burns
    BY <1>1 DEF Contract, TypeOK
<1>3. t \in Types /\ Amount[b] \in Nat \ {0} /\ before[b] \in Nat /\ after[b] = before[b] + Amount[b]
    BY <1>2, PipelineAssumption DEF TypeOK, Intervals
<1>4. supply'[t] = after[b] /\ \A u \in Types \ {t} : supply'[u] = supply[u]
    BY <1>1, <1>3 DEF TypeOK
<1>5. b \notin Minted
    BY <1>1, <1>2, <1>3 DEF Contract, MintedPrefix
<1>6. Minted' = Minted \cup {b}
    BY <1>1 DEF Minted, TypeOK
<1>. HIDE DEF b, t
<1>7. ASSUME NEW c \in rows
      PROVE  /\ c \in Minted' <=> after[c] <= supply'[TypeOf[c]]
             /\ c \notin Minted' <=> supply'[TypeOf[c]] <= before[c]
    <2>1. /\ TypeOf[c] \in Types /\ after[c] \in Nat /\ before[c] \in Nat
          /\ after[c] = before[c] + Amount[c] /\ Amount[c] \in Nat \ {0}
          /\ supply[TypeOf[c]] \in Nat
        BY PipelineAssumption DEF TypeOK, Intervals
    <2>2. /\ c \in Minted <=> after[c] <= supply[TypeOf[c]]
          /\ c \notin Minted <=> supply[TypeOf[c]] <= before[c]
        BY DEF Contract, MintedPrefix
    <2>3. CASE c = b
        BY <1>3, <1>4, <1>6, <2>1, <2>3 DEF t
    <2>4. CASE c # b /\ TypeOf[c] = t
        <3>1. after[c] <= before[b] \/ after[b] <= before[c]
            BY <1>2, <2>4 DEF Intervals, t
        <3>. QED
            BY <1>1, <1>3, <1>4, <1>6, <2>1, <2>2, <2>4, <3>1
    <2>5. CASE TypeOf[c] # t
        BY <1>4, <1>6, <2>1, <2>2, <2>5 DEF t
    <2>. QED
        BY <2>3, <2>4, <2>5
<1>8. MintedPrefix'
    BY <1>1, <1>7 DEF MintedPrefix
<1>9. MintedAtMostOnce'
    <2>1. ASSUME NEW i \in TxIDs, NEW j \in TxIDs, txState'[i] = "minted", txState'[j] = "minted",
                 txBurn[i] = txBurn[j], i # j
          PROVE  FALSE
        <3>1. CASE i # id /\ j # id
            BY <1>1, <2>1, <3>1 DEF Contract, MintedAtMostOnce, TypeOK
        <3>2. CASE i = id \/ j = id
            BY <1>1, <1>5, <2>1, <3>2 DEF Minted, TypeOK, b
        <3>. QED
            BY <3>1, <3>2
    <2>. QED
        BY <1>1, <2>1 DEF MintedAtMostOnce
<1>10. \A u \in Types : supply'[u] = 0 \/ \E c \in OfType(rows, u) : after[c] = supply'[u]
    <2>1. b \in OfType(rows, t)
        BY <1>2 DEF OfType, t
    <2>. QED
        BY <1>3, <1>4, <2>1 DEF Contract
<1>11. \A i \in TxIDs : txState'[i] # "none" => txBurn[i] \in rows
    BY <1>1, <1>2 DEF Contract, TypeOK, b
<1>12. Contract'
    BY <1>1, <1>8, <1>9, <1>10, <1>11 DEF Contract, OfType
<1>. QED
    BY <1>2, <1>5, <1>6, <1>12 DEF b

LEMMA ContractStep ==
    ASSUME TypeOK, Intervals, Contract, Server, [Next]_vars
    PROVE  Contract'
<1>1. ASSUME NEW b \in Burns, InsertTransport(b) PROVE Contract'
    BY <1>1, ContractInsert
<1>2. ASSUME NEW id \in TxIDs, Land(id), SupplyMatches(id) PROVE Contract'
    BY <1>2, ContractMint
<1>3. ASSUME UNCHANGED <<rows, before, after>>, UNCHANGED supply,
             \A id \in TxIDs :
                    /\ txState'[id] = "minted" <=> txState[id] = "minted"
                    /\ txState[id] = "minted" => txBurn'[id] = txBurn[id]
                    /\ txState'[id] # "none" => txBurn'[id] \in rows
      PROVE  Contract'
    <2>1. Minted' = Minted
        BY <1>3 DEF Minted
    <2>2. MintedPrefix'
        BY <1>3, <2>1 DEF MintedPrefix, Contract
    <2>3. MintedAtMostOnce'
        BY <1>3 DEF MintedAtMostOnce, Contract
    <2>. QED
        BY <1>3, <2>2, <2>3 DEF Contract, OfType
<1>. QED
    BY <1>1, <1>2, <1>3, ChainStep, RowsStep

-----------------------------------------------------------------------------
(* The records: what the database says of a transaction.                    *)

LEMMA RecordsStep ==
    ASSUME TypeOK, Intervals, Contract, Records, Server, [Next]_vars
    PROVE  Records'
<1>. USE DEF TypeOK, Records, Pending
<1>1. CASE UNCHANGED <<rows, solanaID, confirmed, txState, txBurn>>
    BY <1>1
<1>2. ASSUME NEW b \in Burns, InsertTransport(b) PROVE Records'
    BY <1>2 DEF InsertTransport, chainVars
<1>3. CASE BuildTransaction
    <2>1. PICK id \in FreshIDs : /\ txState' = [txState EXCEPT ![id] = "none"]
                                 /\ txBurn' = [txBurn EXCEPT ![id] = Req]
        BY <1>3 DEF BuildTransaction
    <2>2. UNCHANGED <<rows, solanaID, confirmed>>
        BY <1>3 DEF BuildTransaction, dbVars
    <2>. QED
        BY <2>1, <2>2 DEF FreshIDs
<1>4. CASE AddSolanaTransaction \/ AddSolanaTransactionFails
    <2>1. curTx \in TxIDs /\ txBurn[curTx] = Req /\ txState[curTx] = "none" /\ Req \in rows
        BY <1>4, ReqIsRow DEF AddSolanaTransaction, AddSolanaTransactionFails, Server, MintPCs
    <2>2. \A id \in Pending : pc \notin {"record"}
        BY DEF Server
    <2>3. /\ UNCHANGED <<rows, confirmed, txState, txBurn>>
          /\ solanaID' = solanaID \/ solanaID' = [solanaID EXCEPT ![Req] = curTx]
          /\ pc = "record"
        BY <1>4 DEF AddSolanaTransaction, AddSolanaTransactionFails, chainVars
    <2>. QED
        BY <2>1, <2>2, <2>3
<1>5. CASE Send \/ SendFails
    <2>1. curTx \in TxIDs /\ txBurn[curTx] = Req /\ txState[curTx] = "none" /\ solanaID[Req] = curTx
        BY <1>5 DEF Send, SendFails, Server, MintPCs
    <2>2. \A id \in Pending : pc # "send"
        BY DEF Server
    <2>3. /\ UNCHANGED <<rows, solanaID, confirmed, txBurn>>
          /\ txState' = txState \/ txState' = [txState EXCEPT ![curTx] = "pending"]
          /\ pc = "send"
        BY <1>5 DEF Send, SendFails, dbVars
    <2>. QED
        BY <2>1, <2>2, <2>3
<1>6. ASSUME NEW id \in TxIDs, Land(id) \/ Drop(id) PROVE Records'
    <2>1. /\ UNCHANGED <<rows, solanaID, confirmed, txBurn>>
          /\ txState[id] = "pending"
          /\ \E s \in {"none", "minted", "failed"} : txState' = [txState EXCEPT ![id] = s]
        BY <1>6 DEF Land, Drop, dbVars
    <2>. QED
        BY <2>1
<1>7. CASE ConfirmSolana \/ ConfirmSolanaFails
    <2>1. curTx \in TxIDs /\ txState[curTx] = "minted"
        BY <1>7 DEF ConfirmSolana, ConfirmSolanaFails, Server, MintPCs
    <2>2. /\ UNCHANGED <<rows, solanaID, txState, txBurn>>
          /\ confirmed' = confirmed \/ confirmed' = confirmed \cup {curTx}
        BY <1>7 DEF ConfirmSolana, ConfirmSolanaFails, chainVars
    <2>. QED
        BY <2>1, <2>2
<1>8. ASSUME NEW b \in stale, pc = "apply", Resolve(b), UNCHANGED <<rows, txState, txBurn>>
      PROVE  Records'
    <2>1. \A id \in Pending : FALSE
        BY <1>8 DEF Server
    <2>2. solanaID[b] \in TxIDs
        BY <1>8 DEF Server
    <2>3. CASE b \in found
        BY <1>8, <2>1, <2>2, <2>3 DEF Resolve, Server
    <2>4. CASE b \notin found
        BY <1>8, <2>1, <2>4 DEF Resolve
    <2>. QED
        BY <2>3, <2>4
<1>9. CASE Apply
    BY <1>8, <1>9 DEF Apply, chainVars
<1>10. CASE StartFails
    BY <1>1, <1>8, <1>10 DEF StartFails, dbVars, chainVars
<1>. QED
    BY <1>1, <1>2, <1>3, <1>4, <1>5, <1>6, <1>7, <1>9, <1>10
    DEF Next, vars, dbVars, chainVars, ServerStep, ServerFault, StartStep, MintStep,
    Tick, Fetch, SendRefused, WaitConfirmed, WaitFails, DecaySleep, TxStatus, Recover,
    DecaySleepAll, TxStatusAll, CompareSupplyToSolana, FetchRetries, FetchFails, BuildFails,
    TxStatusFails, Crash, Restart, TimePasses

-----------------------------------------------------------------------------
(* The server: where it is, and what can be in flight meanwhile.            *)

LEMMA ServerStepInv ==
    ASSUME TypeOK, Contract, Records, Server, [Next]_vars
    PROVE  Server'
<1>. USE DEF TypeOK, Server, Pending, Req, MintPCs, FetchPCs, StartPCs, Goto, dbVars, chainVars, serverVars
<1>1. CASE Tick
    BY <1>1 DEF Tick
<1>2. CASE SendRefused
    BY <1>2 DEF SendRefused
<1>3. CASE WaitConfirmed
    BY <1>3 DEF WaitConfirmed
<1>4. CASE WaitFails
    BY <1>4 DEF WaitFails
<1>5. CASE DecaySleep
    BY <1>5 DEF DecaySleep
<1>6. CASE TxStatus
    BY <1>6 DEF TxStatus, StatusMinted, StatusMintSuccessful
<1>7. CASE TxStatusFails
    BY <1>7 DEF TxStatusFails
<1>8. CASE BuildFails
    BY <1>8 DEF BuildFails
<1>9. CASE FetchFails
    BY <1>9 DEF FetchFails
<1>10. CASE Crash
    BY <1>10 DEF Crash
<1>11. CASE Restart
    BY <1>11 DEF Restart
<1>12. CASE TimePasses
    BY <1>12 DEF TimePasses
<1>13. CASE CompareSupplyToSolana
    BY <1>13 DEF CompareSupplyToSolana
<1>14. CASE UNCHANGED vars
    BY <1>14 DEF vars
<1>15. CASE Fetch \/ FetchRetries
    <2>1. todo' \in Seq(rows)
        BY <1>15, FetchAllType DEF Fetch, FetchRetries, Types
    <2>. QED
        BY <1>15, <2>1 DEF Fetch, FetchRetries
<1>16. CASE BuildTransaction
    <2>1. PICK id \in FreshIDs : /\ curTx' = id
                                 /\ txState' = [txState EXCEPT ![id] = "none"]
                                 /\ txBurn' = [txBurn EXCEPT ![id] = Req]
        BY <1>16 DEF BuildTransaction
    <2>. QED
        BY <1>16, <2>1 DEF BuildTransaction, FreshIDs
<1>17. CASE AddSolanaTransaction
    BY <1>17, ReqIsRow DEF AddSolanaTransaction
<1>18. CASE AddSolanaTransactionFails
    <2>1. /\ pc' = "build" /\ pc = "record"
          /\ UNCHANGED <<rows, todo, txState>>
        BY <1>18 DEF AddSolanaTransactionFails
    <2>. QED
        BY <2>1
<1>19. CASE Send
    BY <1>19 DEF Send
<1>20. CASE SendFails
    <2>1. /\ pc = "send" /\ pc' = "decay"
          /\ UNCHANGED <<rows, todo, solanaID, txBurn, curTx>>
          /\ txState' = txState \/ txState' = [txState EXCEPT ![curTx] = "pending"]
        BY <1>20 DEF SendFails
    <2>. QED
        BY <2>1
<1>21. CASE ConfirmSolana
    <2>1. Tail(todo) \in Seq(rows)
        BY <1>21, ReqIsRow DEF ConfirmSolana
    <2>. QED
        BY <1>21, <2>1 DEF ConfirmSolana
<1>22. CASE ConfirmSolanaFails
    BY <1>22 DEF ConfirmSolanaFails
<1>23. CASE Recover
    <2>1. \A id \in Pending : txBurn[id] \in RecordsWithUnconfirmedSolana
        BY PipelineAssumption DEF RecordsWithUnconfirmedSolana, Records, Contract
    <2>. QED
        BY <1>23, <2>1 DEF Recover, RecordsWithUnconfirmedSolana
<1>24. CASE DecaySleepAll
    BY <1>24 DEF DecaySleepAll, Records
<1>25. CASE TxStatusAll
    BY <1>25 DEF TxStatusAll, StatusMinted, StatusMintSuccessful
<1>26. CASE Apply
    <2>1. PICK b \in stale : Resolve(b) /\ stale' = stale \ {b}
        BY <1>26 DEF Apply
    <2>2. \A c \in stale \ {b} : solanaID'[c] = solanaID[c]
        BY <2>1 DEF Resolve
    <2>. QED
        BY <1>26, <2>1, <2>2 DEF Apply
<1>27. CASE StartFails
    BY <1>27 DEF StartFails
<1>28. ASSUME NEW b \in Burns, InsertTransport(b) PROVE Server'
    <2>1. /\ rows' = rows \cup {b}
          /\ UNCHANGED <<solanaID, confirmed, txState, txBurn, pc, todo, curTx, stale, found>>
        BY <1>28 DEF InsertTransport
    <2>2. todo \in Seq(rows')
        BY <2>1
    <2>. QED
        BY <2>1, <2>2
<1>29. ASSUME NEW id \in TxIDs, Land(id) \/ Drop(id) PROVE Server'
    <2>1. /\ UNCHANGED <<rows, solanaID, txBurn, pc, todo, curTx, stale, found>>
          /\ txState[id] = "pending"
          /\ \E s \in {"none", "minted", "failed"} : txState' = [txState EXCEPT ![id] = s]
        BY <1>29 DEF Land, Drop
    <2>. QED
        BY <2>1
<1>. QED
    BY <1>1, <1>2, <1>3, <1>4, <1>5, <1>6, <1>7, <1>8, <1>9, <1>10, <1>11, <1>12, <1>13, <1>14, <1>15, <1>16, <1>17, <1>18, <1>19, <1>20, <1>21, <1>22, <1>23, <1>24, <1>25, <1>26, <1>27, <1>28, <1>29
    DEF Next, ServerStep, ServerFault, StartStep, MintStep

-----------------------------------------------------------------------------
(* The theorems.  They hold whatever StatusMayFail and ReadsMayRetry are.   *)

LEMMA IInvInit == Init => IInv
<1>. SUFFICES ASSUME Init PROVE IInv
    OBVIOUS
<1>1. TypeOK
    BY TypeInit
<1>2. Intervals /\ Records /\ Server
    BY PipelineAssumption
    DEF Init, Intervals, Records, Server, Pending, OfType, MintPCs
<1>3. Contract
    BY DEF Init, Contract, MintedPrefix, MintedAtMostOnce, Minted
<1>. QED
    BY <1>1, <1>2, <1>3 DEF IInv

LEMMA IInvStep == IInv /\ [Next]_vars => IInv'
BY TypeStep, IntervalsStep, ContractStep, RecordsStep, ServerStepInv DEF IInv

LEMMA IInvHolds == Spec => []IInv
BY IInvInit, IInvStep, PTL DEF Spec

\* Every variable keeps its type.
THEOREM TypeCorrect == Spec => []TypeOK
<1>1. IInv => TypeOK
    BY DEF IInv
<1>. QED
    BY IInvHolds, <1>1, PTL

\* No burn is minted twice: the contract's supply check, together with the disjoint
\* intervals that insertTransport hands out, is enough under any retry and crash.
THEOREM NoDoubleMint == Spec => []MintedAtMostOnce
<1>1. IInv => MintedAtMostOnce
    BY DEF IInv, Contract
<1>. QED
    BY IInvHolds, <1>1, PTL

\* The supply of a type is at every moment the total of a prefix of its table.
THEOREM SupplyIsPrefix == Spec => []MintedPrefix
<1>1. IInv => MintedPrefix
    BY DEF IInv, Contract
<1>. QED
    BY IInvHolds, <1>1, PTL

\* What the database reports as completed has been minted by the recorded transaction.
THEOREM CompletedMeansMinted == Spec => []CompletedIsMinted
<1>1. IInv => CompletedIsMinted
    BY PipelineAssumption DEF IInv, TypeOK, Records, CompletedIsMinted, Completed
<1>. QED
    BY IInvHolds, <1>1, PTL

\* A crash can leave at most one transaction behind, and the recovery finds it.
THEOREM AtMostOneInFlight == Spec => []OneInFlight
<1>1. IInv => OneInFlight
    BY DEF IInv, Records, OneInFlight, Pending
<1>. QED
    BY IInvHolds, <1>1, PTL

-----------------------------------------------------------------------------
(* What a step does to the records and to the list of requests.             *)

LEMMA RecordChange ==
    ASSUME [Next]_vars
    PROVE  \/ UNCHANGED <<solanaID, confirmed>>
           \/ /\ pc = "record" /\ UNCHANGED confirmed
              /\ solanaID' = [solanaID EXCEPT ![Req] = curTx]
           \/ /\ pc = "confirm" /\ UNCHANGED solanaID
              /\ confirmed' = confirmed \cup {curTx}
           \/ pc = "apply" /\ \E b \in stale : Resolve(b)
BY DEF Next, vars, dbVars, ServerStep, ServerFault, StartStep, MintStep, InsertTransport,
    Tick, Fetch, BuildTransaction, AddSolanaTransaction, Send, SendRefused, WaitConfirmed,
    WaitFails, DecaySleep, TxStatus, ConfirmSolana, Recover, DecaySleepAll, TxStatusAll, Apply,
    CompareSupplyToSolana, FetchRetries, FetchFails, BuildFails, AddSolanaTransactionFails,
    SendFails, TxStatusFails, ConfirmSolanaFails, StartFails, Crash, Restart, TimePasses,
    Land, Drop

LEMMA RequestsShift ==
    ASSUME [Next]_vars
    PROVE  \/ todo' \in {todo, <<>>}
           \/ \E t \in Types : FetchAll(t)
           \/ ConfirmSolana
BY DEF Next, vars, dbVars, serverVars, ServerStep, ServerFault, StartStep, MintStep,
    InsertTransport, Types,
    Tick, Fetch, BuildTransaction, AddSolanaTransaction, Send, SendRefused, WaitConfirmed,
    WaitFails, DecaySleep, TxStatus, Recover, DecaySleepAll, TxStatusAll, Apply,
    CompareSupplyToSolana, FetchRetries, FetchFails, BuildFails, AddSolanaTransactionFails,
    SendFails, TxStatusFails, ConfirmSolanaFails, StartFails, Crash, Restart, TimePasses,
    Land, Drop

\* The clock only goes on.
LEMMA ClockStep ==
    ASSUME TypeOK, [Next]_vars
    PROVE  now \in Nat /\ now' \in Nat /\ now <= now'
<1>1. UNCHANGED now \/ TimePasses
    BY DEF Next, vars, dbVars, serverVars, ServerStep, ServerFault, StartStep, MintStep,
    InsertTransport,
    Tick, Fetch, BuildTransaction, AddSolanaTransaction, Send, SendRefused, WaitConfirmed,
    WaitFails, DecaySleep, TxStatus, ConfirmSolana, Recover, DecaySleepAll, TxStatusAll, Apply,
    CompareSupplyToSolana, FetchRetries, FetchFails, BuildFails, AddSolanaTransactionFails,
    SendFails, TxStatusFails, ConfirmSolanaFails, StartFails, Crash, Restart, TimePasses,
    Land, Drop
<1>2. now \in Nat
    BY PipelineAssumption DEF TypeOK
<1>3. CASE UNCHANGED now
    BY <1>2, <1>3
<1>4. CASE TimePasses
    BY <1>2, <1>4, PipelineAssumption DEF TimePasses
<1>. QED
    BY <1>1, <1>3, <1>4

-----------------------------------------------------------------------------
(* The schedule.  A regular row may be minted later than it was fetched or   *)
(* recorded, so what has been allowed once has to stay allowed.             *)

InHand(b) == solanaID[b] # NoTx \/ \E i \in DOMAIN todo : todo[i] = b

Scheduled ==
    /\ EmissionRespected
    /\ \A b \in OfType(rows, "regular") : InHand(b) => after[b] <= AllowedSupply(now)

\* Whatever a step takes in hand has been allowed.
LEMMA ScheduledStep ==
    ASSUME IInv, Scheduled, [Next]_vars
    PROVE  Scheduled'
<1>a. TypeOK /\ Intervals /\ Contract /\ Records /\ Server
    BY DEF IInv
<1>b. /\ AllowedSupply(now) \in Nat /\ AllowedSupply(now') \in Nat
      /\ AllowedSupply(now) <= AllowedSupply(now')
    BY <1>a, ClockStep, AllowedType, AllowedMonotone
<1>c. supply["regular"] \in Nat /\ \A b \in rows : after[b] \in Nat
    BY <1>a DEF TypeOK, Types
<1>1. ASSUME NEW id \in TxIDs, Land(id), SupplyMatches(id)
      PROVE  EmissionRespected'
    <2>. DEFINE b == txBurn[id]
    <2>1. /\ b \in rows /\ solanaID[b] = id
          /\ supply' = [supply EXCEPT ![TypeOf[b]] = @ + Amount[b]]
          /\ supply[TypeOf[b]] = before[b] /\ after[b] = before[b] + Amount[b]
        BY <1>1, <1>a DEF Land, SupplyMatches, Contract, Records, Intervals, Pending
    <2>2. CASE TypeOf[b] = "regular"
        <3>1. supply'["regular"] = after[b]
            BY <1>a, <2>1, <2>2 DEF TypeOK, Types
        <3>2. after[b] <= AllowedSupply(now)
            BY <2>1, <2>2, PipelineAssumption DEF Scheduled, OfType, InHand
        <3>. QED
            BY <1>b, <1>c, <2>1, <3>1, <3>2 DEF EmissionRespected
    <2>3. CASE TypeOf[b] # "regular"
        BY <1>a, <1>b, <1>c, <2>1, <2>3 DEF EmissionRespected, Scheduled, TypeOK, Types
    <2>. QED
        BY <2>2, <2>3
<1>2. EmissionRespected'
    BY <1>1, <1>a, <1>b, <1>c, ChainStep DEF EmissionRespected, Scheduled
<1>3. ASSUME NEW b \in rows, TypeOf[b] = "regular", InHand(b)'
      PROVE  after[b] <= AllowedSupply(now)
    <2>1. CASE InHand(b)
        BY <1>3, <2>1 DEF Scheduled, OfType
    <2>2. CASE solanaID'[b] # NoTx /\ ~InHand(b)
        <3>1. CASE pc = "record" /\ solanaID' = [solanaID EXCEPT ![Req] = curTx]
            <4>1. Req \in rows /\ 1 \in DOMAIN todo /\ Req = todo[1]
                BY <1>a, <3>1, ReqIsRow DEF Server, Req, MintPCs
            <4>2. b = Req
                BY <1>a, <2>2, <3>1 DEF InHand, TypeOK
            <4>. QED
                BY <2>2, <4>1, <4>2 DEF InHand
        <3>2. CASE pc = "apply" /\ \E c \in stale : Resolve(c)
            BY <1>a, <2>2, <3>2 DEF InHand, Resolve, TypeOK
        <3>. QED
            BY <2>2, <3>1, <3>2, RecordChange DEF InHand
    <2>3. CASE ~InHand(b) /\ \E i \in DOMAIN todo' : todo'[i] = b
        <3>1. CASE todo' \in {todo, <<>>}
            BY <2>3, <3>1 DEF InHand
        <3>2. CASE ConfirmSolana
            <4>1. todo \in Seq(rows) /\ todo # <<>> /\ todo' = Tail(todo)
                BY <1>a, <3>2 DEF ConfirmSolana, Server, MintPCs
            <4>2. \A i \in DOMAIN todo' : i + 1 \in DOMAIN todo /\ todo'[i] = todo[i + 1]
                BY <4>1
            <4>. QED
                BY <2>3, <4>2 DEF InHand
        <3>3. ASSUME NEW t \in Types, FetchAll(t) PROVE after[b] <= AllowedSupply(now)
            <4>. DEFINE S == Uncompleted(t)
            <4>1. PICK q \in InOrder(S) : todo' = todo \o q
                BY <3>3 DEF FetchAll
            <4>2. S \subseteq rows /\ rows \subseteq Burns
                BY <1>a DEF Uncompleted, OfType, TypeOK
            <4>3. q \in Seq(S)
                BY <4>2, InOrderType
            <4>4. todo \in Seq(rows)
                BY <1>a DEF Server
            <4>. HIDE DEF S
            <4>5. \A i \in DOMAIN todo' :
                      (\E j \in DOMAIN todo : todo[j] = todo'[i]) \/ todo'[i] \in S
                <5>1. q \in Seq(rows)
                    BY <4>2, <4>3
                <5>. QED
                    BY <4>1, <4>3, <4>4, <5>1
            <4>6. b \in S
                BY <2>3, <4>5 DEF InHand
            <4>7. after[b] < AllowedSupply(now)
                BY <1>3, <4>6 DEF S, Uncompleted, OfType
            <4>. QED
                BY <1>b, <1>c, <4>7
        <3>. QED
            BY <3>1, <3>2, <3>3, RequestsShift
    <2>. QED
        BY <1>3, <2>1, <2>2, <2>3 DEF InHand
<1>4. CASE UNCHANGED <<rows, before, after>>
    <2>1. \A b \in OfType(rows, "regular") : InHand(b)' => after[b] <= AllowedSupply(now')
        BY <1>3, <1>b, <1>c DEF OfType
    <2>. QED
        BY <1>2, <1>4, <2>1 DEF Scheduled, OfType
<1>5. ASSUME NEW b \in Burns, InsertTransport(b) PROVE Scheduled'
    <2>1. /\ rows' = rows \cup {b} /\ b \notin rows
          /\ \A c \in rows : after'[c] = after[c]
          /\ UNCHANGED <<solanaID, todo, now>>
        BY <1>5, <1>a, NewRow DEF InsertTransport, serverVars
    <2>2. ~InHand(b)'
        BY <1>a, <2>1 DEF InHand, Records, Server
    <2>3. \A c \in rows : InHand(c)' <=> InHand(c)
        BY <2>1 DEF InHand
    <2>4. \A c \in OfType(rows', "regular") : InHand(c)' => after'[c] <= AllowedSupply(now')
        BY <2>1, <2>2, <2>3 DEF Scheduled, OfType
    <2>. QED
        BY <1>2, <2>4 DEF Scheduled, OfType
<1>. QED
    BY <1>4, <1>5, RowsStep

LEMMA ScheduledHolds == Spec => []Scheduled
<1>1. Init => Scheduled
    BY AllowedType DEF Init, Scheduled, EmissionRespected, OfType, Types
<1>2. IInv /\ Scheduled /\ [Next]_vars => Scheduled'
    BY ScheduledStep
<1>. QED
    BY IInvHolds, <1>1, <1>2, PTL DEF Spec

\* The regular supply never runs ahead of the schedule, however long a request of
\* processMints or a record of a crashed server has waited.
THEOREM SupplyOnSchedule == Spec => []EmissionRespected
<1>1. Scheduled => EmissionRespected
    BY DEF Scheduled
<1>. QED
    BY ScheduledHolds, <1>1, PTL

\* TimeTillSupply is the exact inverse of AllowedSupply for every schedule.
THEOREM ScheduleAlwaysExact == Spec => []ScheduleExact
<1>1. TypeOK => ScheduleExact
    <2>. SUFFICES ASSUME TypeOK, NEW s \in 1..TotalSupply
                  PROVE  /\ AllowedSupply(now) >= s <=> SupplyTime(s) <= now
                         /\ AllowedSupply(now + TimeTillSupply(now, s)) >= s
        BY DEF ScheduleExact
    <2>1. now \in Nat /\ s \in Nat \ {0} /\ s <= TotalSupply
        BY PipelineAssumption, EmissionAssumption DEF TypeOK
    <2>. QED
        BY <2>1, SupplyTimeExact, WaitIsEnough
<1>. QED
    BY TypeCorrect, <1>1, PTL

\* What EmissionTime quotes for an amount is enough for every schedule.
THEOREM EstimateAlwaysEnough == Spec => []EstimateIsEnough
<1>1. TypeOK => EstimateIsEnough
    <2>. SUFFICES ASSUME TypeOK, NEW q \in 0..TotalSupply, ~IsPreminedPeriod(now),
                         AllowedSupply(now) + q <= TotalSupply
                  PROVE  AllowedSupply(now + EmissionTime(q)) >= AllowedSupply(now) + q
        BY DEF EstimateIsEnough
    <2>1. now \in Nat /\ q \in Nat
        BY PipelineAssumption, EmissionAssumption DEF TypeOK
    <2>. QED
        BY <2>1, QuoteIsEnough
<1>. QED
    BY TypeCorrect, <1>1, PTL
=============================================================================
