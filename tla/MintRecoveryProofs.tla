-------------------------- MODULE MintRecoveryProofs --------------------------
(***************************************************************************)
(* What MintPipeline guarantees as long as TxStatus answers inside mint and *)
(* no read-only transaction has to be retried: no mint is forgotten, the    *)
(* contract never refuses a transaction, the server can always be started   *)
(* again, a completed burn stays completed, and the pipeline implements     *)
(* MintLedger.                                                              *)
(***************************************************************************)
EXTENDS MintPipelineProofs

Reliable == ~StatusMayFail /\ ~ReadsMayRetry

-----------------------------------------------------------------------------
(* The strengthening, in five parts.                                        *)

\* An interval starts at 0 or where another interval of the type ends.
Contiguous ==
    \A b \in rows : before[b] = 0 \/ \E c \in OfType(rows, TypeOf[b]) : after[c] = before[b]

Unsettled(b) == solanaID[b] # NoTx /\ ~Completed(b)

\* Which records may be neither free nor completed.
Settled ==
    /\ Serving \/ pc = "compare" =>
          \A b \in rows : Unsettled(b) => pc \in MintPCs /\ b = Req
    /\ pc \in {"decayAll", "statusAll", "apply"} =>
          /\ \A b \in rows : Unsettled(b) => b \in stale
          /\ \A b \in stale : Unsettled(b)
    /\ pc = "apply" => \A b \in stale : txState[solanaID[b]] = "minted" => b \in found
    /\ pc \in {"build", "record"} => solanaID[Req] = NoTx \/ txState[solanaID[Req]] # "minted"

\* Rows of the types whose table has been read, while processMints fetches.
Listed ==
    /\ pc \notin FetchPCs \cup MintPCs => todo = <<>>
    /\ pc = "premined" => todo = <<>>
    /\ pc = "airdrop" => \A i \in DOMAIN todo : TypeOf[todo[i]] = "premined"
    /\ pc = "queue" => \A i \in DOMAIN todo : TypeOf[todo[i]] # "regular"
    /\ \A i \in DOMAIN todo : (i > 1 \/ pc \in FetchPCs) => solanaID[todo[i]] = NoTx

\* The requests of a type are in order, each once.
Ordered ==
    \A i, j \in DOMAIN todo :
        (i < j /\ TypeOf[todo[i]] = TypeOf[todo[j]]) => after[todo[i]] < after[todo[j]]

\* Nothing is missing before a request: an earlier row of its type is completed,
\* or it is an earlier request.
NoGap ==
    \A i \in DOMAIN todo : \A c \in rows :
        (TypeOf[c] = TypeOf[todo[i]] /\ after[c] <= before[todo[i]]) =>
            Completed(c) \/ \E j \in DOMAIN todo : j < i /\ todo[j] = c

SInv == Contiguous /\ NoOrphanMint /\ Settled /\ Listed /\ Ordered /\ NoGap

-----------------------------------------------------------------------------
(* What a list of rows holds.                                               *)

\* A list of rows has them all, in increasing order.
LEMMA InOrderAll ==
    ASSUME TypeOK, NEW t \in Types, NEW q \in InOrder(Uncompleted(t))
    PROVE  /\ q \in Seq(Uncompleted(t))
           /\ \A b \in Uncompleted(t) : \E i \in DOMAIN q : q[i] = b
           /\ \A i, j \in DOMAIN q : i < j => after[q[i]] < after[q[j]]
<1>. DEFINE S == Uncompleted(t)
            n == Cardinality(S)
<1>1. IsFiniteSet(S) /\ S \subseteq Burns
    BY PipelineAssumption, FS_Subset DEF TypeOK, Uncompleted, OfType
<1>2. n \in Nat
    BY <1>1, FS_CardinalityType
<1>3. q \in [1..n -> S] /\ \A i, j \in 1..n : i < j => after[q[i]] < after[q[j]]
    BY DEF InOrder
<1>4. \A i \in 1..n : after[q[i]] \in Nat
    BY <1>1, <1>3 DEF TypeOK
<1>. HIDE DEF S, n
<1>5. \A i, j \in 1..n : q[i] = q[j] => i = j
    <2>. SUFFICES ASSUME NEW i \in 1..n, NEW j \in 1..n, q[i] = q[j], i # j PROVE FALSE
        OBVIOUS
    <2>1. i < j \/ j < i
        BY <1>2
    <2>. QED
        BY <1>3, <1>4, <2>1
<1>6. q \in Injection(1..n, S)
    BY <1>3, <1>5 DEF Injection, IsInjective
<1>7. Cardinality(1..n) = n
    BY <1>2, FS_Interval
<1>8. q \in Surjection(1..n, S)
    BY <1>1, <1>6, <1>7, FS_Injection DEF n
<1>. QED
    BY <1>2, <1>3, <1>8 DEF Surjection, S

-----------------------------------------------------------------------------
(* Intervals without a gap.                                                 *)

LEMMA ContiguousStep ==
    ASSUME TypeOK, Intervals, Contiguous, [Next]_vars
    PROVE  Contiguous'
<1>1. CASE UNCHANGED <<rows, before, after>>
    BY <1>1 DEF Contiguous, OfType
<1>2. ASSUME NEW b \in Burns, InsertTransport(b) PROVE Contiguous'
    <2>. DEFINE S == OfType(rows, TypeOf[b])
    <2>1. /\ b \notin rows /\ rows' = rows \cup {b}
          /\ \A c \in rows : before'[c] = before[c] /\ after'[c] = after[c]
        BY <1>2, NewRow
    <2>2. \A c \in rows : before'[c] = 0 \/ \E d \in OfType(rows', TypeOf[c]) : after'[d] = before'[c]
        BY <2>1 DEF Contiguous, OfType
    <2>3. before'[b] = 0 \/ \E d \in S : after'[d] = before'[b]
        <3>1. before'[b] = MaxAfter(S)
            BY <1>2 DEF InsertTransport, TypeOK
        <3>2. CASE S = {}
            BY <3>1, <3>2 DEF MaxAfter
        <3>3. CASE S # {}
            <4>1. TypeOf[b] \in Types
                BY PipelineAssumption
            <4>2. PICK m \in S : \A c \in S : after[c] <= after[m]
                BY <3>3, <4>1 DEF Intervals
            <4>3. \A c \in S : after[c] \in Nat
                BY DEF TypeOK, OfType
            <4>4. MaxAfter(S) = after[m]
                BY <4>2, <4>3, MaxAfterValue
            <4>. QED
                BY <2>1, <3>1, <4>2, <4>4 DEF OfType
        <3>. QED
            BY <3>2, <3>3
    <2>. QED
        BY <2>1, <2>2, <2>3 DEF Contiguous, OfType
<1>. QED
    BY <1>1, <1>2, RowsStep

-----------------------------------------------------------------------------
(* No mint is forgotten.                                                    *)

\* The transaction recorded before is not minted when another one is recorded, and
\* the row was not completed by it.
LEMMA RecordedIsFree ==
    ASSUME IInv, SInv, pc = "record"
    PROVE  /\ Req \in rows /\ Req \in Burns /\ curTx \in TxIDs /\ txBurn[curTx] = Req
           /\ ~Completed(Req) /\ Req \notin Minted
<1>1. Req \in rows /\ Req \in Burns /\ curTx \in TxIDs /\ txBurn[curTx] = Req
    BY ReqIsRow DEF IInv, TypeOK, Server, MintPCs
<1>2. solanaID[Req] = NoTx \/ txState[solanaID[Req]] # "minted"
    BY DEF SInv, Settled
<1>3. ~Completed(Req)
    BY <1>2, PipelineAssumption DEF Completed, IInv, Records, TypeOK
<1>4. Req \notin Minted
    BY <1>2, PipelineAssumption DEF Minted, SInv, NoOrphanMint
<1>. QED
    BY <1>1, <1>3, <1>4

LEMMA NoOrphanStep ==
    ASSUME IInv, SInv, [Next]_vars
    PROVE  NoOrphanMint'
<1>. USE DEF IInv, NoOrphanMint
<1>1. NoOrphanMint /\ TypeOK /\ Contract /\ Records /\ Server
    BY DEF SInv
<1>2. ASSUME NEW id \in TxIDs, txState'[id] = "minted"
      PROVE  /\ txBurn'[id] = txBurn[id] /\ solanaID[txBurn[id]] = id
             /\ pc \in {"record", "apply"} => txState[id] = "minted"
    <2>1. CASE \A i \in TxIDs : /\ txState'[i] = "minted" <=> txState[i] = "minted"
                                /\ txState[i] = "minted" => txBurn'[i] = txBurn[i]
        BY <1>1, <1>2, <2>1
    <2>2. ASSUME NEW i \in TxIDs, Land(i), SupplyMatches(i)
          PROVE  /\ txBurn'[id] = txBurn[id] /\ solanaID[txBurn[id]] = id
                 /\ pc \notin {"record", "apply"}
        BY <1>1, <1>2, <2>2, SMTT(30) DEF Land, Records, Server, Pending, TypeOK
    <2>. QED
        BY <1>1, <2>1, <2>2, ChainStep
<1>3. CASE UNCHANGED solanaID
    BY <1>2, <1>3
<1>4. CASE pc = "record" /\ solanaID' = [solanaID EXCEPT ![Req] = curTx]
    <2>1. Req \in Burns /\ curTx \in TxIDs /\ Req \notin Minted
        BY <1>4, RecordedIsFree
    <2>. QED
        BY <1>1, <1>2, <1>4, <2>1 DEF Minted, TypeOK
<1>5. CASE pc = "apply" /\ \E b \in stale : Resolve(b)
    <2>1. PICK b \in stale : Resolve(b)
        BY <1>5
    <2>2. CASE b \in found
        BY <1>3, <2>1, <2>2 DEF Resolve
    <2>3. CASE b \notin found
        <3>1. txState[solanaID[b]] # "minted"
            BY <1>5, <2>3 DEF SInv, Settled
        <3>2. solanaID' = [solanaID EXCEPT ![b] = NoTx]
            BY <2>1, <2>3 DEF Resolve
        <3>. QED
            BY <1>1, <1>2, <1>5, <3>1, <3>2 DEF TypeOK
    <2>. QED
        BY <2>2, <2>3
<1>. QED
    BY <1>3, <1>4, <1>5, RecordChange

-----------------------------------------------------------------------------
(* What processMints fetches.                                               *)

\* One more list: it is appended to requests of other types.
LEMMA FetchOne ==
    ASSUME IInv, SInv, NEW t \in Types, FetchAll(t), pc \in FetchPCs,
           \A i \in DOMAIN todo : TypeOf[todo[i]] # t
    PROVE  /\ todo' \in Seq(rows)
           /\ \A i \in DOMAIN todo' : solanaID[todo'[i]] = NoTx
           /\ \A i \in DOMAIN todo' : TypeOf[todo'[i]] = t \/ \E j \in DOMAIN todo : todo'[i] = todo[j]
           /\ \A i, j \in DOMAIN todo' :
                 (i < j /\ TypeOf[todo'[i]] = TypeOf[todo'[j]]) => after[todo'[i]] < after[todo'[j]]
           /\ \A i \in DOMAIN todo' : \A c \in rows :
                 (TypeOf[c] = TypeOf[todo'[i]] /\ after[c] <= before[todo'[i]]) =>
                     Completed(c) \/ \E j \in DOMAIN todo' : j < i /\ todo'[j] = c
<1>. DEFINE S == Uncompleted(t)
<1>a. TypeOK /\ Intervals /\ Server /\ Settled /\ Listed /\ Ordered /\ NoGap
    BY DEF IInv, SInv
<1>1. PICK q \in InOrder(S) : todo' = todo \o q
    BY DEF FetchAll
<1>2. /\ q \in Seq(S)
      /\ \A b \in S : \E i \in DOMAIN q : q[i] = b
      /\ \A i, j \in DOMAIN q : i < j => after[q[i]] < after[q[j]]
    BY <1>a, <1>1, InOrderAll
<1>3. S \subseteq rows /\ \A b \in S : TypeOf[b] = t /\ solanaID[b] = NoTx
    BY DEF Uncompleted, OfType
<1>4. todo \in Seq(rows) /\ q \in Seq(rows)
    BY <1>a, <1>2, <1>3 DEF Server
<1>. DEFINE n == Len(todo)
            m == Len(q)
<1>5. n \in Nat /\ m \in Nat /\ DOMAIN todo = 1..n /\ DOMAIN q = 1..m
    BY <1>4
<1>6. /\ todo' \in Seq(rows) /\ Len(todo') = n + m /\ DOMAIN todo' = 1..(n + m)
      /\ \A i \in 1..n : todo'[i] = todo[i]
      /\ \A i \in 1..m : todo'[n + i] = q[i]
    BY <1>1, <1>4
<1>7. \A i \in (n + 1)..(n + m) : i - n \in 1..m /\ todo'[i] = q[i - n]
    <2>. SUFFICES ASSUME NEW i \in (n + 1)..(n + m) PROVE i - n \in 1..m /\ todo'[i] = q[i - n]
        OBVIOUS
    <2>1. i - n \in 1..m /\ n + (i - n) = i
        BY <1>5
    <2>. QED
        BY <1>6, <2>1
<1>8. \A i \in 1..(n + m) : i \in 1..n \/ i \in (n + 1)..(n + m)
    BY <1>5
<1>9. \A i \in 1..n : todo[i] \in rows /\ TypeOf[todo[i]] # t /\ solanaID[todo[i]] = NoTx
    BY <1>4, <1>5, <1>a DEF Listed
<1>10. \A i \in 1..m : q[i] \in rows /\ q[i] \in S /\ TypeOf[q[i]] = t /\ solanaID[q[i]] = NoTx
    BY <1>2, <1>3, <1>5
<1>11. \A b \in rows : after[b] \in Nat /\ before[b] \in Nat /\ before[b] < after[b]
    <2>1. \A b \in rows : before[b] \in Nat /\ Amount[b] \in Nat \ {0} /\ after[b] = before[b] + Amount[b]
        BY <1>a, PipelineAssumption DEF TypeOK, Intervals
    <2>. QED
        BY <2>1
<1>. HIDE DEF S, n, m
<1>12. ASSUME NEW i \in 1..m, NEW c \in rows, TypeOf[c] = t, after[c] <= before[q[i]]
       PROVE  Completed(c) \/ \E j \in 1..m : j < i /\ q[j] = c
    <2>1. CASE solanaID[c] # NoTx
        BY <1>a, <2>1 DEF Settled, Unsettled, Serving, FetchPCs, MintPCs, StartPCs
    <2>2. CASE solanaID[c] = NoTx
        <3>1. after[c] < after[q[i]]
            BY <1>10, <1>11, <1>12
        <3>2. t = "regular" => after[q[i]] < AllowedSupply(now)
            BY <1>10 DEF S, Uncompleted
        <3>3. t = "regular" => after[c] < AllowedSupply(now)
            <4>1. now \in Nat
                BY <1>a, PipelineAssumption DEF TypeOK
            <4>2. AllowedSupply(now) \in Nat
                BY <4>1, AllowedType
            <4>. QED
                BY <1>10, <1>11, <1>12, <3>1, <3>2, <4>2
        <3>4. c \in S
            BY <1>12, <2>2, <3>3 DEF S, Uncompleted, OfType
        <3>5. PICK j \in 1..m : q[j] = c
            BY <1>2, <1>5, <3>4
        <3>6. i # j
            BY <1>10, <1>11, <3>1, <3>5
        <3>7. ~(i < j)
            <4>1. after[c] \in Nat /\ after[q[i]] \in Nat
                BY <1>10, <1>11
            <4>2. i < j => after[q[i]] < after[q[j]]
                BY <1>2, <1>5
            <4>. QED
                BY <3>1, <3>5, <4>1, <4>2
        <3>. QED
            BY <1>5, <3>5, <3>6, <3>7
    <2>. QED
        BY <2>1, <2>2
<1>13. \A i \in 1..(n + m) : solanaID[todo'[i]] = NoTx
    BY <1>6, <1>7, <1>8, <1>9, <1>10
<1>14. \A i \in 1..(n + m) : TypeOf[todo'[i]] = t \/ \E j \in 1..n : todo'[i] = todo[j]
    BY <1>6, <1>7, <1>8, <1>10
<1>15. ASSUME NEW i \in 1..(n + m), NEW j \in 1..(n + m), i < j, TypeOf[todo'[i]] = TypeOf[todo'[j]]
       PROVE  after[todo'[i]] < after[todo'[j]]
    <2>1. CASE i \in 1..n /\ j \in 1..n
        BY <1>15, <1>5, <1>6, <1>a, <2>1 DEF Ordered
    <2>2. CASE i \in (n + 1)..(n + m) /\ j \in (n + 1)..(n + m)
        <3>1. i - n < j - n
            BY <1>5, <1>15, <2>2
        <3>2. /\ i - n \in 1..m /\ todo'[i] = q[i - n]
              /\ j - n \in 1..m /\ todo'[j] = q[j - n]
            BY <1>7, <2>2
        <3>3. \A k, l \in 1..m : k < l => after[q[k]] < after[q[l]]
            BY <1>2, <1>5
        <3>4. after[q[i - n]] < after[q[j - n]]
            BY <3>1, <3>2, <3>3
        <3>. QED
            BY <3>2, <3>4
    <2>3. CASE i \in 1..n /\ j \in (n + 1)..(n + m)
        BY <1>15, <1>6, <1>7, <1>9, <1>10, <2>3
    <2>. QED
        BY <1>5, <1>8, <1>15, <2>1, <2>2, <2>3
<1>16. ASSUME NEW i \in 1..(n + m), NEW c \in rows, TypeOf[c] = TypeOf[todo'[i]],
              after[c] <= before[todo'[i]]
       PROVE  Completed(c) \/ \E j \in 1..(n + m) : j < i /\ todo'[j] = c
    <2>1. CASE i \in 1..n
        <3>0. todo'[i] = todo[i] /\ i \in DOMAIN todo
            BY <1>5, <1>6, <2>1
        <3>1. Completed(c) \/ \E j \in 1..n : j < i /\ todo[j] = c
            <4>1. TypeOf[c] = TypeOf[todo[i]] /\ after[c] <= before[todo[i]]
                BY <1>16, <3>0
            <4>2. Completed(c) \/ \E j \in DOMAIN todo : j < i /\ todo[j] = c
                BY <1>a, <3>0, <4>1 DEF NoGap
            <4>. QED
                BY <1>5, <4>2
        <3>. QED
            BY <1>5, <1>6, <3>1
    <2>2. CASE i \in (n + 1)..(n + m)
        <3>1. Completed(c) \/ \E j \in 1..m : j < i - n /\ q[j] = c
            BY <1>16, <1>7, <1>10, <1>12, <2>2
        <3>2. \A j \in 1..m : j < i - n => n + j \in 1..(n + m) /\ n + j < i /\ todo'[n + j] = q[j]
            BY <1>5, <1>6, <2>2
        <3>. QED
            BY <3>1, <3>2
    <2>. QED
        BY <1>8, <2>1, <2>2
<1>17. DOMAIN todo' = 1..(n + m) /\ DOMAIN todo = 1..n /\ todo' \in Seq(rows)
    BY <1>5, <1>6
<1>18. \A i, j \in DOMAIN todo' :
          (i < j /\ TypeOf[todo'[i]] = TypeOf[todo'[j]]) => after[todo'[i]] < after[todo'[j]]
    BY <1>15, <1>17
<1>19. \A i \in DOMAIN todo' : \A c \in rows :
          (TypeOf[c] = TypeOf[todo'[i]] /\ after[c] <= before[todo'[i]]) =>
              Completed(c) \/ \E j \in DOMAIN todo' : j < i /\ todo'[j] = c
    BY <1>16, <1>17
<1>. QED
    BY <1>13, <1>14, <1>17, <1>18, <1>19

\* The three lists, one after the other.
LEMMA FetchStep ==
    ASSUME IInv, SInv, Fetch
    PROVE  /\ todo' \in Seq(rows)
           /\ \A i \in DOMAIN todo' : solanaID[todo'[i]] = NoTx
           /\ pc' = "airdrop" => \A i \in DOMAIN todo' : TypeOf[todo'[i]] = "premined"
           /\ pc' = "queue" => \A i \in DOMAIN todo' : TypeOf[todo'[i]] # "regular"
           /\ \A i, j \in DOMAIN todo' :
                 (i < j /\ TypeOf[todo'[i]] = TypeOf[todo'[j]]) => after[todo'[i]] < after[todo'[j]]
           /\ \A i \in DOMAIN todo' : \A c \in rows :
                 (TypeOf[c] = TypeOf[todo'[i]] /\ after[c] <= before[todo'[i]]) =>
                     Completed(c) \/ \E j \in DOMAIN todo' : j < i /\ todo'[j] = c
<1>. USE DEF FetchPCs, Goto
<1>a. Listed
    BY DEF SInv
<1>1. CASE pc = "premined"
    <2>1. FetchAll("premined") /\ pc' = "airdrop" /\ todo = <<>>
        BY <1>1, <1>a DEF Fetch, Listed
    <2>. QED
        BY <1>1, <2>1, FetchOne DEF Types
<1>2. CASE pc = "airdrop"
    <2>1. FetchAll("airdrop") /\ pc' = "queue"
        BY <1>2 DEF Fetch
    <2>2. \A i \in DOMAIN todo : TypeOf[todo[i]] = "premined"
        BY <1>2, <1>a DEF Listed
    <2>. QED
        BY <1>2, <2>1, <2>2, FetchOne DEF Types
<1>3. CASE pc = "queue"
    <2>1. FetchAll("regular") /\ pc' \in {"idle", "build"}
        BY <1>3 DEF Fetch
    <2>2. \A i \in DOMAIN todo : TypeOf[todo[i]] # "regular"
        BY <1>3, <1>a DEF Listed
    <2>. QED
        BY <1>3, <2>1, <2>2, FetchOne DEF Types
<1>. QED
    BY <1>1, <1>2, <1>3 DEF Fetch

LEMMA FetchedIsFree ==
    ASSUME IInv, SInv, Fetch, pc' = "build"
    PROVE  solanaID[Head(todo')] = NoTx
<1>1. todo' \in Seq(rows) /\ \A i \in DOMAIN todo' : solanaID[todo'[i]] = NoTx
    BY FetchStep
<1>2. todo' # <<>>
    BY DEF Fetch, Goto, FetchPCs
<1>. QED
    BY <1>1, <1>2

-----------------------------------------------------------------------------
(* Which records are unsettled.                                             *)

\* A resolved record is settled, and the others are left alone.
LEMMA ResolveSettles ==
    ASSUME IInv, SInv, pc = "apply", NEW b \in stale, Resolve(b)
    PROVE  /\ ~Unsettled(b)'
           /\ \A c \in Burns \ {b} : solanaID'[c] = solanaID[c] /\ (Unsettled(c)' <=> Unsettled(c))
           /\ \A c \in Burns : Completed(c) => Completed(c)'
<1>1. /\ b \in Burns /\ solanaID[b] \in TxIDs
      /\ ~Completed(b)
    BY DEF IInv, TypeOK, Server, SInv, Settled, Unsettled
<1>2. \A c \in Burns \ {b} : solanaID[c] = solanaID[b] => FALSE
    BY <1>1, PipelineAssumption DEF IInv, Records
<1>3. CASE b \in found
    BY <1>1, <1>2, <1>3 DEF Resolve, Unsettled, Completed, IInv, TypeOK
<1>4. CASE b \notin found
    <2>1. solanaID' = [solanaID EXCEPT ![b] = NoTx] /\ confirmed' = confirmed
        BY <1>4 DEF Resolve
    <2>2. solanaID'[b] = NoTx /\ \A c \in Burns \ {b} : solanaID'[c] = solanaID[c]
        BY <1>1, <2>1 DEF IInv, TypeOK
    <2>. QED
        BY <1>1, <2>1, <2>2 DEF Unsettled, Completed
<1>. QED
    BY <1>3, <1>4

LEMMA SettledStep ==
    ASSUME Reliable, IInv, SInv, [Next]_vars
    PROVE  Settled'
<1>. USE DEF Settled, Serving, Unsettled, Completed, Req, MintPCs, FetchPCs, StartPCs, Goto,
     dbVars, chainVars, serverVars
<1>a. /\ TypeOK /\ Contract /\ Records /\ Server /\ Settled /\ Listed /\ Ordered
      /\ ~StatusMayFail /\ ~ReadsMayRetry
    BY DEF IInv, SInv, Reliable
<1>b. stale \subseteq Burns /\ rows \subseteq Burns
    BY <1>a DEF TypeOK
<1>1. CASE Tick \/ SendRefused \/ WaitConfirmed \/ WaitFails \/ DecaySleep \/ BuildFails
           \/ FetchFails \/ Crash \/ Restart \/ TimePasses \/ CompareSupplyToSolana
           \/ DecaySleepAll \/ UNCHANGED vars
    BY <1>1, <1>a DEF Tick, SendRefused, WaitConfirmed, WaitFails, DecaySleep, BuildFails,
       FetchFails, Crash, Restart, TimePasses, CompareSupplyToSolana, DecaySleepAll, vars
<1>2. CASE Fetch
    <2>1. pc' = "build" => solanaID[Head(todo')] = NoTx
        BY <1>2, <1>a, FetchedIsFree
    <2>. QED
        BY <1>2, <1>a, <2>1 DEF Fetch
<1>3. CASE BuildTransaction
    <2>1. PICK id \in FreshIDs : /\ txState' = [txState EXCEPT ![id] = "none"]
                                 /\ txBurn' = [txBurn EXCEPT ![id] = Req]
        BY <1>3 DEF BuildTransaction
    <2>. QED
        BY <1>3, <1>a, <2>1 DEF BuildTransaction, FreshIDs, TypeOK
<1>4. CASE AddSolanaTransaction
    <2>1. \A b \in Burns \ {Req} : solanaID'[b] = solanaID[b]
        BY <1>4, <1>a DEF AddSolanaTransaction, TypeOK
    <2>. QED
        BY <1>4, <1>a, <1>b, <2>1 DEF AddSolanaTransaction
<1>5. CASE AddSolanaTransactionFails
    <2>1. /\ pc = "record" /\ pc' = "build"
          /\ UNCHANGED <<rows, confirmed, todo, txState>>
          /\ solanaID' = solanaID \/ solanaID' = [solanaID EXCEPT ![Req] = curTx]
        BY <1>5 DEF AddSolanaTransactionFails
    <2>2. Req \in Burns /\ txState[curTx] = "none"
        BY <1>a, <2>1, ReqIsRow DEF Server, TypeOK
    <2>. QED
        BY <1>a, <1>b, <2>1, <2>2 DEF TypeOK
<1>6. CASE Send \/ SendFails
    BY <1>6, <1>a DEF Send, SendFails
<1>7. CASE TxStatus
    BY <1>7, <1>a DEF TxStatus, StatusMinted, StatusConfirmed, StatusMintSuccessful, Server
<1>8. CASE ConfirmSolana
    <2>1. /\ pc = "confirm" /\ solanaID[Req] = curTx
          /\ UNCHANGED <<rows, solanaID>>
          /\ confirmed' = confirmed \cup {curTx}
          /\ todo' = Tail(todo)
          /\ pc' = IF todo' = <<>> THEN "idle" ELSE "build"
        BY <1>8, <1>a DEF ConfirmSolana, Server
    <2>2. \A b \in rows : ~Unsettled(b)'
        BY <1>a, <2>1
    <2>3. pc' = "build" => solanaID'[Req'] = NoTx
        <3>. SUFFICES ASSUME pc' = "build" PROVE solanaID'[Req'] = NoTx
            OBVIOUS
        <3>1. todo \in Seq(rows) /\ todo # <<>> /\ Tail(todo) # <<>>
            BY <1>a, <2>1 DEF Server
        <3>2. Head(Tail(todo)) = todo[2] /\ 2 \in DOMAIN todo
            BY <3>1
        <3>3. solanaID[todo[2]] = NoTx
            BY <1>a, <3>2 DEF Listed
        <3>. QED
            BY <2>1, <3>2, <3>3
    <2>. QED
        BY <2>1, <2>2, <2>3
<1>9. CASE ConfirmSolanaFails
    BY <1>9, <1>a DEF ConfirmSolanaFails
<1>10. CASE Recover
    BY <1>10, <1>a DEF Recover, RecordsWithUnconfirmedSolana
<1>11. CASE TxStatusAll
    BY <1>11, <1>a DEF TxStatusAll, StatusMinted, StatusConfirmed, StatusMintSuccessful
<1>12. CASE Apply
    <2>1. PICK b \in stale : Resolve(b) /\ stale' = stale \ {b}
        BY <1>12 DEF Apply
    <2>2. /\ pc = "apply" /\ UNCHANGED <<rows, txState, found>>
          /\ pc' = IF stale' = {} THEN "compare" ELSE "apply"
        BY <1>12 DEF Apply
    <2>3. /\ ~Unsettled(b)'
          /\ \A c \in Burns \ {b} :
                solanaID'[c] = solanaID[c] /\ (Unsettled(c)' <=> Unsettled(c))
        BY <2>1, <2>2, ResolveSettles
    <2>. QED
        BY <1>a, <1>b, <2>1, <2>2, <2>3
<1>13. CASE StartFails
    BY <1>13 DEF StartFails
<1>14. ASSUME NEW b \in Burns, InsertTransport(b) PROVE Settled'
    <2>1. /\ rows' = rows \cup {b} /\ b \notin rows
          /\ UNCHANGED <<solanaID, confirmed, txState, pc, todo, stale, found>>
        BY <1>14 DEF InsertTransport
    <2>2. solanaID[b] = NoTx
        BY <1>a, <2>1 DEF Records
    <2>. QED
        BY <1>14, <1>a, <2>1, <2>2 DEF InsertTransport
<1>15. ASSUME NEW id \in TxIDs, Land(id) \/ Drop(id) PROVE Settled'
    <2>1. /\ UNCHANGED <<rows, solanaID, confirmed, pc, todo, stale, found>>
          /\ txState[id] = "pending"
          /\ \E s \in {"none", "minted", "failed"} : txState' = [txState EXCEPT ![id] = s]
        BY <1>15 DEF Land, Drop
    <2>2. pc \notin {"build", "record", "apply"}
        BY <1>a, <2>1 DEF Server, Pending
    <2>. QED
        BY <1>a, <2>1, <2>2
<1>. QED
    BY <1>a, <1>1, <1>2, <1>3, <1>4, <1>5, <1>6, <1>7, <1>8, <1>9, <1>10, <1>11, <1>12, <1>13, <1>14, <1>15
    DEF Next, ServerStep, ServerFault, StartStep, MintStep, FetchRetries, TxStatusFails

-----------------------------------------------------------------------------
(* The list of requests, as the loop works through it.                      *)

LEMMA RequestsChange ==
    ASSUME Reliable, [Next]_vars
    PROVE  \/ Fetch
           \/ /\ pc = "confirm" /\ todo' = Tail(todo)
              /\ confirmed' = confirmed \cup {curTx} /\ UNCHANGED solanaID
              /\ pc' \in {"idle", "build"} /\ (pc' = "idle" => todo' = <<>>)
           \/ todo' = <<>>
           \/ UNCHANGED todo /\ pc' = pc
           \/ UNCHANGED todo /\ pc \in MintPCs /\ pc' \in MintPCs
           \/ UNCHANGED todo /\ pc \notin FetchPCs \cup MintPCs /\ pc' \notin FetchPCs \cup MintPCs
BY DEF Reliable, Next, vars, dbVars, serverVars, ServerStep, ServerFault, StartStep, MintStep,
    InsertTransport, Tick, BuildTransaction, AddSolanaTransaction, Send, SendRefused, WaitConfirmed,
    WaitFails, DecaySleep, TxStatus, ConfirmSolana, Recover, DecaySleepAll, TxStatusAll, Apply,
    CompareSupplyToSolana, FetchRetries, FetchFails, BuildFails, AddSolanaTransactionFails,
    SendFails, TxStatusFails, ConfirmSolanaFails, StartFails, Crash, Restart, TimePasses,
    Land, Drop, Goto, MintPCs, FetchPCs, StartPCs

LEMMA RowsKept ==
    ASSUME TypeOK, Intervals, [Next]_vars
    PROVE  /\ rows \subseteq rows'
           /\ \A c \in rows : before'[c] = before[c] /\ after'[c] = after[c]
           /\ \A b \in rows' \ rows : \A c \in rows : TypeOf[c] = TypeOf[b] => before[c] < after'[b]
<1>1. CASE UNCHANGED <<rows, before, after>>
    BY <1>1
<1>2. ASSUME NEW b \in Burns, InsertTransport(b), NEW c \in rows, TypeOf[c] = TypeOf[b]
      PROVE  before[c] < after'[b]
    <2>1. /\ before'[b] \in Nat /\ after'[b] = before'[b] + Amount[b]
          /\ \A d \in OfType(rows, TypeOf[b]) : after[d] <= before'[b]
        BY <1>2, NewRow
    <2>2. after[c] <= before'[b]
        BY <1>2, <2>1 DEF OfType
    <2>3. c \in Burns /\ before[c] \in Nat /\ after[c] = before[c] + Amount[c]
        BY DEF TypeOK, Intervals
    <2>4. Amount[b] \in Nat \ {0} /\ Amount[c] \in Nat \ {0}
        BY <2>3, PipelineAssumption
    <2>. QED
        BY <2>1, <2>2, <2>3, <2>4
<1>. QED
    BY <1>1, <1>2, RowsStep, NewRow

\* A completed record stays completed.
LEMMA CompletedKept ==
    ASSUME IInv, SInv, [Next]_vars, NEW b \in Burns, Completed(b)
    PROVE  Completed(b)'
<1>1. CASE UNCHANGED <<solanaID, confirmed>>
    BY <1>1 DEF Completed
<1>2. CASE pc = "record" /\ UNCHANGED confirmed /\ solanaID' = [solanaID EXCEPT ![Req] = curTx]
    <2>1. ~Completed(Req)
        BY <1>2, RecordedIsFree
    <2>. QED
        BY <1>2, <2>1 DEF Completed, IInv, TypeOK
<1>3. CASE UNCHANGED solanaID /\ confirmed' = confirmed \cup {curTx}
    BY <1>3 DEF Completed
<1>4. CASE pc = "apply" /\ \E c \in stale : Resolve(c)
    BY <1>4, ResolveSettles
<1>. QED
    BY <1>1, <1>2, <1>3, <1>4, RecordChange

\* Only the request in hand gets a transaction.
LEMMA ListedStep ==
    ASSUME Reliable, IInv, SInv, [Next]_vars
    PROVE  Listed'
<1>. USE DEF Listed, MintPCs, FetchPCs
<1>a. TypeOK /\ Server /\ Listed /\ Ordered /\ todo \in Seq(rows)
    BY DEF IInv, SInv, Server
<1>1. CASE Fetch
    <2>1. UNCHANGED solanaID /\ (pc' = "idle" => todo' = <<>>)
          /\ pc' \in {"airdrop", "queue", "idle", "build"}
        BY <1>1 DEF Fetch, Goto, dbVars
    <2>. QED
        BY <1>1, <2>1, FetchStep
<1>2. CASE /\ pc = "confirm" /\ todo' = Tail(todo) /\ UNCHANGED solanaID
           /\ pc' \in {"idle", "build"} /\ (pc' = "idle" => todo' = <<>>)
    <2>1. ASSUME NEW i \in DOMAIN todo' PROVE solanaID[todo'[i]] = NoTx
        <3>1. i \in Nat \ {0} /\ i + 1 \in DOMAIN todo /\ todo'[i] = todo[i + 1]
            BY <1>a, <1>2, <2>1 DEF Server
        <3>. QED
            BY <1>a, <3>1
    <2>. QED
        BY <1>2, <2>1
<1>3. CASE todo' = <<>>
    BY <1>3
<1>4. ASSUME UNCHANGED todo, NEW i \in DOMAIN todo, solanaID[todo[i]] = NoTx, pc = "record" => i > 1
      PROVE  solanaID'[todo[i]] = NoTx
    <2>1. CASE UNCHANGED solanaID
        BY <1>4, <2>1
    <2>2. CASE pc = "record" /\ solanaID' = [solanaID EXCEPT ![Req] = curTx]
        <3>1. todo[i] # Req /\ todo[i] \in Burns
            <4>1. 1 \in DOMAIN todo /\ Req = todo[1]
                BY <1>a, <2>2, <1>4 DEF Server, Req
            <4>2. todo[i] \in rows /\ after[todo[i]] \in Nat
                BY <1>a, <1>4 DEF TypeOK
            <4>3. todo[i] = todo[1] => after[todo[1]] < after[todo[i]]
                BY <1>a, <1>4, <2>2, <4>1 DEF Ordered
            <4>. QED
                BY <1>a, <4>1, <4>2, <4>3 DEF TypeOK
        <3>. QED
            BY <1>4, <2>2, <3>1, <1>a DEF TypeOK
    <2>3. CASE pc = "apply"
        BY <1>4, <1>a, <2>3
    <2>. QED
        BY <2>1, <2>2, <2>3, RecordChange
<1>5. CASE UNCHANGED todo /\ pc' = pc
    BY <1>a, <1>4, <1>5
<1>6. CASE UNCHANGED todo /\ pc \in MintPCs /\ pc' \in MintPCs
    BY <1>a, <1>4, <1>6
<1>7. CASE UNCHANGED todo /\ pc \notin FetchPCs \cup MintPCs /\ pc' \notin FetchPCs \cup MintPCs
    BY <1>a, <1>7
<1>. QED
    BY <1>1, <1>2, <1>3, <1>5, <1>6, <1>7, RequestsChange

\* The requests left are the old ones, one place nearer to the head or where they were.
LEMMA OrderStep ==
    ASSUME Reliable, IInv, SInv, [Next]_vars
    PROVE  Ordered' /\ NoGap'
<1>a. TypeOK /\ Intervals /\ Server /\ Ordered /\ NoGap /\ todo \in Seq(rows)
    BY DEF IInv, SInv, Server
<1>b. /\ rows \subseteq rows'
      /\ \A c \in rows : before'[c] = before[c] /\ after'[c] = after[c]
      /\ \A b \in rows' \ rows : \A c \in rows : TypeOf[c] = TypeOf[b] => before[c] < after'[b]
    BY <1>a, RowsKept
<1>c. \A b \in Burns : Completed(b) => Completed(b)'
    BY CompletedKept
<1>d. \A b \in rows : before[b] \in Nat /\ b \in Burns
    BY <1>a DEF TypeOK
<1>1. ASSUME todo' \in Seq(rows),
             \A i, j \in DOMAIN todo' :
                 (i < j /\ TypeOf[todo'[i]] = TypeOf[todo'[j]]) => after[todo'[i]] < after[todo'[j]],
             \A i \in DOMAIN todo' : \A c \in rows :
                 (TypeOf[c] = TypeOf[todo'[i]] /\ after[c] <= before[todo'[i]]) =>
                     Completed(c)' \/ \E j \in DOMAIN todo' : j < i /\ todo'[j] = c
      PROVE  Ordered' /\ NoGap'
    <2>1. \A i \in DOMAIN todo' : todo'[i] \in rows
        BY <1>1
    <2>2. Ordered'
        BY <1>1, <1>b, <2>1 DEF Ordered
    <2>3. ASSUME NEW i \in DOMAIN todo', NEW c \in rows',
                 TypeOf[c] = TypeOf[todo'[i]], after'[c] <= before'[todo'[i]]
          PROVE  Completed(c)' \/ \E j \in DOMAIN todo' : j < i /\ todo'[j] = c
        <3>1. CASE c \in rows
            BY <1>1, <1>b, <2>1, <2>3, <3>1
        <3>2. CASE c \notin rows
            <4>1. before[todo'[i]] < after'[c] /\ before'[todo'[i]] = before[todo'[i]]
                BY <1>b, <2>1, <2>3, <3>2
            <4>2. after'[c] \in Nat
                BY <1>a, TypeStep DEF IInv, TypeOK
            <4>. QED
                BY <1>d, <2>1, <2>3, <4>1, <4>2
        <3>. QED
            BY <3>1, <3>2
    <2>4. NoGap'
        BY <2>3 DEF NoGap
    <2>. QED
        BY <2>2, <2>4
<1>2. CASE Fetch
    <2>1. UNCHANGED <<rows, before, after>>
        BY <1>2 DEF Fetch, dbVars
    <2>. QED
        BY <1>1, <1>2, <1>c, <1>d, FetchStep
<1>3. CASE pc = "confirm" /\ todo' = Tail(todo) /\ confirmed' = confirmed \cup {curTx} /\ UNCHANGED solanaID
    <2>1. /\ todo # <<>> /\ Req = todo[1] /\ solanaID[Req] = curTx /\ Req \in rows
        BY <1>a, <1>3 DEF Server, MintPCs, Req
    <2>2. ASSUME NEW c, c = Req PROVE Completed(c)'
        BY <1>3, <2>1, <2>2 DEF Completed
    <2>3. todo' \in Seq(rows) /\ \A i \in DOMAIN todo' : i \in Nat \ {0} /\ i + 1 \in DOMAIN todo /\ todo'[i] = todo[i + 1]
        BY <1>a, <1>3, <2>1
    <2>4. \A j \in DOMAIN todo : j \in Nat \ {0} /\ (j > 1 => j - 1 \in DOMAIN todo')
        BY <1>a, <1>3, <2>1
    <2>5. ASSUME NEW i \in DOMAIN todo', NEW c \in rows,
                 TypeOf[c] = TypeOf[todo'[i]], after[c] <= before[todo'[i]]
          PROVE  Completed(c)' \/ \E j \in DOMAIN todo' : j < i /\ todo'[j] = c
        <3>1. Completed(c) \/ \E j \in DOMAIN todo : j < i + 1 /\ todo[j] = c
            BY <1>a, <2>3, <2>5 DEF NoGap
        <3>2. CASE Completed(c)
            BY <1>c, <1>d, <3>2
        <3>3. ASSUME NEW j \in DOMAIN todo, j < i + 1, todo[j] = c
              PROVE  Completed(c)' \/ \E k \in DOMAIN todo' : k < i /\ todo'[k] = c
            <4>1. CASE j = 1
                BY <2>1, <2>2, <3>3, <4>1
            <4>2. CASE j > 1
                <5>1. j - 1 \in DOMAIN todo' /\ j - 1 < i /\ (j - 1) + 1 = j
                    BY <2>3, <2>4, <3>3, <4>2
                <5>. QED
                    BY <2>3, <3>3, <5>1
            <4>. QED
                BY <2>4, <4>1, <4>2
        <3>. QED
            BY <3>1, <3>2, <3>3
    <2>6. \A i, j \in DOMAIN todo' :
              (i < j /\ TypeOf[todo'[i]] = TypeOf[todo'[j]]) => after[todo'[i]] < after[todo'[j]]
        <3>. SUFFICES ASSUME NEW i \in DOMAIN todo', NEW j \in DOMAIN todo', i < j,
                             TypeOf[todo'[i]] = TypeOf[todo'[j]]
                      PROVE  after[todo'[i]] < after[todo'[j]]
            OBVIOUS
        <3>1. i + 1 < j + 1
            BY <2>3
        <3>. QED
            BY <1>a, <2>3, <3>1 DEF Ordered
    <2>. QED
        BY <1>1, <2>3, <2>5, <2>6
<1>4. CASE todo' = <<>>
    BY <1>4 DEF Ordered, NoGap
<1>5. CASE UNCHANGED todo
    <2>1. \A i, j \in DOMAIN todo' :
              (i < j /\ TypeOf[todo'[i]] = TypeOf[todo'[j]]) => after[todo'[i]] < after[todo'[j]]
        BY <1>a, <1>5 DEF Ordered
    <2>2. \A i \in DOMAIN todo' : \A c \in rows :
              (TypeOf[c] = TypeOf[todo'[i]] /\ after[c] <= before[todo'[i]]) =>
                  Completed(c)' \/ \E j \in DOMAIN todo' : j < i /\ todo'[j] = c
        BY <1>a, <1>5, <1>c, <1>d DEF NoGap
    <2>. QED
        BY <1>1, <1>a, <1>5, <2>1, <2>2
<1>. QED
    BY <1>2, <1>3, <1>4, <1>5, RequestsChange

-----------------------------------------------------------------------------
(* The invariant of a reliable run.                                         *)

LEMMA SInvInit == Init => SInv
BY PipelineAssumption DEF Init, SInv, Contiguous, NoOrphanMint, Settled, Listed, Ordered, NoGap,
    Serving, StartPCs, MintPCs, FetchPCs

LEMMA SInvStep == Reliable /\ IInv /\ SInv /\ [Next]_vars => SInv'
<1>. SUFFICES ASSUME Reliable, IInv, SInv, [Next]_vars PROVE SInv'
    OBVIOUS
<1>1. Contiguous'
    BY ContiguousStep DEF IInv, SInv
<1>. QED
    BY <1>1, NoOrphanStep, SettledStep, ListedStep, OrderStep DEF SInv

LEMMA SInvHolds == Reliable /\ Spec => [](IInv /\ SInv)
<1>1. Reliable /\ IInv /\ SInv /\ [Next]_vars => (IInv /\ SInv)'
    BY IInvStep, SInvStep
<1>2. Reliable => Reliable'
    BY DEF Reliable
<1>. QED
    BY IInvInit, SInvInit, <1>1, <1>2, PTL DEF Spec

-----------------------------------------------------------------------------
(* The theorems.                                                            *)

\* Every minted transaction is the one its record names: mint never gives up a
\* transaction that can still land, and neither does the recovery.
THEOREM NothingForgotten == Reliable /\ Spec => []NoOrphanMint
<1>1. IInv /\ SInv => NoOrphanMint
    BY DEF SInv
<1>. QED
    BY SInvHolds, <1>1, PTL

\* The contract accepts every transaction that mint sends.
LEMMA SendIsNext ==
    ASSUME IInv, SInv, pc = "send"
    PROVE  SupplyMatches(curTx)
<1>. DEFINE h == Req
            t == TypeOf[Req]
<1>a. TypeOK /\ Intervals /\ Contract /\ Records /\ Server /\ Contiguous /\ NoOrphanMint /\ NoGap
    BY DEF IInv, SInv
<1>1. /\ h \in rows /\ h \in Burns /\ curTx \in TxIDs /\ txBurn[curTx] = h
      /\ solanaID[h] = curTx /\ txState[curTx] = "none" /\ todo # <<>> /\ todo \in Seq(rows)
    BY <1>a, ReqIsRow DEF TypeOK, Server, MintPCs
<1>2. t \in Types /\ supply[t] \in Nat /\ before[h] \in Nat
    BY <1>1, <1>a, PipelineAssumption DEF TypeOK
<1>3. h \notin Minted
    BY <1>1, <1>a DEF Minted, NoOrphanMint
<1>4. supply[t] <= before[h]
    BY <1>1, <1>3, <1>a DEF Contract, MintedPrefix
<1>5. before[h] <= supply[t]
    <2>1. CASE before[h] = 0
        BY <1>2, <2>1
    <2>2. ASSUME NEW c \in OfType(rows, t), after[c] = before[h] PROVE before[h] <= supply[t]
        <3>1. c \in rows /\ c \in Burns /\ TypeOf[c] = t
            BY <1>a, <2>2 DEF OfType, TypeOK
        <3>2. 1 \in DOMAIN todo /\ todo[1] = h
            BY <1>1 DEF Req
        <3>3. Completed(c) \/ \E j \in DOMAIN todo : j < 1 /\ todo[j] = c
            BY <1>a, <1>2, <2>2, <3>1, <3>2 DEF NoGap
        <3>4. Completed(c)
            BY <1>1, <3>3
        <3>5. c \in Minted
            BY <3>1, <3>4, <1>a, PipelineAssumption DEF Completed, Records, Minted, TypeOK
        <3>. QED
            BY <1>a, <2>2, <3>1, <3>5 DEF Contract, MintedPrefix
    <2>. QED
        BY <1>1, <1>a, <2>1, <2>2 DEF Contiguous
<1>. QED
    BY <1>1, <1>2, <1>4, <1>5 DEF SupplyMatches

THEOREM AlwaysNextInLine == Reliable /\ Spec => []NextInLine
<1>1. IInv /\ SInv => NextInLine
    BY SendIsNext DEF NextInLine
<1>. QED
    BY SInvHolds, <1>1, PTL

\* When the recovery is done, the rows that count are the minted ones.
LEMMA RecoveredAgrees ==
    ASSUME IInv, SInv, pc = "compare"
    PROVE  SupplyAgrees
<1>a. TypeOK /\ Intervals /\ Contract /\ Records /\ NoOrphanMint /\ Settled
    BY DEF IInv, SInv
<1>1. \A b \in rows : b \in Burns /\ (solanaID[b] # NoTx <=> Completed(b))
    BY <1>a, PipelineAssumption DEF Settled, Unsettled, MintPCs, Completed, TypeOK
<1>2. \A b \in rows : Completed(b) => b \in Minted
    BY <1>a, PipelineAssumption DEF Completed, Records, Minted, TypeOK
<1>3. \A b \in rows : b \in Minted => solanaID[b] # NoTx
    BY <1>a, PipelineAssumption DEF Minted, NoOrphanMint
<1>4. ASSUME NEW t \in Types PROVE ConfirmedSupply(t) = supply[t]
    <2>. DEFINE M == {b \in OfType(rows, t) : b \in Minted}
    <2>1. /\ {b \in OfType(rows, t) : Completed(b)} = M
          /\ {b \in OfType(rows, t) : solanaID[b] # NoTx} = M
        BY <1>1, <1>2, <1>3 DEF OfType
    <2>2. ConfirmedSupply(t) = MaxAfter(M)
        BY <2>1 DEF ConfirmedSupply
    <2>3. \A b \in M : /\ b \in rows /\ TypeOf[b] = t /\ after[b] \in Nat /\ 0 < after[b]
                       /\ after[b] <= supply[t]
        <3>1. \A b \in rows : /\ before[b] \in Nat /\ Amount[b] \in Nat \ {0}
                              /\ after[b] = before[b] + Amount[b]
            BY <1>a, PipelineAssumption DEF TypeOK, Intervals
        <3>. QED
            BY <1>a, <3>1 DEF OfType, Contract, MintedPrefix
    <2>4. CASE supply[t] = 0
        <3>1. M = {}
            BY <2>3, <2>4
        <3>. QED
            BY <2>2, <2>4, <3>1 DEF MaxAfter
    <2>5. ASSUME NEW m \in OfType(rows, t), after[m] = supply[t] PROVE ConfirmedSupply(t) = supply[t]
        <3>1. m \in M
            BY <1>a, <2>5 DEF OfType, Contract, MintedPrefix, TypeOK
        <3>2. MaxAfter(M) = after[m]
            BY <2>3, <2>5, <3>1, MaxAfterValue
        <3>. QED
            BY <2>2, <2>5, <3>2
    <2>. QED
        BY <1>a, <2>4, <2>5 DEF Contract
<1>. QED
    BY <1>4 DEF SupplyAgrees

\* compareSupplyToSolana finds the database and the contract in agreement after any
\* crash, so the server can always be started again.
THEOREM AlwaysStartable == Reliable /\ Spec => []StartupSanity
<1>1. IInv /\ SInv => StartupSanity
    BY RecoveredAgrees DEF StartupSanity
<1>. QED
    BY SInvHolds, <1>1, PTL

\* No later mint, crash or recovery undoes a completion.
THEOREM CompletionIsFinal == Reliable /\ Spec => CompletedIsFinal
<1>1. IInv /\ SInv /\ [Next]_vars => [\A b \in Burns : Completed(b) => Completed(b)']_vars
    BY CompletedKept
<1>. QED
    BY SInvHolds, <1>1, PTL DEF Spec, CompletedIsFinal

-----------------------------------------------------------------------------
(* The refinement.                                                          *)

CompletedBurns == {b \in Burns : Completed(b)}

\* The burns that count as completed change one at a time, and only to minted ones.
LEMMA CompletedStep ==
    ASSUME IInv, SInv, [Next]_vars
    PROVE  \/ CompletedBurns' = CompletedBurns
           \/ \E b \in Minted \ CompletedBurns : b \in Burns /\ CompletedBurns' = CompletedBurns \cup {b}
<1>a. TypeOK /\ Records /\ Server /\ NoTx \notin TxIDs
    BY PipelineAssumption DEF IInv
<1>1. \A b \in Burns : Completed(b) => Completed(b)'
    BY CompletedKept
<1>2. ASSUME NEW b \in Burns, b \in Minted, \A c \in Burns \ {b} : Completed(c)' => Completed(c)
      PROVE  \/ CompletedBurns' = CompletedBurns
             \/ \E c \in Minted \ CompletedBurns : c \in Burns /\ CompletedBurns' = CompletedBurns \cup {c}
    <2>1. CASE Completed(b) \/ ~Completed(b)'
        BY <1>1, <1>2, <2>1 DEF CompletedBurns
    <2>2. CASE ~Completed(b) /\ Completed(b)'
        <3>1. CompletedBurns' = CompletedBurns \cup {b} /\ b \notin CompletedBurns
            BY <1>1, <1>2, <2>2 DEF CompletedBurns
        <3>. QED
            BY <1>2, <3>1
    <2>. QED
        BY <2>1, <2>2
<1>3. CASE UNCHANGED <<solanaID, confirmed>>
    BY <1>3 DEF CompletedBurns, Completed
<1>4. CASE pc = "record" /\ UNCHANGED confirmed /\ solanaID' = [solanaID EXCEPT ![Req] = curTx]
    <2>1. Req \in Burns /\ curTx \notin confirmed
        BY <1>4, <1>a, RecordedIsFree DEF Server, Records
    <2>2. \A b \in Burns : Completed(b)' => Completed(b)
        BY <1>4, <1>a, <2>1 DEF Completed, TypeOK
    <2>. QED
        BY <1>1, <2>2 DEF CompletedBurns
<1>5. CASE pc = "confirm" /\ UNCHANGED solanaID /\ confirmed' = confirmed \cup {curTx}
    <2>1. Req \in Burns /\ curTx \in TxIDs /\ txState[curTx] = "minted" /\ txBurn[curTx] = Req
        BY <1>5, <1>a, ReqIsRow DEF Server, MintPCs, TypeOK
    <2>2. Req \in Minted
        BY <2>1 DEF Minted
    <2>3. \A c \in Burns \ {Req} : Completed(c)' => Completed(c)
        BY <1>5, <1>a, <2>1 DEF Completed, Records
    <2>. QED
        BY <1>2, <2>1, <2>2, <2>3
<1>6. ASSUME pc = "apply", NEW b \in stale, Resolve(b)
      PROVE  \/ CompletedBurns' = CompletedBurns
             \/ \E c \in Minted \ CompletedBurns : c \in Burns /\ CompletedBurns' = CompletedBurns \cup {c}
    <2>1. b \in Burns /\ solanaID[b] \in TxIDs
        BY <1>6, <1>a DEF TypeOK, Server
    <2>2. \A c \in Burns \ {b} : Completed(c)' => Completed(c)
        <3>1. \A c \in Burns \ {b} : solanaID'[c] = solanaID[c] /\ (Unsettled(c)' <=> Unsettled(c))
            BY <1>6, ResolveSettles
        <3>2. \A c \in Burns : Completed(c)' => solanaID'[c] # NoTx
            <4>1. confirmed' \subseteq TxIDs
                BY <1>6, <1>a, ResolveType
            <4>. QED
                BY <1>a, <4>1 DEF Completed
        <3>. QED
            BY <3>1, <3>2 DEF Unsettled
    <2>3. CASE b \in found
        <3>1. txState[solanaID[b]] = "minted" /\ txBurn[solanaID[b]] = b
            BY <1>6, <1>a, <2>1, <2>3 DEF Server, Records
        <3>. QED
            BY <1>2, <2>1, <2>2, <3>1 DEF Minted
    <2>4. CASE b \notin found
        <3>1. ~Completed(b)'
            BY <1>6, <1>a, <2>1, <2>4, ResolveType DEF Resolve, Completed, TypeOK
        <3>. QED
            BY <1>1, <2>2, <3>1 DEF CompletedBurns
    <2>. QED
        BY <2>3, <2>4
<1>. QED
    BY <1>3, <1>4, <1>5, <1>6, RecordChange

\* Accept, Mint and Complete are what the ledger sees of the pipeline.
LEMMA LedgerStep ==
    ASSUME IInv, SInv, [Next]_vars
    PROVE  [Ledger!Next]_<<rows, before, after, Minted, CompletedBurns>>
<1>a. TypeOK /\ Intervals /\ Contract /\ Records /\ Server
    BY DEF IInv
<1>1. ASSUME NEW b \in Burns, InsertTransport(b) PROVE Ledger!Accept(b)
    <2>1. UNCHANGED <<solanaID, confirmed, txState, txBurn>>
        BY <1>1 DEF InsertTransport, chainVars
    <2>2. Minted' = Minted /\ CompletedBurns' = CompletedBurns
        BY <2>1 DEF Minted, CompletedBurns, Completed
    <2>. DEFINE S == OfType(rows, TypeOf[b])
                top == MaxAfter(S)
    <2>3. /\ b \in Burns \ rows /\ rows' = rows \cup {b}
          /\ before' = [before EXCEPT ![b] = top]
          /\ after' = [after EXCEPT ![b] = top + Amount[b]]
        BY <1>1 DEF InsertTransport
    <2>4. TypeOf[b] \in Types
        BY PipelineAssumption
    <2>5. top \in {0} \cup {after[c] : c \in S}
        <3>1. CASE S = {}
            BY <3>1 DEF MaxAfter
        <3>2. CASE S # {}
            <4>1. PICK m \in S : \A c \in S : after[c] <= after[m]
                BY <1>a, <2>4, <3>2 DEF Intervals
            <4>2. \A c \in S : after[c] \in Nat
                BY <1>a DEF TypeOK, OfType
            <4>3. top = after[m]
                BY <4>1, <4>2, MaxAfterValue
            <4>. QED
                BY <4>3
        <3>. QED
            BY <3>1, <3>2
    <2>6. \A c \in S : after[c] <= top
        BY <1>a, <2>4, EndOfTable
    <2>7. Ledger!OfType(rows, TypeOf[b]) = S
        BY DEF Ledger!OfType, OfType
    <2>. HIDE DEF S, top
    <2>. QED
        BY <2>2, <2>3, <2>5, <2>6, <2>7 DEF Ledger!Accept, CompletedBurns
<1>2. ASSUME NEW id \in TxIDs, Land(id), SupplyMatches(id) PROVE Ledger!Mint(txBurn[id])
    <2>. DEFINE b == txBurn[id]
    <2>1. b \in rows \ Minted /\ Minted' = Minted \cup {b} /\ b \in Burns
        BY <1>a, <1>2, ContractMint DEF TypeOK
    <2>2. UNCHANGED <<rows, before, after, solanaID, confirmed>>
        BY <1>2 DEF Land, dbVars
    <2>3. \A c \in Ledger!OfType(rows, TypeOf[b]) : after[c] <= before[b] => c \in Minted
        BY <1>a, <1>2 DEF Ledger!OfType, SupplyMatches, Contract, MintedPrefix
    <2>4. CompletedBurns' = CompletedBurns
        BY <2>2 DEF CompletedBurns, Completed
    <2>. QED
        BY <2>1, <2>2, <2>3, <2>4 DEF Ledger!Mint, CompletedBurns
<1>3. CASE UNCHANGED <<rows, before, after>> /\ Minted' = Minted
    <2>1. CASE CompletedBurns' = CompletedBurns
        BY <1>3, <2>1
    <2>2. ASSUME NEW b \in Minted \ CompletedBurns, b \in Burns, CompletedBurns' = CompletedBurns \cup {b}
          PROVE  Ledger!Complete(b)
        BY <1>3, <2>2 DEF Ledger!Complete, CompletedBurns
    <2>. QED
        BY <2>1, <2>2, CompletedStep DEF Ledger!Next
<1>4. ASSUME \A id \in TxIDs :
                 /\ txState'[id] = "minted" <=> txState[id] = "minted"
                 /\ txState[id] = "minted" => txBurn'[id] = txBurn[id]
      PROVE  Minted' = Minted
    BY <1>4 DEF Minted
<1>5. \A id \in TxIDs : Land(id) => txBurn[id] \in Burns
    BY <1>a DEF Land, Contract, TypeOK
<1>. QED
    BY <1>a, <1>1, <1>2, <1>3, <1>4, <1>5, RowsStep, ChainStep DEF Ledger!Next

\* Whatever fails, the server never promises, mints or reports anything that the
\* ledger of MintLedger would not.
THEOREM PipelineImplementsLedger == Reliable /\ Spec => LedgerSpec
<1>1. Init => Ledger!Init
    BY PipelineAssumption DEF Init, Ledger!Init, Minted, Completed
<1>2. IInv /\ SInv /\ [Next]_vars => [Ledger!Next]_(Ledger!ledgerVars)
    BY LedgerStep DEF Ledger!ledgerVars, CompletedBurns
<1>. QED
    BY SInvHolds, <1>1, <1>2, PTL DEF Spec, LedgerSpec, Ledger!Spec

-----------------------------------------------------------------------------
(* MintPipeline implements the second half of BurnStages.                   *)

StageMap == [b \in Burns |-> StageOf(b)]

\* A step that changes the record of at most one burn.
LEMMA OneStage ==
    ASSUME NEW b \in Burns,
           \A c \in Burns \ {b} : StageOf(c)' = StageOf(c),
           \/ StageOf(b)' = StageOf(b)
           \/ <<StageOf(b), StageOf(b)'>> \in
                 {<<"queued", "sent">>, <<"sent", "queued">>, <<"sent", "completed">>}
    PROVE  [Stages!Next]_StageMap
<1>1. CASE StageOf(b)' = StageOf(b)
    BY <1>1 DEF StageMap
<1>2. CASE StageOf(b) = "queued" /\ StageOf(b)' = "sent"
    <2>1. Stages!Record(b)
        BY <1>2 DEF Stages!Record, Stages!MoveTo
    <2>. QED
        BY <2>1 DEF Stages!Next
<1>3. CASE StageOf(b) = "sent" /\ StageOf(b)' = "queued"
    <2>1. Stages!Forget(b)
        BY <1>3 DEF Stages!Forget, Stages!MoveTo
    <2>. QED
        BY <2>1 DEF Stages!Next
<1>4. CASE StageOf(b) = "sent" /\ StageOf(b)' = "completed"
    <2>1. Stages!Complete(b)
        BY <1>4 DEF Stages!Complete, Stages!MoveTo
    <2>. QED
        BY <2>1 DEF Stages!Next
<1>. QED
    BY <1>1, <1>2, <1>3, <1>4

\* Every step is a step in the life of one burn, or none.
LEMMA StagesStep ==
    ASSUME IInv, SInv, [Next]_vars
    PROVE  [Stages!Next]_StageMap
<1>a. TypeOK /\ Records /\ Server /\ Settled /\ NoTx \notin TxIDs /\ rows \subseteq Burns
    BY PipelineAssumption DEF IInv, SInv, TypeOK
<1>b. NoTx \notin confirmed /\ \A b \in Burns : solanaID[b] # NoTx => b \in rows
    BY <1>a DEF TypeOK, Records
<1>1. ASSUME NEW b \in Burns, InsertTransport(b) PROVE [Stages!Next]_StageMap
    <2>1. /\ b \notin rows /\ rows' = rows \cup {b}
          /\ UNCHANGED <<solanaID, confirmed>>
        BY <1>1 DEF InsertTransport
    <2>2. StageOf(b) = "unconfirmed" /\ StageOf(b)' = "queued"
        BY <1>b, <2>1 DEF StageOf
    <2>3. \A c \in Burns \ {b} : StageOf(c)' = StageOf(c)
        BY <2>1 DEF StageOf, Completed
    <2>4. Stages!Confirm({b})
        BY <2>2, <2>3 DEF Stages!Confirm, Stages!StageIn, Stages!MoveTo, StageMap
    <2>. QED
        BY <2>4 DEF Stages!Next
<1>2. CASE rows' = rows /\ UNCHANGED <<solanaID, confirmed>>
    BY <1>2 DEF StageMap, StageOf, Completed
<1>3. ASSUME rows' = rows, NEW r, r = Req,
             pc = "record", UNCHANGED confirmed, solanaID' = [solanaID EXCEPT ![r] = curTx]
      PROVE  [Stages!Next]_StageMap
    <2>1. r \in rows /\ r \in Burns /\ curTx \in TxIDs /\ curTx \notin confirmed
        BY <1>3, <1>a, ReqIsRow, RecordedIsFree DEF Server, Records, MintPCs
    <2>2. ~Completed(r)
        <3>1. solanaID'[r] = curTx
            BY <1>3, <1>a, <2>1 DEF TypeOK
        <3>. QED
            BY <1>3, <2>1, <3>1, CompletedKept DEF Completed
    <2>3. StageOf(r) \in {"queued", "sent"} /\ StageOf(r)' = "sent"
        BY <1>3, <1>a, <2>1, <2>2 DEF StageOf, Completed, TypeOK
    <2>4. \A c \in Burns \ {r} : StageOf(c)' = StageOf(c)
        BY <1>3, <1>a, <2>1 DEF StageOf, Completed, TypeOK
    <2>. QED
        BY <2>1, <2>3, <2>4, OneStage
<1>4. ASSUME rows' = rows, NEW r, r = Req,
             pc = "confirm", UNCHANGED solanaID, confirmed' = confirmed \cup {curTx}
      PROVE  [Stages!Next]_StageMap
    <2>1. r \in rows /\ r \in Burns /\ curTx \in TxIDs /\ solanaID[r] = curTx /\ txBurn[curTx] = r
        BY <1>4, <1>a, ReqIsRow DEF Server, MintPCs
    <2>2. \A c \in Burns \ {r} : solanaID[c] # curTx
        BY <1>a, <2>1 DEF Records
    <2>3. StageOf(r) \in {"sent", "completed"} /\ StageOf(r)' = "completed"
        BY <1>4, <1>a, <2>1 DEF StageOf, Completed
    <2>4. \A c \in Burns \ {r} : StageOf(c)' = StageOf(c)
        BY <1>4, <2>2 DEF StageOf, Completed
    <2>. QED
        BY <2>1, <2>3, <2>4, OneStage
<1>5. ASSUME rows' = rows, pc = "apply", NEW b \in stale, Resolve(b) PROVE [Stages!Next]_StageMap
    <2>1. b \in Burns /\ solanaID[b] \in TxIDs /\ b \in rows
        BY <1>5, <1>a, <1>b DEF TypeOK, Server
    <2>2. ~Completed(b)
        BY <1>5, <1>a DEF Settled, Unsettled
    <2>3. StageOf(b) = "sent"
        BY <1>a, <2>1, <2>2 DEF StageOf
    <2>4. StageOf(b)' \in {"queued", "completed"}
        BY <1>5, <1>a, <2>1 DEF Resolve, StageOf, Completed, TypeOK
    <2>5. \A c \in Burns \ {b} : solanaID[c] # solanaID[b] \/ solanaID[c] = NoTx
        BY <1>a, <2>1 DEF Records
    <2>6. \A c \in Burns \ {b} : StageOf(c)' = StageOf(c)
        BY <1>5, <1>a, <2>1, <2>5 DEF Resolve, StageOf, Completed, TypeOK
    <2>. QED
        BY <2>1, <2>3, <2>4, <2>6, OneStage
<1>. QED
    BY <1>1, <1>2, <1>3, <1>4, <1>5, RowsStep, RecordChange DEF InsertTransport

\* To a transport status, the minting half is the second half of the life of a burn,
\* through any failed call, crash and recovery.
THEOREM PipelineImplementsStages == Reliable /\ Spec => StagesSpec
<1>1. Init => Stages!Init
    BY DEF Init, Stages!Init, StageOf
<1>2. IInv /\ SInv /\ [Next]_vars => [Stages!Next]_StageMap
    BY StagesStep
<1>. QED
    BY SInvHolds, <1>1, <1>2, PTL DEF Spec, StagesSpec, Stages!Spec, StageMap
=============================================================================
