--------------------------- MODULE QueueLockProofs ---------------------------
(***************************************************************************)
(* Proofs about QueueLock for every number of burns, clients and faults and  *)
(* every limit and gap: the types, the offer of CheckAllowance, and what a   *)
(* release and a lock have seen of the queue.                                *)
(***************************************************************************)
EXTENDS QueueLock, FiniteSetTheorems, TLAPS

\* A lock that was set after an offer is not older than the offer.
OffersFirst ==
    \A c \in Clients :
        (offerAge[c] < QueueLockGap /\ Locked) => (lockAge = ZeroTime \/ lockAge <= offerAge[c])

\* What a pass knows covers every burn that has stayed where it was.
Seen ==
    /\ qpc = "uncompleted" => completed <= Cardinality(Completed)
    /\ qpc = "unconfirmed" =>
          /\ completed <= Cardinality(Completed \ moved)
          /\ Cardinality(Life!Transports \ moved) <= uncompleted
    /\ qpc = "lock" => Cardinality(InQueue \ moved) <= queueSize

LockInv == TypeOK /\ OffersFirst /\ Seen

-----------------------------------------------------------------------------
(* The tables.                                                              *)

\* A set of burns is finite, and a part of it is not larger.
LEMMA BurnsFinite ==
    ASSUME NEW S \in SUBSET Burns
    PROVE  /\ IsFiniteSet(S) /\ Cardinality(S) \in Nat
           /\ \A T \in SUBSET S : Cardinality(T) <= Cardinality(S)
<1>1. IsFiniteSet(S)
    BY LockAssumption, FS_Subset
<1>. QED
    BY <1>1, FS_Subset, FS_CardinalityType

LEMMA MoveType ==
    ASSUME stage \in [Burns -> Life!Stages], NEW S, NEW s \in Life!Stages, Life!MoveTo(S, s)
    PROVE  stage' \in [Burns -> Life!Stages]
BY DEF Life!MoveTo

\* What a step of the tables leaves of the sets a pass reads: the completed burns stay,
\* and a burn that enters a table under a pass has moved.
Kept ==
    /\ stage' \in [Burns -> Life!Stages]
    /\ moved' \subseteq Burns
    /\ Completed \subseteq Completed'
    /\ qpc \in {"unconfirmed", "lock"} =>
          /\ (Completed \ moved) \subseteq (Completed' \ moved')
          /\ (Life!Transports' \ moved') \subseteq (Life!Transports \ moved)
          /\ (InQueue' \ moved') \subseteq (InQueue \ moved)

LEMMA TablesKept ==
    ASSUME TypeOK, TablesChange
    PROVE  Kept
<1>. USE DEF TypeOK, Life!Stages
<1>1. ASSUME NEW S \in SUBSET Burns, Life!Remove(S), UNCHANGED moved
      PROVE  Kept
    BY <1>1 DEF Kept, Completed, InQueue, Life!Transports, Life!Remove, Life!StageIn, Life!MoveTo
<1>2. ASSUME NEW S \in SUBSET Burns, Life!Confirm(S), Enter(S)
      PROVE  Kept
    BY <1>2 DEF Kept, Completed, InQueue, Life!Transports, Life!Confirm, Life!StageIn,
                Life!MoveTo, Enter
<1>3. ASSUME NEW b \in Burns, Life!Record(b) \/ Life!Complete(b) \/ Life!Forget(b),
             UNCHANGED moved
      PROVE  Kept
    BY <1>3 DEF Kept, Completed, InQueue, Life!Transports, Life!Record, Life!Complete,
                Life!Forget, Life!MoveTo
<1>. QED
    BY <1>1, <1>2, <1>3 DEF TablesChange

LEMMA AdmitKept ==
    ASSUME TypeOK, NEW b \in Burns, Life!Admit(b), Enter({b})
    PROVE  Kept
BY DEF TypeOK, Kept, Completed, InQueue, Life!Transports, Life!Stages, Life!Admit,
       Life!MoveTo, Enter

\* A pass goes on knowing what it knew when the tables change under it.
LEMMA SeenStays ==
    ASSUME TypeOK, Seen, Kept, UNCHANGED loopVars
    PROVE  Seen'
<1>. DEFINE Trans == Life!Transports
<1>1. /\ Completed \subseteq Burns /\ InQueue \subseteq Burns /\ Trans \subseteq Burns
      /\ Completed' \subseteq Burns /\ InQueue' \subseteq Burns /\ Trans' \subseteq Burns
    BY DEF Completed, InQueue, Life!Transports
<1>2. /\ Cardinality(Completed) \in Nat /\ Cardinality(Completed \ moved) \in Nat
      /\ Cardinality(Trans \ moved) \in Nat /\ Cardinality(InQueue \ moved) \in Nat
      /\ Cardinality(Completed') \in Nat /\ Cardinality(Completed' \ moved') \in Nat
      /\ Cardinality(Trans' \ moved') \in Nat /\ Cardinality(InQueue' \ moved') \in Nat
    BY <1>1, BurnsFinite
<1>3. Cardinality(Completed) <= Cardinality(Completed')
    BY <1>1, BurnsFinite DEF Kept
<1>4. CASE qpc \in {"unconfirmed", "lock"}
    <2>1. /\ Cardinality(Completed \ moved) <= Cardinality(Completed' \ moved')
          /\ Cardinality(Trans' \ moved') <= Cardinality(Trans \ moved)
          /\ Cardinality(InQueue' \ moved') <= Cardinality(InQueue \ moved)
        BY <1>1, <1>4, BurnsFinite DEF Kept
    <2>2. /\ qpc' = qpc /\ completed' = completed /\ uncompleted' = uncompleted
          /\ queueSize' = queueSize
        BY DEF loopVars
    <2>3. completed \in Nat /\ uncompleted \in Nat /\ queueSize \in Nat
        BY DEF TypeOK
    <2>4. CASE qpc = "unconfirmed"
        <3>1. completed' <= Cardinality(Completed' \ moved')
            BY <1>2, <2>1, <2>2, <2>3, <2>4 DEF Seen
        <3>2. Cardinality(Trans' \ moved') <= uncompleted'
            BY <1>2, <2>1, <2>2, <2>3, <2>4 DEF Seen
        <3>. QED
            BY <2>2, <2>4, <3>1, <3>2 DEF Seen
    <2>5. CASE qpc = "lock"
        <3>1. Cardinality(InQueue' \ moved') <= queueSize'
            BY <1>2, <2>1, <2>2, <2>3, <2>5 DEF Seen
        <3>. QED
            BY <2>2, <2>5, <3>1 DEF Seen
    <2>. QED
        BY <1>4, <2>4, <2>5
<1>5. CASE qpc \notin {"unconfirmed", "lock"}
    BY <1>2, <1>3, <1>5 DEF Seen, TypeOK, loopVars
<1>. QED
    BY <1>4, <1>5

\* The size of the queue: the transports that are not completed and the burns that wait.
LEMMA SizeSeen ==
    ASSUME TypeOK, Seen, qpc = "unconfirmed"
    PROVE  Cardinality(InQueue \ moved) <= SizeOfQueue(Cardinality(Life!Unconfirmed))
<1>. DEFINE T == Life!Transports \ moved
            C == Completed \ moved
            W == InQueue \ moved
            U == Life!Unconfirmed
<1>1. /\ T \subseteq Burns /\ C \subseteq T /\ U \subseteq Burns
      /\ W \subseteq (T \ C) \cup U
    BY DEF TypeOK, Life!Stages, Life!Transports, Life!Unconfirmed, Completed, InQueue
<1>2. /\ IsFiniteSet(T) /\ IsFiniteSet(T \ C) /\ IsFiniteSet(U)
      /\ Cardinality(T) \in Nat /\ Cardinality(C) \in Nat /\ Cardinality(U) \in Nat
      /\ Cardinality(T \ C) \in Nat
    BY <1>1, BurnsFinite
<1>3. Cardinality(T \ C) = Cardinality(T) - Cardinality(C)
    <2>1. T \cap C = C
        BY <1>1
    <2>2. IsFiniteSet(T)
        BY <1>2
    <2>. HIDE DEF T, C
    <2>3. Cardinality(T \ C) = Cardinality(T) - Cardinality(T \cap C)
        BY <2>2, FS_Difference
    <2>. QED
        BY <2>1, <2>3
<1>4. Cardinality((T \ C) \cup U) <= Cardinality(T \ C) + Cardinality(U)
    <2>1. Cardinality((T \ C) \cap U) \in Nat
        BY <1>1, BurnsFinite
    <2>2. Cardinality((T \ C) \cup U) =
              Cardinality(T \ C) + Cardinality(U) - Cardinality((T \ C) \cap U)
        BY <1>2, FS_Union
    <2>. QED
        BY <1>2, <2>1, <2>2
<1>5. Cardinality(W) <= Cardinality((T \ C) \cup U)
    <2>1. (T \ C) \cup U \in SUBSET Burns
        BY <1>1
    <2>. QED
        BY <1>1, <2>1, BurnsFinite
<1>6. Cardinality(W) \in Nat /\ Cardinality((T \ C) \cup U) \in Nat
    BY <1>1, BurnsFinite
<1>7. completed <= Cardinality(C) /\ Cardinality(T) <= uncompleted
    BY DEF Seen
<1>. HIDE DEF T, C, W, U
<1>8. Cardinality(W) <= Sub(uncompleted, completed) + Cardinality(U)
    BY <1>2, <1>3, <1>4, <1>5, <1>6, <1>7 DEF Sub, TypeOK
<1>. QED
    BY <1>8 DEF SizeOfQueue, W, U

-----------------------------------------------------------------------------
(* The lock.                                                                *)

\* Loading the flag changes nothing that a caller sees.
LEMMA LoadKeeps ==
    ASSUME TypeOK, LoadFlag
    PROVE  Locked' = Locked /\ queueLocked' \in {"locked", "unlocked"}
BY DEF TypeOK, LoadFlag, Word, Locked

LEMMA LockInit == Init => LockInv
<1>. SUFFICES ASSUME Init PROVE LockInv
    OBVIOUS
<1>1. TypeOK
    <2>1. stage \in [Burns -> Life!Stages] /\ moved \subseteq Burns
        BY DEF Init, Life!Stages
    <2>2. /\ flag \in BOOLEAN /\ queueLocked \in {"unknown", "locked", "unlocked"}
          /\ lockAge \in {ZeroTime} \cup 0..QueueLockGap
        BY DEF Init
    <2>3. /\ qpc \in {"idle", "uncompleted", "unconfirmed", "lock", "blind"}
          /\ completed \in Nat /\ uncompleted \in Nat /\ queueSize \in Nat
        BY DEF Init
    <2>4. /\ cpc \in [Clients -> {"idle", "insert"}]
          /\ cburn \in [Clients -> Burns \cup {NoBurn}]
          /\ \A c \in Clients : cpc[c] = "idle" <=> cburn[c] = NoBurn
          /\ offerAge \in [Clients -> 0..QueueLockGap]
          /\ faults \in 0..MaxFaults
        BY LockAssumption DEF Init
    <2>. QED
        BY <2>1, <2>2, <2>3, <2>4 DEF TypeOK
<1>2. OffersFirst /\ Seen
    BY LockAssumption DEF Init, OffersFirst, Seen
<1>. QED
    BY <1>1, <1>2 DEF LockInv

LEMMA TypeStep == TypeOK /\ [Next]_vars => TypeOK'
<1>. SUFFICES ASSUME TypeOK, [Next]_vars PROVE TypeOK'
    OBVIOUS
<1>. USE LockAssumption DEF TypeOK
<1>1. CASE UNCHANGED vars
    BY <1>1 DEF vars, lockVars, loopVars, clientVars
<1>2. CASE TablesChange
    <2>1. Kept
        BY <1>2, TablesKept
    <2>2. faults' \in 0..MaxFaults
        BY <1>2 DEF TablesChange, Fault
    <2>. QED
        BY <1>2, <2>1, <2>2 DEF TablesChange, Kept, lockVars, loopVars, clientVars
<1>3. CASE TimePasses
    BY <1>3 DEF TimePasses, Older, ZeroTime, loopVars
<1>4. CASE ReadCompleted
    <2>1. Cardinality(Completed) \in Nat
        BY BurnsFinite DEF Completed
    <2>. QED
        BY <1>4, <2>1 DEF ReadCompleted, lockVars, clientVars
<1>5. CASE ReadUncompleted
    <2>1. Cardinality(Life!Transports) \in Nat
        BY BurnsFinite DEF Life!Transports
    <2>. QED
        BY <1>5, <2>1 DEF ReadUncompleted, lockVars, clientVars
<1>6. CASE ReadUnconfirmed
    <2>1. Cardinality(Life!Unconfirmed) \in Nat
        BY BurnsFinite DEF Life!Unconfirmed
    <2>. QED
        BY <1>6, <2>1 DEF ReadUnconfirmed, SizeOfQueue, Sub, lockVars, clientVars
<1>7. CASE UpdateLock
    <2>1. /\ flag' \in BOOLEAN /\ queueLocked' \in {"unknown", "locked", "unlocked"}
          /\ lockAge' \in {ZeroTime} \cup 0..QueueLockGap
        <3>1. CASE SetQueueLocked(FALSE)
            BY <3>1 DEF SetQueueLocked, Word
        <3>2. CASE SetQueueLocked(TRUE)
            BY <3>2 DEF SetQueueLocked, Word
        <3>3. CASE LoadFlag /\ UNCHANGED <<flag, lockAge>>
            BY <3>3 DEF LoadFlag, Word
        <3>. QED
            BY <1>7, <3>1, <3>2, <3>3 DEF UpdateLock
    <2>. QED
        BY <1>7, <2>1 DEF UpdateLock, PassEnds, clientVars
<1>8. CASE QueueSizeFails
    BY <1>8 DEF QueueSizeFails, Fault, lockVars, clientVars
<1>9. CASE UpdateLockFails
    <2>1. /\ flag' \in BOOLEAN /\ queueLocked' \in {"unknown", "locked", "unlocked"}
          /\ lockAge' = lockAge
        BY <1>9 DEF UpdateLockFails, LoadFlag, Word, lockVars
    <2>. QED
        BY <1>9, <2>1 DEF UpdateLockFails, PassEnds, Fault, clientVars
<1>10. CASE Crash
    BY <1>10 DEF Crash, PassEnds, Fault, ZeroTime
<1>11. ASSUME NEW c \in Clients, CheckAllowance(c) PROVE TypeOK'
    BY <1>11 DEF CheckAllowance, LoadFlag, Word, loopVars
<1>12. ASSUME NEW c \in Clients, Insert(c) PROVE TypeOK'
    <2>1. stage' \in [Burns -> Life!Stages] /\ moved' \subseteq Burns
        <3>1. cburn[c] \in Burns
            BY <1>12 DEF Insert
        <3>. QED
            BY <1>12, <3>1, AdmitKept DEF Insert, Kept
    <2>. QED
        BY <1>12, <2>1 DEF Insert, Return, lockVars, loopVars
<1>13. ASSUME NEW c \in Clients, NEW b \in Burns, Submit(c, b) PROVE TypeOK'
    BY <1>13 DEF Submit, LoadFlag, Word, loopVars
<1>. QED
    BY <1>1, <1>2, <1>3, <1>4, <1>5, <1>6, <1>7, <1>8, <1>9, <1>10, <1>11, <1>12, <1>13
       DEF Next, CheckQueue

\* Time ages an offer and a lock alike, a lock is set with age zero, and nothing is
\* offered while it is seen.
LEMMA OffersStep == TypeOK /\ OffersFirst /\ [Next]_vars => OffersFirst'
<1>. SUFFICES ASSUME TypeOK, OffersFirst, [Next]_vars PROVE OffersFirst'
    OBVIOUS
<1>. USE LockAssumption
<1>1. CASE UNCHANGED <<lockVars, offerAge>>
    BY <1>1 DEF OffersFirst, Locked, lockVars
<1>2. CASE TimePasses
    BY <1>2 DEF TimePasses, Older, OffersFirst, Locked, TypeOK, ZeroTime
<1>3. CASE UpdateLock
    <2>1. CASE LoadFlag /\ UNCHANGED <<flag, lockAge>>
        BY <1>3, <2>1, LoadKeeps DEF OffersFirst, UpdateLock, clientVars
    <2>2. CASE SetQueueLocked(FALSE)
        BY <2>2 DEF OffersFirst, SetQueueLocked, Locked, Word
    <2>3. CASE SetQueueLocked(TRUE)
        BY <1>3, <2>3, TypeStep DEF OffersFirst, SetQueueLocked, UpdateLock, clientVars, TypeOK
    <2>. QED
        BY <1>3, <2>1, <2>2, <2>3 DEF UpdateLock
<1>4. CASE UpdateLockFails
    <2>1. CASE LoadFlag /\ UNCHANGED lockAge
        BY <1>4, <2>1, LoadKeeps DEF OffersFirst, UpdateLockFails, clientVars
    <2>. QED
        BY <1>1, <1>4, <2>1 DEF UpdateLockFails, clientVars
<1>5. CASE Crash
    BY <1>5 DEF Crash, OffersFirst
<1>6. ASSUME NEW c \in Clients, CheckAllowance(c) PROVE OffersFirst'
    <2>1. Locked' = Locked /\ lockAge' = lockAge
        BY <1>6, LoadKeeps DEF CheckAllowance
    <2>2. CASE ~Locked
        BY <2>1, <2>2 DEF OffersFirst
    <2>3. CASE offerAge' = [offerAge EXCEPT ![c] = QueueLockGap]
        BY <2>1, <2>3 DEF OffersFirst, TypeOK
    <2>. QED
        BY <1>6, <2>2, <2>3 DEF CheckAllowance, Refuses
<1>7. ASSUME NEW c \in Clients, NEW b \in Burns, Submit(c, b) PROVE OffersFirst'
    BY <1>7, LoadKeeps DEF Submit, OffersFirst
<1>. QED
    BY <1>1, <1>2, <1>3, <1>4, <1>5, <1>6, <1>7
       DEF Next, vars, clientVars, CheckQueue, TablesChange, ReadCompleted, ReadUncompleted,
           ReadUnconfirmed, QueueSizeFails, Insert

LEMMA SeenStep == TypeOK /\ Seen /\ [Next]_vars => Seen'
<1>. SUFFICES ASSUME TypeOK, Seen, [Next]_vars PROVE Seen'
    OBVIOUS
<1>1. CASE UNCHANGED <<stage, loopVars, moved>>
    BY <1>1 DEF Seen, loopVars, Completed, InQueue, Life!Transports
<1>2. CASE TablesChange
    BY <1>2, TablesKept, SeenStays DEF TablesChange
<1>3. ASSUME NEW c \in Clients, Insert(c) PROVE Seen'
    <2>1. CASE Life!Admit(cburn[c]) /\ Enter({cburn[c]})
        <3>1. cburn[c] \in Burns
            BY <1>3 DEF Insert, TypeOK
        <3>2. Kept
            BY <2>1, <3>1, AdmitKept
        <3>. QED
            BY <1>3, <3>2, SeenStays DEF Insert
    <2>. QED
        BY <1>1, <1>3, <2>1 DEF Insert
<1>4. CASE ReadCompleted
    <2>1. Cardinality(Completed) \in Nat
        BY BurnsFinite DEF Completed
    <2>. QED
        BY <1>4, <2>1 DEF ReadCompleted, Seen, Completed
<1>5. CASE ReadUncompleted
    <2>1. Cardinality(Life!Transports) \in Nat
        BY BurnsFinite DEF Life!Transports
    <2>2. /\ Completed' \ moved' = Completed
          /\ Life!Transports' \ moved' = Life!Transports
          /\ completed' = completed /\ uncompleted' = Cardinality(Life!Transports)
          /\ qpc' = "unconfirmed"
        BY <1>5 DEF ReadUncompleted, Completed, Life!Transports
    <2>. QED
        BY <1>5, <2>1, <2>2 DEF ReadUncompleted, Seen
<1>6. CASE ReadUnconfirmed
    <2>1. InQueue' = InQueue /\ moved' = moved /\ qpc' = "lock"
        BY <1>6 DEF ReadUnconfirmed, InQueue
    <2>. QED
        BY <1>6, <2>1, SizeSeen DEF ReadUnconfirmed, Seen
<1>7. CASE QueueSizeFails
    BY <1>7 DEF QueueSizeFails, Seen
<1>8. CASE PassEnds
    BY <1>8 DEF PassEnds, Seen
<1>. QED
    BY <1>1, <1>2, <1>3, <1>4, <1>5, <1>6, <1>7, <1>8
       DEF Next, vars, CheckQueue, TimePasses, UpdateLock, UpdateLockFails, Crash,
           CheckAllowance, Submit

LEMMA LockStep == LockInv /\ [Next]_vars => LockInv'
BY TypeStep, OffersStep, SeenStep DEF LockInv

LEMMA LockHolds == Spec => []LockInv
BY LockInit, LockStep, PTL DEF Spec

-----------------------------------------------------------------------------
(* The theorems.                                                            *)

\* Every variable keeps its type.
THEOREM LockTypes == Spec => []TypeOK
<1>1. LockInv => TypeOK
    BY DEF LockInv
<1>. QED
    BY <1>1, LockHolds, PTL

\* CheckAllowance's offer is good for QueueLockGap, however the loop locks and releases
\* the queue after it, unless the server was restarted (isQueueLocked, setQueueLocked).
THEOREM OfferAlwaysKept == Spec => []OfferIsKept
<1>1. LockInv => OfferIsKept
    BY LockAssumption DEF LockInv, OffersFirst, OfferIsKept, SoftLocked, TypeOK, ZeroTime
<1>. QED
    BY <1>1, LockHolds, PTL

\* checkQueue releases the lock only of a queue in which every burn has entered a table
\* under its pass, although its three reads see three states of the tables, unless the
\* error of QueueSize was lost.
THEOREM ReleaseAlwaysSees == Spec => ReleaseSeesQueue
<1>1. LockInv /\ [Next]_vars => [Released => (qpc = "blind" \/ InQueue \subseteq moved)]_vars
    <2>. SUFFICES ASSUME LockInv, Next, Released, qpc # "blind"
                  PROVE  InQueue \subseteq moved
        OBVIOUS
    <2>1. (UpdateLock \/ UpdateLockFails) /\ MustRelease
        BY LoadKeeps
           DEF LockInv, TypeOK, Released, Next, CheckQueue, TimePasses, TablesChange, ReadCompleted,
               ReadUncompleted, ReadUnconfirmed, QueueSizeFails, Crash, CheckAllowance,
               Insert, Submit, lockVars, UpdateLock, UpdateLockFails, SetQueueLocked, LoadFlag,
               Locked, Word
    <2>2. Cardinality(InQueue \ moved) <= 0
        BY <2>1 DEF UpdateLock, UpdateLockFails, MustRelease, LockInv, Seen
    <2>3. InQueue \ moved \in SUBSET Burns
        BY DEF InQueue
    <2>4. Cardinality(InQueue \ moved) = 0 /\ IsFiniteSet(InQueue \ moved)
        BY <2>2, <2>3, BurnsFinite
    <2>5. InQueue \ moved = {}
        BY <2>4, FS_EmptySet
    <2>. QED
        BY <2>5
<1>. QED
    BY <1>1, LockHolds, PTL DEF Spec, ReleaseSeesQueue

\* A pass of checkQueue that was told the size and ends without a fault locks a queue that is too large.
THEOREM LimitAlwaysEnforced == Spec => LimitIsEnforced
<1>. DEFINE Large == PassIsOver /\ Cardinality(InQueue \ moved) > QueueLockLimit
<1>1. LockInv /\ [Next]_vars => [Large => Locked']_vars
    <2>. SUFFICES ASSUME LockInv, Next, Large PROVE Locked'
        OBVIOUS
    <2>1. UpdateLock
        BY DEF PassIsOver, LockInv, TypeOK, Next, CheckQueue, TimePasses, TablesChange,
               ReadCompleted, ReadUncompleted, ReadUnconfirmed, QueueSizeFails,
               UpdateLockFails, Crash, CheckAllowance, Insert, Submit, Fault, loopVars
    <2>2. Cardinality(InQueue \ moved) <= queueSize /\ queueSize \in Nat
        BY DEF PassIsOver, LockInv, Seen, TypeOK
    <2>3. Cardinality(InQueue \ moved) \in Nat
        BY BurnsFinite DEF InQueue
    <2>4. queueSize > QueueLockLimit /\ queueSize # 0
        BY <2>2, <2>3, LockAssumption
    <2>5. CASE Locked
        BY <2>1, <2>4, <2>5, LoadKeeps DEF UpdateLock, MustRelease, MustLock, LockInv
    <2>6. CASE ~Locked
        BY <2>1, <2>4, <2>6 DEF UpdateLock, MustRelease, MustLock, SetQueueLocked, Locked, Word
    <2>. QED
        BY <2>5, <2>6
<1>. QED
    BY <1>1, LockHolds, PTL DEF Spec, LimitIsEnforced
=============================================================================
