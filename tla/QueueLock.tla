------------------------------ MODULE QueueLock ------------------------------
(***************************************************************************)
(* The queue lock of the ReleaseAllAtOnce mode: the "process queue" loop     *)
(* (checkQueue in loops.go) locks a queue that has grown above               *)
(* QueueLockLimit and releases it when it is empty, CheckAllowance offers    *)
(* nothing while the queue is locked, and SubmitScpTx still accepts burns    *)
(* for QueueLockGap, so that who was offered an allowance can use it.        *)
(*                                                                         *)
(* The burns are regular ones, of one unit each, and are completed in their  *)
(* order: a supply is a number of burns.  The tables change below the lock   *)
(* as BurnStages lets them.                                                  *)
(* Times are ages, counted up to the gap.                                    *)
(***************************************************************************)
EXTENDS Integers, FiniteSets

CONSTANTS
    Burns,          \* regular burn transactions
    NoBurn,         \* no burn submitted
    Clients,        \* callers of CheckAllowance and SubmitScpTx
    QueueLockLimit, \* settings.QueueLockLimit
    QueueLockGap,   \* settings.QueueLockGap
    MaxFaults       \* bound on failed calls and crashes

ASSUME LockAssumption ==
    /\ IsFiniteSet(Burns) /\ NoBurn \notin Burns
    /\ QueueLockLimit \in Nat /\ QueueLockGap \in Nat /\ MaxFaults \in Nat

VARIABLES
    stage,          \* unconfirmed_burns and queue_transports: see BurnStages
    flag,           \* the flag queue_locked of global_flags
    \* The server.
    queueLocked,    \* its copy of the flag, "unknown" before it is loaded
    lockAge,        \* time since lockTime, ZeroTime when lockTime is zero
    \* checkQueue.
    qpc,            \* where the loop is
    completed,      \* completed supply it read
    uncompleted,    \* uncompleted supply it read
    queueSize,      \* size of the queue it computed
    moved,          \* burns that entered a table since it read the queue
    \* The clients.
    cpc,            \* where a call of SubmitScpTx is
    cburn,          \* its burn
    offerAge,       \* time since CheckAllowance offered something, up to the gap
    faults          \* faults so far

lockVars == <<flag, queueLocked, lockAge>>
loopVars == <<qpc, completed, uncompleted, queueSize>>
clientVars == <<cpc, cburn, offerAge>>
vars == <<stage, lockVars, loopVars, moved, clientVars, faults>>

Life == INSTANCE BurnStages

ZeroTime == -1

Fault == faults < MaxFaults /\ faults' = faults + 1

Completed == {b \in Burns : stage[b] = "completed"}
InQueue == {b \in Burns : stage[b] \in {"unconfirmed", "queued", "sent"}}

Sub(x, y) == IF x < y THEN 0 ELSE x - y

-----------------------------------------------------------------------------
Init ==
    /\ stage = [b \in Burns |-> "none"]
    /\ flag = FALSE
    /\ queueLocked = "unknown"
    /\ lockAge = ZeroTime
    /\ qpc = "idle"
    /\ completed = 0 /\ uncompleted = 0 /\ queueSize = 0
    /\ moved = {}
    /\ cpc = [c \in Clients |-> "idle"]
    /\ cburn = [c \in Clients |-> NoBurn]
    /\ offerAge = [c \in Clients |-> QueueLockGap]
    /\ faults = 0

-----------------------------------------------------------------------------
(* The lock.                                                                *)

Word(locked) == IF locked THEN "locked" ELSE "unlocked"

\* What getQueueLocked returns, and the copy it leaves.
Locked == IF queueLocked = "unknown" THEN flag ELSE queueLocked = "locked"
LoadFlag == queueLocked' = Word(Locked)

\* isQueueLocked without the hard check: a lock is not seen for QueueLockGap.
SoftLocked == Locked /\ (lockAge = ZeroTime \/ lockAge >= QueueLockGap)

\* setQueueLocked: the flag first, then the copy.
SetQueueLocked(val) ==
    /\ flag' = val
    /\ queueLocked' = Word(val)
    /\ lockAge' = IF val THEN 0 ELSE lockAge

\* Time passes: every age grows, up to the gap.
Older(age) == IF age < QueueLockGap THEN age + 1 ELSE age

TimePasses ==
    /\ lockAge' = IF lockAge = ZeroTime THEN ZeroTime ELSE Older(lockAge)
    /\ offerAge' = [c \in Clients |-> Older(offerAge[c])]
    /\ <<lockAge, offerAge>>' # <<lockAge, offerAge>>
    /\ UNCHANGED <<stage, flag, queueLocked, loopVars, moved, cpc, cburn, faults>>

-----------------------------------------------------------------------------
(* The tables.                                                              *)

\* A pass that has read the queue does not see what enters the tables now.
Enter(S) ==
    moved' = IF qpc \in {"unconfirmed", "lock", "blind"} THEN moved \cup S ELSE moved

\* processUnconfirmed and mint at work; a record is cleared by a restart only.
TablesChange ==
    /\ \/ \E S \in (SUBSET Burns) \ {{}} : Life!Remove(S) /\ UNCHANGED <<moved, faults>>
       \/ \E S \in (SUBSET Burns) \ {{}} : Life!Confirm(S) /\ Enter(S) /\ UNCHANGED faults
       \/ \E b \in Burns : (Life!Record(b) \/ Life!Complete(b)) /\ UNCHANGED <<moved, faults>>
       \/ \E b \in Burns : Life!Forget(b) /\ UNCHANGED moved /\ Fault
    /\ UNCHANGED <<lockVars, loopVars, clientVars>>

-----------------------------------------------------------------------------
(* CheckAllowance and SubmitScpTx of regular burns.                         *)

\* Mutant: the allowance is cut by the check that SubmitScpTx uses.
RefusesSoftly == SoftLocked

\* CheckAllowance makes the hard check.
Refuses == Locked

\* Locked, or without capacity: nothing is offered.
CheckAllowance(c) ==
    /\ LoadFlag
    /\ \/ ~Refuses /\ offerAge' = [offerAge EXCEPT ![c] = 0]
       \/ offerAge' = [offerAge EXCEPT ![c] = QueueLockGap]
    /\ UNCHANGED <<stage, flag, lockAge, loopVars, moved, cpc, cburn, faults>>

\* Mutant: the lock is not looked at.
MaySubmitAlways == TRUE

\* SubmitScpTx: "queue is locked".
MaySubmit == ~SoftLocked

Submit(c, b) ==
    /\ cpc[c] = "idle"
    /\ LoadFlag
    /\ IF MaySubmit
       THEN cpc' = [cpc EXCEPT ![c] = "insert"] /\ cburn' = [cburn EXCEPT ![c] = b]
       ELSE UNCHANGED <<cpc, cburn>>
    /\ UNCHANGED <<stage, flag, lockAge, loopVars, moved, offerAge, faults>>

\* Mutant: the burn of the call is kept.
ReturnOnly(c) == cpc' = [cpc EXCEPT ![c] = "idle"] /\ UNCHANGED cburn

Return(c) == cpc' = [cpc EXCEPT ![c] = "idle"] /\ cburn' = [cburn EXCEPT ![c] = NoBurn]

\* AddUnconfirmedScpTx, which may also refuse the burn or fail: the lock is not looked
\* at again.
Insert(c) ==
    /\ cpc[c] = "insert"
    /\ \/ Life!Admit(cburn[c]) /\ Enter({cburn[c]})
       \/ UNCHANGED <<stage, moved>>
    /\ Return(c)
    /\ UNCHANGED <<lockVars, loopVars, offerAge, faults>>

-----------------------------------------------------------------------------
(* checkQueue: QueueSize makes three reads in one transaction, each of which *)
(* sees what is committed then.                                              *)

ReadCompleted ==
    /\ qpc = "idle"
    /\ qpc' = "uncompleted"
    /\ completed' = Cardinality(Completed)
    /\ UNCHANGED <<stage, lockVars, uncompleted, queueSize, moved, clientVars, faults>>

ReadUncompleted ==
    /\ qpc = "uncompleted"
    /\ qpc' = "unconfirmed"
    /\ uncompleted' = Cardinality(Life!Transports)
    /\ moved' = {}
    /\ UNCHANGED <<stage, lockVars, completed, queueSize, clientVars, faults>>

\* queueState.size and the unconfirmed amount.
SizeOfQueue(unconfirmed) == Sub(uncompleted, completed) + unconfirmed

ReadUnconfirmed ==
    /\ qpc = "unconfirmed"
    /\ qpc' = "lock"
    /\ queueSize' = SizeOfQueue(Cardinality(Life!Unconfirmed))
    /\ completed' = 0 /\ uncompleted' = 0
    /\ UNCHANGED <<stage, lockVars, moved, clientVars, faults>>

\* The transaction fails, and QueueSize returns zero and no error: the pass goes on blind,
\* with the queue of a server that has nothing to do.
QueueSizeFails ==
    /\ qpc \in {"uncompleted", "unconfirmed"}
    /\ Fault
    /\ qpc' = "blind"
    /\ completed' = 0 /\ uncompleted' = 0 /\ queueSize' = 0
    /\ moved' = {}
    /\ UNCHANGED <<stage, lockVars, clientVars>>

\* The callback returns.
PassEnds == qpc' = "idle" /\ queueSize' = 0 /\ moved' = {}

\* Mutant: a queue that has drained to the limit is released.
MustReleaseEarly == Locked /\ queueSize <= QueueLockLimit

MustRelease == Locked /\ queueSize = 0

\* Mutant: only a burn that joins the queue at the limit locks it.
MustLockLate == ~Locked /\ queueSize > QueueLockLimit + 1

MustLock == ~Locked /\ queueSize > QueueLockLimit

\* The hard check and its consequence; nothing else sets the lock.
UpdateLock ==
    /\ qpc \in {"lock", "blind"}
    /\ \/ MustRelease /\ SetQueueLocked(FALSE)
       \/ MustLock /\ SetQueueLocked(TRUE)
       \/ ~MustRelease /\ ~MustLock /\ LoadFlag /\ UNCHANGED <<flag, lockAge>>
    /\ PassEnds
    /\ UNCHANGED <<stage, completed, uncompleted, clientVars, faults>>

\* SetFlag, or the load of the flag, fails, the write perhaps committed all the same.
UpdateLockFails ==
    /\ qpc \in {"lock", "blind"}
    /\ Fault
    /\ \/ UNCHANGED lockVars
       \/ LoadFlag /\ MustRelease /\ flag' = FALSE /\ UNCHANGED lockAge
       \/ LoadFlag /\ MustLock /\ flag' = TRUE /\ UNCHANGED lockAge
    /\ PassEnds
    /\ UNCHANGED <<stage, completed, uncompleted, clientVars>>

\* The process dies and is started again: queueLocked is nil and lockTime zero.
Crash ==
    /\ Fault
    /\ queueLocked' = "unknown"
    /\ lockAge' = ZeroTime
    /\ PassEnds
    /\ completed' = 0 /\ uncompleted' = 0
    /\ cpc' = [c \in Clients |-> "idle"]
    /\ cburn' = [c \in Clients |-> NoBurn]
    /\ UNCHANGED <<stage, flag, offerAge>>

-----------------------------------------------------------------------------
CheckQueue == ReadCompleted \/ ReadUncompleted \/ ReadUnconfirmed \/ UpdateLock

Next ==
    \/ TablesChange
    \/ TimePasses
    \/ CheckQueue \/ QueueSizeFails \/ UpdateLockFails \/ Crash
    \/ \E c \in Clients : CheckAllowance(c) \/ Insert(c)
    \/ \E c \in Clients, b \in Burns : Submit(c, b)

Spec == Init /\ [][Next]_vars

\* The other loops do what UnconfirmedIsResolved and AcceptedIsCompleted say of them.
TablesMove(b) ==
    /\ Life!Confirm({b}) \/ Life!Remove({b}) \/ Life!Record(b) \/ Life!Complete(b)
    /\ TablesChange

(* The loop ticks, time passes, a call of SubmitScpTx goes on, and the other *)
(* loops resolve every burn.  Nobody has to call anything.                   *)
Fairness ==
    /\ WF_vars(CheckQueue)
    /\ WF_vars(TimePasses)
    /\ \A c \in Clients : WF_vars(Insert(c))
    /\ \A b \in Burns : WF_vars(TablesMove(b))

FairSpec == Spec /\ Fairness

-----------------------------------------------------------------------------
(* Properties.                                                              *)

TypeOK ==
    /\ stage \in [Burns -> Life!Stages]
    /\ flag \in BOOLEAN
    /\ queueLocked \in {"unknown", "locked", "unlocked"}
    /\ lockAge \in {ZeroTime} \cup 0..QueueLockGap
    /\ qpc \in {"idle", "uncompleted", "unconfirmed", "lock", "blind"}
    /\ completed \in Nat /\ uncompleted \in Nat /\ queueSize \in Nat
    /\ moved \subseteq Burns
    /\ cpc \in [Clients -> {"idle", "insert"}]
    /\ cburn \in [Clients -> Burns \cup {NoBurn}]
    /\ \A c \in Clients : cpc[c] = "idle" <=> cburn[c] = NoBurn
    /\ offerAge \in [Clients -> 0..QueueLockGap]
    /\ faults \in 0..MaxFaults

\* "Allow up to `QueueLockGap` time between CheckAllowance and SubmitScpTx": an offer
\* younger than the gap is not refused for a lock that was set after it, however the
\* lock was released and set again in between.  Only a restart forgets lockTime.
OfferIsKept ==
    \A c \in Clients : (offerAge[c] < QueueLockGap /\ SoftLocked) => lockAge = ZeroTime

\* The lock is taken off the queue, in the database or in the server.
Released == (flag /\ ~flag') \/ (queueLocked = "locked" /\ queueLocked' = "unlocked")

\* All at once: a release overlooks only burns that entered a table while its pass was
\* reading them, if the pass was told the size of the queue.
ReleaseSeesQueue == [][Released => (qpc = "blind" \/ InQueue \subseteq moved)]_vars

\* What the size of the queue is asked for: no release overlooks more than that.  A pass
\* whose QueueSize failed does.
ReleaseMeansEmpty == [][Released => InQueue \subseteq moved]_vars

\* A locked queue is released in the end: submissions accepted in the gap, or accepted
\* before the lock and inserted after it, cannot keep it from draining.
LockIsReleased == Locked ~> ~Locked

\* A pass that was told the size of the queue and ends without a fault leaves the queue
\* locked when the burns that stayed where they were make it larger than the limit.
PassIsOver == qpc = "lock" /\ qpc' = "idle" /\ faults' = faults

LimitIsEnforced ==
    [][(PassIsOver /\ Cardinality(InQueue \ moved) > QueueLockLimit) => Locked']_vars
=============================================================================
