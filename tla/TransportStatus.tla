--------------------------- MODULE TransportStatus ---------------------------
(***************************************************************************)
(* The TransportStatus call of the API: TransportRecord looks for the burn   *)
(* in the transport tables and, if it is in none of them, UnconfirmedInfo    *)
(* looks for it in unconfirmed_burns, in a transaction of its own.  Every     *)
(* statement sees what is committed when it runs, and the loops move the     *)
(* burns meanwhile, as BurnStages lets them.                                 *)
(***************************************************************************)
EXTENDS Naturals

CONSTANTS
    Burns,              \* burn transactions
    NoBurn,             \* no burn asked for
    Clients,            \* callers of TransportStatus
    RetryErrorUnwraps,  \* does errors.Is see what the error of retry.Do wraps?
    MaxFaults           \* bound on failed statements and commits and on restarts

ASSUME StatusAssumption ==
    NoBurn \notin Burns /\ RetryErrorUnwraps \in BOOLEAN /\ MaxFaults \in Nat

VARIABLES
    stage,      \* the tables: see BurnStages
    pc,         \* the statement a call is about to run
    burn,       \* the burn it asks for
    found,      \* the status it has read
    answer,     \* the answer of the client's last call
    \* History.
    seen,       \* the stages of the burn during the call
    known,      \* what was answered about a burn: see Knowledge
    floor,      \* what was known about the burn when the call began
    faults      \* faults so far

callVars == <<pc, burn, found, answer>>
vars == <<stage, callVars, seen, known, floor, faults>>

Life == INSTANCE BurnStages

Statuses == {"NotFound", "Unconfirmed", "InTheQueue", "SolanaTxCreated", "Completed"}

\* What an answer tells for good: the burn is a transport, its transport is over.
Knowledge == {"nothing", "transport", "completed"}

Fault == faults < MaxFaults /\ faults' = faults + 1

-----------------------------------------------------------------------------
Init ==
    /\ stage = [b \in Burns |-> "none"]
    /\ pc = [c \in Clients |-> "idle"]
    /\ burn = [c \in Clients |-> NoBurn]
    /\ found = [c \in Clients |-> "nothing"]
    /\ answer = [c \in Clients |-> "nothing"]
    /\ seen = [c \in Clients |-> {}]
    /\ known = [b \in Burns |-> "nothing"]
    /\ floor = [c \in Clients |-> "nothing"]
    /\ faults = 0

-----------------------------------------------------------------------------
(* The tables, as SubmitScpTx and the loops move the burns through them.    *)

\* The calls under way see the burns move.
Watch ==
    seen' = [c \in Clients |->
                IF pc[c] = "idle" THEN seen[c] ELSE seen[c] \cup {stage'[burn[c]]}]

TablesChange ==
    /\ \E b \in Burns : \/ Life!Admit(b) \/ Life!Remove({b}) \/ Life!Confirm({b})
                        \/ Life!Record(b) \/ Life!Complete(b)
    /\ Watch
    /\ UNCHANGED <<callVars, known, floor, faults>>

\* The server is started again.  Its calls are gone, and the recovery may take a stale
\* transaction from a record before the first call is served.
Restart ==
    /\ Fault
    /\ UNCHANGED stage \/ \E b \in Burns : Life!Forget(b)
    /\ pc' = [c \in Clients |-> "idle"]
    /\ burn' = [c \in Clients |-> NoBurn]
    /\ found' = [c \in Clients |-> "nothing"]
    /\ answer' = [c \in Clients |-> "nothing"]
    /\ UNCHANGED <<seen, known, floor>>

-----------------------------------------------------------------------------
(* A call.                                                                  *)

\* What an answer adds to what is known.
Learn(k, a) ==
    IF a = "Completed" THEN "completed"
    ELSE IF a \in {"InTheQueue", "SolanaTxCreated"} /\ k = "nothing" THEN "transport"
    ELSE k

\* The handler returns, with a status or an error.
Return(c, a) ==
    /\ pc' = [pc EXCEPT ![c] = "idle"]
    /\ found' = [found EXCEPT ![c] = "nothing"]
    /\ answer' = [answer EXCEPT ![c] = a]
    /\ known' = [known EXCEPT ![burn[c]] = Learn(known[burn[c]], a)]

Goto(c, l) == pc' = [pc EXCEPT ![c] = l] /\ UNCHANGED <<found, answer, known>>

\* A statement has given the status: the transaction commits next.
Find(c, status) ==
    /\ pc' = [pc EXCEPT ![c] = "commit"]
    /\ found' = [found EXCEPT ![c] = status]
    /\ UNCHANGED <<answer, known>>

Call(c, b) ==
    /\ pc[c] = "idle"
    /\ pc' = [pc EXCEPT ![c] = "exists"]
    /\ burn' = [burn EXCEPT ![c] = b]
    /\ answer' = [answer EXCEPT ![c] = "nothing"]
    /\ seen' = [seen EXCEPT ![c] = {stage[b]}]
    /\ floor' = [floor EXCEPT ![c] = known[b]]
    /\ UNCHANGED <<stage, found, known, faults>>

\* Mutant: the tables are searched for rows whose transaction is not confirmed.
UncompletedTransport(b) == stage[b] \in {"queued", "sent"}

\* BurnIDExists of the three transport tables.
TransportExists(b) == b \in Life!Transports

\* BurnIDExists.  Without a row TransportRecord returns ErrNotExists, in the error of
\* retry.Do.
ReadExists(c) ==
    /\ pc[c] = "exists"
    /\ \/ TransportExists(burn[c]) /\ Goto(c, "record")
       \/ ~TransportExists(burn[c]) /\ RetryErrorUnwraps /\ Goto(c, "unconfirmed")
       \/ ~TransportExists(burn[c]) /\ ~RetryErrorUnwraps /\ Return(c, "error")
    /\ UNCHANGED <<stage, burn, seen, floor, faults>>

\* SelectPreminedRecord, SelectAirdropRecord or SelectQueueRecord: the row may hold the
\* id of a Solana transaction.
ReadRecord(c) ==
    /\ pc[c] = "record"
    /\ \/ stage[burn[c]] = "queued" /\ Find(c, "InTheQueue")
       \/ stage[burn[c]] # "queued" /\ Goto(c, "solana")
    /\ UNCHANGED <<stage, burn, seen, floor, faults>>

\* Mutant: a transaction that was recorded passes for a confirmed one.
RecordedIsConfirmed(b) == stage[b] \in {"sent", "completed"}

\* solana_transactions.confirmed
IsConfirmed(b) == stage[b] = "completed"

\* SelectSolanaTransaction.
ReadSolana(c) ==
    /\ pc[c] = "solana"
    /\ Find(c, IF IsConfirmed(burn[c]) THEN "Completed" ELSE "SolanaTxCreated")
    /\ UNCHANGED <<stage, burn, seen, floor, faults>>

\* SelectUnconfirmedRecord: without a row the call ends, and nothing is committed.
ReadUnconfirmed(c) ==
    /\ pc[c] = "unconfirmed"
    /\ \/ stage[burn[c]] = "unconfirmed" /\ Find(c, "Unconfirmed")
       \/ stage[burn[c]] # "unconfirmed" /\ Return(c, "NotFound")
    /\ UNCHANGED <<stage, burn, seen, floor, faults>>

\* Mutant: what was read is left behind.
CommitOnly(c) ==
    /\ pc' = [pc EXCEPT ![c] = "idle"]
    /\ answer' = [answer EXCEPT ![c] = found[c]]
    /\ known' = [known EXCEPT ![burn[c]] = Learn(known[burn[c]], found[c])]
    /\ UNCHANGED found

Respond(c) == Return(c, found[c])

Commit(c) ==
    /\ pc[c] = "commit"
    /\ Respond(c)
    /\ UNCHANGED <<stage, burn, seen, floor, faults>>

\* COMMIT fails: runRetryableTransaction begins the transaction again.
CommitFails(c) ==
    /\ pc[c] = "commit"
    /\ Fault
    /\ pc' = [pc EXCEPT ![c] = IF found[c] = "Unconfirmed" THEN "unconfirmed" ELSE "exists"]
    /\ found' = [found EXCEPT ![c] = "nothing"]
    /\ UNCHANGED <<stage, burn, answer, seen, known, floor>>

\* BEGIN, a statement, ROLLBACK or the last of the retries fails.
CallFails(c) ==
    /\ pc[c] # "idle"
    /\ Fault
    /\ Return(c, "error")
    /\ UNCHANGED <<stage, burn, seen, floor>>

-----------------------------------------------------------------------------
Next ==
    \/ TablesChange
    \/ Restart
    \/ \E c \in Clients, b \in Burns : Call(c, b)
    \/ \E c \in Clients :
          \/ ReadExists(c) \/ ReadRecord(c) \/ ReadSolana(c) \/ ReadUnconfirmed(c)
          \/ Commit(c) \/ CommitFails(c) \/ CallFails(c)

Spec == Init /\ [][Next]_vars

-----------------------------------------------------------------------------
(* Properties.                                                              *)

TypeOK ==
    /\ stage \in [Burns -> Life!Stages]
    /\ pc \in [Clients -> {"idle", "exists", "record", "solana", "unconfirmed", "commit"}]
    /\ burn \in [Clients -> Burns \cup {NoBurn}]
    /\ found \in [Clients -> Statuses \cup {"nothing"}]
    /\ answer \in [Clients -> Statuses \cup {"nothing", "error"}]
    /\ seen \in [Clients -> SUBSET Life!Stages]
    /\ known \in [Burns -> Knowledge]
    /\ floor \in [Clients -> Knowledge]
    /\ faults \in 0..MaxFaults
    /\ \A c \in Clients :
          /\ pc[c] # "idle" => burn[c] \in Burns /\ answer[c] = "nothing"
          /\ pc[c] = "commit" <=> found[c] # "nothing"

\* When a status may be answered, by the stages the burn had during the call.
WasTrue(status, S) ==
    /\ status = "NotFound" => "none" \in S \/ {"unconfirmed", "queued"} \subseteq S
    /\ status = "Unconfirmed" => "unconfirmed" \in S
    /\ status = "InTheQueue" => "queued" \in S
    /\ status = "SolanaTxCreated" => "sent" \in S
    /\ status = "Completed" => "completed" \in S

\* Up to four statements see up to four states of the tables, yet the answer is the stage
\* of the burn at a moment of the call.  There is one exception: a burn that is confirmed
\* during the call may be "not found", and only then.
AnswerWasTrue == \A c \in Clients : WasTrue(answer[c], seen[c])

\* Whatever restarts and recoveries do, a client that asks after an answer was given does
\* not hear that a transport is back among the unconfirmed burns or gone, nor that a
\* completed one is not completed.
AnswersNeverGoBack ==
    \A c \in Clients : answer[c] \in Statuses =>
        /\ floor[c] # "nothing" => answer[c] \notin {"NotFound", "Unconfirmed"}
        /\ floor[c] = "completed" => answer[c] = "Completed"

\* "Record was not found, check unconfirmed": a call that meets no fault is answered with
\* a status, which may be NotFound or Unconfirmed.
EveryBurnHasStatus == faults = 0 => \A c \in Clients : answer[c] # "error"
=============================================================================
