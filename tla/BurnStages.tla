------------------------------ MODULE BurnStages ------------------------------
(***************************************************************************)
(* The life of a burn as its transport status tells it (TransportStatus in   *)
(* common/types.go), whatever tables, loops and chains stand behind it.      *)
(* BurnIntake implements the first half of it and MintPipeline the second;   *)
(* QueueLock and TransportStatus run beside it.                              *)
(***************************************************************************)

CONSTANT Burns      \* burn transactions

VARIABLE stage      \* the stage of each burn

Stages == {"none", "unconfirmed", "queued", "sent", "completed"}

StageIn(S, s) == \A b \in S : stage[b] = s

MoveTo(S, s) == stage' = [b \in Burns |-> IF b \in S THEN s ELSE stage[b]]

Unconfirmed == {b \in Burns : stage[b] = "unconfirmed"}
Transports == {b \in Burns : stage[b] \in {"queued", "sent", "completed"}}

-----------------------------------------------------------------------------
\* A half of the server starts with what the other half has left it.
Init == stage \in [Burns -> {"none", "unconfirmed"}]

\* SubmitScpTx accepts a burn.
Admit(b) == stage[b] = "none" /\ MoveTo({b}, "unconfirmed")

\* processUnconfirmed removes burns that were not confirmed in time.
Remove(S) == StageIn(S, "unconfirmed") /\ MoveTo(S, "none")

\* processUnconfirmed moves burns into the transport tables.
Confirm(S) == StageIn(S, "unconfirmed") /\ MoveTo(S, "queued")

\* mint records a Solana transaction.
Record(b) == stage[b] = "queued" /\ MoveTo({b}, "sent")

\* The recovery removes a stale transaction from its record.
Forget(b) == stage[b] = "sent" /\ MoveTo({b}, "queued")

\* mint, or the recovery, confirms the transaction.
Complete(b) == stage[b] = "sent" /\ MoveTo({b}, "completed")

Next ==
    \/ \E b \in Burns : Admit(b) \/ Record(b) \/ Forget(b) \/ Complete(b)
    \/ \E S \in SUBSET Burns : Remove(S) \/ Confirm(S)

Spec == Init /\ [][Next]_stage
=============================================================================
