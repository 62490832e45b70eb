------------------------ MODULE TransportStatusProofs ------------------------
(***************************************************************************)
(* Proofs about TransportStatus for every number of burns, clients and       *)
(* faults, whether or not the error of retry.Do unwraps: an answer was true   *)
(* during its call, and what was answered is not taken back.                 *)
(***************************************************************************)
EXTENDS TransportStatus, TLAPS

TransportStages == {"queued", "sent", "completed"}

\* How one burn moves while the server runs.
Moves(s, t) ==
    \/ t = s
    \/ s = "none" /\ t = "unconfirmed"
    \/ s = "unconfirmed" /\ t \in {"none", "queued"}
    \/ s = "queued" /\ t = "sent"
    \/ s = "sent" /\ t = "completed"

\* What the stages S that a call has seen tell of the present stage s.
Watched(s, S) ==
    /\ s \in S
    /\ S \cap TransportStages # {} => s \in TransportStages
    /\ "completed" \in S => s = "completed"
    /\ s \in TransportStages /\ "unconfirmed" \in S => "queued" \in S

\* What the place of a call tells of the stages.
Placed(l, f, s, S) ==
    /\ l \in {"record", "solana"} => s \in TransportStages
    /\ l = "solana" => s # "queued"
    /\ l = "unconfirmed" => S \cap {"none", "unconfirmed"} # {}
    /\ l = "commit" => f # "NotFound" /\ WasTrue(f, S)

CallsWatch ==
    \A c \in Clients : pc[c] # "idle" =>
        Watched(stage[burn[c]], seen[c]) /\ Placed(pc[c], found[c], stage[burn[c]], seen[c])

\* What was answered still holds.
KnownHolds ==
    \A b \in Burns :
        /\ known[b] # "nothing" => stage[b] \in TransportStages
        /\ known[b] = "completed" => stage[b] = "completed"

\* A call that began with some knowledge sees nothing that contradicts it.
FloorHolds ==
    \A c \in Clients :
        /\ floor[c] # "nothing" => seen[c] \subseteq TransportStages
        /\ floor[c] = "completed" => seen[c] \subseteq {"completed"}

StatusInv == TypeOK /\ CallsWatch /\ AnswerWasTrue /\ KnownHolds /\ FloorHolds

-----------------------------------------------------------------------------
(* The tables.                                                              *)

LEMMA BurnMoves ==
    ASSUME TypeOK, TablesChange
    PROVE  /\ stage' \in [Burns -> Life!Stages]
           /\ \A b \in Burns : Moves(stage[b], stage'[b])
BY DEF TypeOK, TablesChange, Moves, Life!Stages, Life!Admit, Life!Remove, Life!Confirm,
       Life!Record, Life!Complete, Life!StageIn, Life!MoveTo

LEMMA WatchedMoves ==
    ASSUME NEW s \in Life!Stages, NEW t \in Life!Stages, NEW S \in SUBSET Life!Stages,
           Watched(s, S), Moves(s, t)
    PROVE  Watched(t, S \cup {t})
BY DEF Watched, Moves, TransportStages, Life!Stages

LEMMA PlacedMoves ==
    ASSUME NEW s, NEW t, NEW S, NEW l, NEW f, Moves(s, t), Placed(l, f, s, S)
    PROVE  Placed(l, f, t, S \cup {t})
BY DEF Placed, Moves, WasTrue, TransportStages

-----------------------------------------------------------------------------
(* The invariant.                                                           *)

LEMMA StatusInit == Init => StatusInv
<1>. SUFFICES ASSUME Init PROVE StatusInv
    OBVIOUS
<1>1. TypeOK
    BY StatusAssumption DEF Init, TypeOK, Life!Stages, Knowledge, Statuses
<1>2. CallsWatch /\ AnswerWasTrue /\ KnownHolds /\ FloorHolds
    BY DEF Init, CallsWatch, AnswerWasTrue, WasTrue, KnownHolds, FloorHolds
<1>. QED
    BY <1>1, <1>2 DEF StatusInv

LEMMA TablesStep ==
    ASSUME StatusInv, TablesChange
    PROVE  StatusInv'
<1>. USE DEF StatusInv, TypeOK
<1>1. /\ stage' \in [Burns -> Life!Stages]
      /\ \A b \in Burns : Moves(stage[b], stage'[b])
    BY BurnMoves
<1>2. /\ UNCHANGED <<pc, burn, found, answer, known, floor, faults>>
      /\ seen' = [c \in Clients |->
                     IF pc[c] = "idle" THEN seen[c] ELSE seen[c] \cup {stage'[burn[c]]}]
    BY DEF TablesChange, Watch, callVars
<1>3. TypeOK'
    BY <1>1, <1>2
<1>4. CallsWatch'
    <2>. SUFFICES ASSUME NEW c \in Clients, pc[c] # "idle"
                  PROVE  /\ Watched(stage'[burn[c]], seen[c] \cup {stage'[burn[c]]})
                         /\ Placed(pc[c], found[c], stage'[burn[c]],
                                   seen[c] \cup {stage'[burn[c]]})
        BY <1>2 DEF CallsWatch
    <2>1. burn[c] \in Burns
        OBVIOUS
    <2>. QED
        BY <1>1, <2>1, WatchedMoves, PlacedMoves DEF CallsWatch
<1>5. AnswerWasTrue'
    BY <1>2 DEF AnswerWasTrue, WasTrue
<1>6. KnownHolds'
    BY <1>1, <1>2 DEF KnownHolds, Moves, TransportStages
<1>7. FloorHolds'
    <2>. SUFFICES ASSUME NEW c \in Clients, pc[c] # "idle"
                  PROVE  /\ floor[c] # "nothing" =>
                               seen[c] \cup {stage'[burn[c]]} \subseteq TransportStages
                         /\ floor[c] = "completed" =>
                               seen[c] \cup {stage'[burn[c]]} \subseteq {"completed"}
        BY <1>2 DEF FloorHolds
    <2>1. stage[burn[c]] \in seen[c] /\ Moves(stage[burn[c]], stage'[burn[c]])
        BY <1>1 DEF CallsWatch, Watched
    <2>. QED
        BY <2>1 DEF FloorHolds, Moves, TransportStages
<1>. QED
    BY <1>3, <1>4, <1>5, <1>6, <1>7

LEMMA RestartStep ==
    ASSUME StatusInv, Restart
    PROVE  StatusInv'
<1>. USE DEF StatusInv, TypeOK
<1>1. /\ stage' \in [Burns -> Life!Stages]
      /\ \A b \in Burns : stage'[b] = stage[b] \/ (stage[b] = "sent" /\ stage'[b] = "queued")
    BY DEF Restart, Life!Forget, Life!MoveTo, Life!Stages
<1>2. TypeOK'
    BY <1>1, StatusAssumption DEF Restart, Fault
<1>3. CallsWatch' /\ AnswerWasTrue' /\ FloorHolds'
    BY DEF Restart, CallsWatch, AnswerWasTrue, WasTrue, FloorHolds
<1>4. KnownHolds'
    BY <1>1 DEF Restart, KnownHolds, TransportStages
<1>. QED
    BY <1>2, <1>3, <1>4

LEMMA CallStep ==
    ASSUME StatusInv, NEW c \in Clients, NEW b \in Burns, Call(c, b)
    PROVE  StatusInv'
<1>. USE DEF StatusInv, TypeOK
<1>1. TypeOK'
    BY DEF Call
<1>2. CallsWatch'
    BY DEF Call, CallsWatch, Watched, Placed, TransportStages
<1>3. AnswerWasTrue' /\ KnownHolds' /\ FloorHolds'
    BY DEF Call, AnswerWasTrue, WasTrue, KnownHolds, FloorHolds
<1>. QED
    BY <1>1, <1>2, <1>3

\* A call goes on to another statement, with what it has read.
LEMMA GoesOn ==
    ASSUME StatusInv, NEW c \in Clients, pc[c] # "idle",
           NEW l \in {"exists", "record", "solana", "unconfirmed", "commit"},
           NEW f \in Statuses \cup {"nothing"},
           l = "commit" <=> f # "nothing",
           Placed(l, f, stage[burn[c]], seen[c]),
           pc' = [pc EXCEPT ![c] = l], found' = [found EXCEPT ![c] = f],
           faults' \in 0..MaxFaults,
           UNCHANGED <<stage, burn, answer, seen, known, floor>>
    PROVE  StatusInv'
<1>. USE DEF StatusInv, TypeOK
<1>1. TypeOK'
    OBVIOUS
<1>2. CallsWatch'
    BY DEF CallsWatch
<1>3. AnswerWasTrue' /\ KnownHolds' /\ FloorHolds'
    BY DEF AnswerWasTrue, KnownHolds, FloorHolds
<1>. QED
    BY <1>1, <1>2, <1>3

\* A call returns something that was true.
LEMMA Returns ==
    ASSUME StatusInv, NEW c \in Clients, pc[c] # "idle",
           NEW a \in Statuses \cup {"error"}, WasTrue(a, seen[c]), Return(c, a),
           faults' \in 0..MaxFaults,
           UNCHANGED <<stage, burn, seen, floor>>
    PROVE  StatusInv'
<1>. USE DEF StatusInv, TypeOK, Return
<1>1. burn[c] \in Burns /\ Watched(stage[burn[c]], seen[c])
    BY DEF CallsWatch
<1>2. TypeOK'
    BY <1>1 DEF Learn, Knowledge
<1>3. CallsWatch'
    BY DEF CallsWatch
<1>4. AnswerWasTrue'
    BY DEF AnswerWasTrue
<1>5. KnownHolds'
    <2>1. a \in {"InTheQueue", "SolanaTxCreated", "Completed"} =>
              stage[burn[c]] \in TransportStages
        BY <1>1 DEF Watched, WasTrue, TransportStages
    <2>2. a = "Completed" => stage[burn[c]] = "completed"
        BY <1>1 DEF Watched, WasTrue
    <2>. QED
        BY <1>1, <2>1, <2>2 DEF KnownHolds, Learn, Knowledge
<1>6. FloorHolds'
    BY DEF FloorHolds
<1>. QED
    BY <1>2, <1>3, <1>4, <1>5, <1>6

LEMMA ReadExistsStep ==
    ASSUME StatusInv, NEW c \in Clients, ReadExists(c)
    PROVE  StatusInv'
<1>1. /\ burn[c] \in Burns /\ stage[burn[c]] \in seen[c] /\ found[c] = "nothing"
      /\ found' = found => found' = [found EXCEPT ![c] = "nothing"]
      /\ stage[burn[c]] \in Life!Stages
    BY DEF ReadExists, StatusInv, TypeOK, CallsWatch, Watched
<1>2. faults' \in 0..MaxFaults
    BY DEF ReadExists, StatusInv, TypeOK
<1>3. CASE TransportExists(burn[c]) /\ Goto(c, "record")
    <2>1. Placed("record", "nothing", stage[burn[c]], seen[c])
        BY <1>3 DEF Placed, TransportExists, Life!Transports, TransportStages
    <2>. QED
        BY <1>1, <1>2, <1>3, <2>1, GoesOn DEF ReadExists, Goto
<1>4. CASE ~TransportExists(burn[c]) /\ Goto(c, "unconfirmed")
    <2>1. Placed("unconfirmed", "nothing", stage[burn[c]], seen[c])
        BY <1>1, <1>4 DEF Placed, TransportExists, Life!Transports, Life!Stages
    <2>. QED
        BY <1>1, <1>2, <1>4, <2>1, GoesOn DEF ReadExists, Goto
<1>5. CASE Return(c, "error")
    BY <1>2, <1>5, Returns DEF ReadExists, WasTrue
<1>. QED
    BY <1>3, <1>4, <1>5 DEF ReadExists

LEMMA ReadRecordStep ==
    ASSUME StatusInv, NEW c \in Clients, ReadRecord(c)
    PROVE  StatusInv'
<1>1. /\ stage[burn[c]] \in seen[c] /\ found[c] = "nothing"
      /\ found' = found => found' = [found EXCEPT ![c] = "nothing"]
      /\ stage[burn[c]] \in TransportStages
    BY DEF ReadRecord, StatusInv, TypeOK, CallsWatch, Watched, Placed
<1>2. faults' \in 0..MaxFaults
    BY DEF ReadRecord, StatusInv, TypeOK
<1>3. CASE stage[burn[c]] = "queued" /\ Find(c, "InTheQueue")
    <2>1. Placed("commit", "InTheQueue", stage[burn[c]], seen[c])
        BY <1>1, <1>3 DEF Placed, WasTrue
    <2>. QED
        BY <1>2, <1>3, <2>1, GoesOn DEF ReadRecord, Find, Statuses
<1>4. CASE stage[burn[c]] # "queued" /\ Goto(c, "solana")
    <2>1. Placed("solana", "nothing", stage[burn[c]], seen[c])
        BY <1>1, <1>4 DEF Placed
    <2>. QED
        BY <1>1, <1>2, <1>4, <2>1, GoesOn DEF ReadRecord, Goto
<1>. QED
    BY <1>3, <1>4 DEF ReadRecord

LEMMA ReadSolanaStep ==
    ASSUME StatusInv, NEW c \in Clients, ReadSolana(c)
    PROVE  StatusInv'
<1>. DEFINE status == IF IsConfirmed(burn[c]) THEN "Completed" ELSE "SolanaTxCreated"
<1>1. /\ stage[burn[c]] \in seen[c] /\ stage[burn[c]] \in {"sent", "completed"}
    BY DEF ReadSolana, StatusInv, CallsWatch, Watched, Placed, TransportStages
<1>2. faults' \in 0..MaxFaults
    BY DEF ReadSolana, StatusInv, TypeOK
<1>3. Placed("commit", status, stage[burn[c]], seen[c])
    BY <1>1 DEF Placed, WasTrue, IsConfirmed
<1>. QED
    BY <1>2, <1>3, GoesOn DEF ReadSolana, Find, Statuses

LEMMA ReadUnconfirmedStep ==
    ASSUME StatusInv, NEW c \in Clients, ReadUnconfirmed(c)
    PROVE  StatusInv'
<1>1. /\ burn[c] \in Burns /\ stage[burn[c]] \in Life!Stages
      /\ Watched(stage[burn[c]], seen[c])
      /\ seen[c] \cap {"none", "unconfirmed"} # {}
    BY DEF ReadUnconfirmed, StatusInv, TypeOK, CallsWatch, Placed
<1>2. faults' \in 0..MaxFaults
    BY DEF ReadUnconfirmed, StatusInv, TypeOK
<1>3. CASE stage[burn[c]] = "unconfirmed" /\ Find(c, "Unconfirmed")
    <2>1. Placed("commit", "Unconfirmed", stage[burn[c]], seen[c])
        BY <1>1, <1>3 DEF Placed, WasTrue, Watched
    <2>. QED
        BY <1>2, <1>3, <2>1, GoesOn DEF ReadUnconfirmed, Find, Statuses
<1>4. CASE stage[burn[c]] # "unconfirmed" /\ Return(c, "NotFound")
    <2>1. WasTrue("NotFound", seen[c])
        BY <1>1, <1>4 DEF WasTrue, Watched, TransportStages, Life!Stages
    <2>. QED
        BY <1>2, <1>4, <2>1, Returns DEF ReadUnconfirmed, Statuses
<1>. QED
    BY <1>3, <1>4 DEF ReadUnconfirmed

LEMMA CommitStep ==
    ASSUME StatusInv, NEW c \in Clients, Commit(c) \/ CommitFails(c)
    PROVE  StatusInv'
<1>1. /\ pc[c] = "commit" /\ found[c] \in Statuses
      /\ found[c] # "NotFound" /\ WasTrue(found[c], seen[c])
    BY DEF Commit, CommitFails, StatusInv, TypeOK, CallsWatch, Placed
<1>2. faults' \in 0..MaxFaults
    BY StatusAssumption DEF Commit, CommitFails, Fault, StatusInv, TypeOK
<1>3. CASE Commit(c)
    BY <1>1, <1>2, <1>3, Returns DEF Commit, Respond
<1>4. CASE CommitFails(c)
    <2>. DEFINE l == IF found[c] = "Unconfirmed" THEN "unconfirmed" ELSE "exists"
    <2>1. Placed(l, "nothing", stage[burn[c]], seen[c])
        BY <1>1 DEF Placed, WasTrue
    <2>. QED
        BY <1>1, <1>2, <1>4, <2>1, GoesOn DEF CommitFails
<1>. QED
    BY <1>3, <1>4

LEMMA StatusStep == StatusInv /\ [Next]_vars => StatusInv'
<1>. SUFFICES ASSUME StatusInv, [Next]_vars PROVE StatusInv'
    OBVIOUS
<1>1. CASE UNCHANGED vars
    BY <1>1 DEF vars, callVars, StatusInv, TypeOK, CallsWatch, AnswerWasTrue, KnownHolds,
                FloorHolds
<1>2. ASSUME NEW c \in Clients, CallFails(c) PROVE StatusInv'
    <2>1. faults' \in 0..MaxFaults
        BY <1>2, StatusAssumption DEF CallFails, Fault, StatusInv, TypeOK
    <2>. QED
        BY <1>2, <2>1, Returns DEF CallFails, WasTrue
<1>. QED
    BY <1>1, <1>2, TablesStep, RestartStep, CallStep, ReadExistsStep, ReadRecordStep,
       ReadSolanaStep, ReadUnconfirmedStep, CommitStep DEF Next

LEMMA StatusHolds == Spec => []StatusInv
BY StatusInit, StatusStep, PTL DEF Spec

-----------------------------------------------------------------------------
(* The theorems.                                                            *)

\* Every variable keeps its type.
THEOREM StatusTypes == Spec => []TypeOK
<1>1. StatusInv => TypeOK
    BY DEF StatusInv
<1>. QED
    BY <1>1, StatusHolds, PTL

\* TransportStatus answers what was so at a moment of the call, but for a burn that was
\* confirmed under it and is not found.
THEOREM AnswerAlwaysTrue == Spec => []AnswerWasTrue
<1>1. StatusInv => AnswerWasTrue
    BY DEF StatusInv
<1>. QED
    BY <1>1, StatusHolds, PTL

\* What TransportStatus has answered about a transport is not taken back, whichever client
\* asks next and however often the server was restarted.
THEOREM AnswersStand == Spec => []AnswersNeverGoBack
<1>1. StatusInv => AnswersNeverGoBack
    BY DEF StatusInv, AnswerWasTrue, WasTrue, FloorHolds, TransportStages,
           AnswersNeverGoBack, Statuses
<1>. QED
    BY <1>1, StatusHolds, PTL
=============================================================================
