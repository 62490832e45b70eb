-------------------------- MODULE BurnIntakeProofs --------------------------
(***************************************************************************)
(* Proofs about BurnIntake for every number of burns, clients and faults:   *)
(* no burn is both waiting and transported, and, on a blockchain without    *)
(* reorganisations, a transported burn has the confirmations the settings   *)
(* ask for, a burn whose confirmation was noted is not dropped, and a pass  *)
(* drops only burns that were in no block when it began.                    *)
(*                                                                         *)
(* Where the read of a pass may be retried, it may hold a burn twice and    *)
(* judge it twice.  On a chain without reorgs the two judgements never      *)
(* remove and confirm the same burn; with a reorg between them they may.    *)
(***************************************************************************)
EXTENDS BurnIntake, TLAPS

\* The COMMIT of UnconfirmedBefore does not fail.
ReadsCommit == ~ReadsMayRetry

NoReorg == MaxReorg = 0

\* A burn that is judged twice is judged on one chain.
StableWhenRetried == ReadsCommit \/ NoReorg

PastCheck == {"unconfirmed", "completed", "uncompleted", "premined", "write"}

\* The part of TypeOK the arguments below need, and which lists are in use when.
Shape ==
    /\ unconf \subseteq Burns /\ rows \subseteq Burns /\ aged \subseteq unconf
    /\ batch \in [Burns -> Nat] /\ toRemove \in [Burns -> Nat] /\ toConfirm \in [Burns -> Nat]
    /\ setHeight \subseteq Burns
    /\ kind \in [Burns -> Kinds] /\ seenKind \in [Burns -> Kinds]
    /\ cpc \in [Clients -> {"idle", "exists"} \cup PastCheck]
    /\ cburn \in [Clients -> Burns \cup {NoBurn}]
    /\ ckind \in [Clients -> Kinds]
    /\ \A c \in Clients : cpc[c] # "idle" => cburn[c] \in Burns
    /\ lpc \in {"idle", "height", "check", "set", "remove", "confirm"}
    /\ lpc # "check" /\ lpc # "height" => batch = EmptyList
    /\ lpc \in {"idle", "height"} => setHeight = {} /\ toRemove = EmptyList /\ toConfirm = EmptyList

LEMMA EmptyHas == EmptyList \in [Burns -> Nat] /\ InList(EmptyList) = {}
BY DEF EmptyList, InList

LEMMA AddHas ==
    ASSUME NEW list \in [Burns -> Nat], NEW b \in Burns
    PROVE  /\ AddTo(list, b) \in [Burns -> Nat]
           /\ InList(AddTo(list, b)) = InList(list) \cup {b}
           /\ AddTo(list, b)[b] = list[b] + 1
           /\ \A c \in Burns \ {b} : AddTo(list, b)[c] = list[c]
BY DEF AddTo, InList

LEMMA ListedOnce == UnconfirmedBefore => ListUnconfirmed(1) /\ faults' = faults
BY DEF UnconfirmedBefore, NoFault

\* The list of a pass holds the aged rows, n times.
LEMMA ListHas ==
    ASSUME Shape, NEW n \in Nat \ {0}, ListUnconfirmed(n)
    PROVE  /\ lpc = "idle" /\ lpc' = "height"
           /\ batch' \in [Burns -> Nat] /\ InList(batch') = aged
           /\ \A b \in Burns : batch'[b] = 0 \/ batch'[b] = n
           /\ seenKind' \in [Burns -> Kinds]
           /\ \A b \in aged : seenKind'[b] = kind[b]
BY DEF Shape, ListUnconfirmed, At, InList, Kinds

LEMMA RepeatsHave ==
    ASSUME UnconfirmedBeforeRepeats
    PROVE  ReadsMayRetry /\ \E n \in Nat \ {0} : ListUnconfirmed(n)
<1>2. PICK n \in 1..(MaxFaults - faults) : ListUnconfirmed(n + 1)
    BY DEF UnconfirmedBeforeRepeats
<1>3. n + 1 \in Nat \ {0}
    BY <1>2
<1>. QED
    BY <1>2, <1>3 DEF UnconfirmedBeforeRepeats

\* A check takes the burn from the list once and puts it into at most one other.
LEMMA CheckHas ==
    ASSUME Shape, NEW b \in Burns, CheckBurn(b)
    PROVE  /\ lpc = "check" /\ lpc' = "check"
           /\ batch' \in [Burns -> Nat] /\ b \in InList(batch) /\ InList(batch') \subseteq InList(batch)
           /\ batch'[b] = batch[b] - 1 /\ \A c \in Burns \ {b} : batch'[c] = batch[c]
           /\ \/ /\ blockOf[b] = 0 /\ toRemove' = AddTo(toRemove, b)
                 /\ toConfirm' = toConfirm /\ setHeight' = setHeight
              \/ /\ blockOf[b] # 0 /\ seenHeight[b] = 0 /\ setHeight' = setHeight \cup {b}
                 /\ toConfirm' = toConfirm /\ toRemove' = toRemove
              \/ /\ blockOf[b] # 0 /\ seenHeight[b] # 0 /\ curHeight - seenHeight[b] >= Confirmations
                 /\ toConfirm' = AddTo(toConfirm, b)
                 /\ toRemove' = toRemove /\ setHeight' = setHeight
              \/ UNCHANGED <<toRemove, toConfirm, setHeight>>
<1>1. batch' = [batch EXCEPT ![b] = batch[b] - 1] /\ b \in InList(batch)
    BY DEF CheckBurn
<1>2. batch[b] \in Nat /\ batch[b] > 0
    BY <1>1 DEF Shape, InList
<1>3. /\ batch' \in [Burns -> Nat] /\ InList(batch') \subseteq InList(batch)
      /\ batch'[b] = batch[b] - 1 /\ \A c \in Burns \ {b} : batch'[c] = batch[c]
    BY <1>1, <1>2 DEF Shape, InList
<1>. QED
    BY <1>1, <1>3 DEF CheckBurn, IsTxConfirmed, EnoughConfirmations

\* What the check says of the burns of the lists.
LEMMA CheckSays ==
    ASSUME Shape, NEW b \in Burns, CheckBurn(b)
    PROVE  /\ \A c \in setHeight' : c \in setHeight \/ (c = b /\ blockOf[b] # 0)
           /\ \A c \in InList(toRemove') : c \in InList(toRemove) \/ (c = b /\ blockOf[b] = 0)
           /\ \A c \in InList(toConfirm') :
                \/ c \in InList(toConfirm)
                \/ (c = b /\ blockOf[b] # 0 /\ seenHeight[b] # 0 /\ curHeight - seenHeight[b] >= Confirmations)
<1>1. /\ InList(AddTo(toRemove, b)) = InList(toRemove) \cup {b}
      /\ InList(AddTo(toConfirm, b)) = InList(toConfirm) \cup {b}
    BY AddHas DEF Shape
<1>2. CASE /\ blockOf[b] = 0 /\ toRemove' = AddTo(toRemove, b)
           /\ toConfirm' = toConfirm /\ setHeight' = setHeight
    BY <1>1, <1>2 DEF InList
<1>3. CASE /\ blockOf[b] # 0 /\ seenHeight[b] = 0 /\ setHeight' = setHeight \cup {b}
           /\ toConfirm' = toConfirm /\ toRemove' = toRemove
    BY <1>3 DEF InList
<1>4. CASE /\ blockOf[b] # 0 /\ seenHeight[b] # 0 /\ curHeight - seenHeight[b] >= Confirmations
           /\ toConfirm' = AddTo(toConfirm, b)
           /\ toRemove' = toRemove /\ setHeight' = setHeight
    BY <1>1, <1>4 DEF InList
<1>5. CASE UNCHANGED <<toRemove, toConfirm, setHeight>>
    BY <1>5 DEF InList
<1>. QED
    BY <1>2, <1>3, <1>4, <1>5, CheckHas

LEMMA ShapeInit == Init => Shape
BY EmptyHas DEF Init, Shape, PastCheck, Kinds

LEMMA ShapeStep == Shape /\ [Next]_vars => Shape'
<1>. SUFFICES ASSUME Shape, [Next]_vars PROVE Shape'
    OBVIOUS
<1>. USE EmptyHas DEF Shape, PastCheck
<1>1. CASE UNCHANGED vars
    BY <1>1 DEF vars, chainVars, tableVars, clientVars, loopVars
<1>2. CASE FindBlock \/ (\E d \in 1..MaxReorg : Reorg(d)) \/ (\E b \in Burns : Age(b) \/ Complete(b))
    BY <1>2 DEF FindBlock, MineBlock, Reorg, Age, Complete, tableVars, clientVars, loopVars
<1>3. ASSUME NEW c \in Clients, NEW b \in Burns, Submit(c, b) PROVE Shape'
    BY <1>3 DEF Submit, Continue, FindPremined, Kinds, tableVars, loopVars
<1>4. ASSUME NEW c \in Clients,
             CheckBurnIDUnique(c) \/ ReadUnconfirmedAmount(c) \/ ReadCompletedSupply(c)
                \/ CheckQueueAllowance(c) \/ CheckPreminedAllowance(c) \/ SubmitFails(c)
      PROVE  Shape'
    BY <1>4 DEF CheckBurnIDUnique, ReadUnconfirmedAmount, ReadCompletedSupply, CheckQueueAllowance,
                CheckPreminedAllowance, SubmitFails, Return, Continue, Kinds, tableVars, loopVars
<1>5. ASSUME NEW c \in Clients,
             AddUnconfirmedScpTx(c) \/ AddUnconfirmedRefused(c) \/ AddUnconfirmedRepeats(c)
      PROVE  Shape'
    BY <1>5 DEF AddUnconfirmedScpTx, AddUnconfirmedRefused, AddUnconfirmedRepeats, AddUnconfirmed,
                Return, Continue, Kinds, tableVars, loopVars
<1>6. ASSUME NEW n \in Nat \ {0}, ListUnconfirmed(n) PROVE Shape'
    BY <1>6, ListHas DEF ListUnconfirmed, tableVars, clientVars
<1>7. CASE CurrentHeight \/ UpdateHeight
    BY <1>7 DEF CurrentHeight, UpdateHeight, At, tableVars, clientVars
<1>8. ASSUME NEW b \in Burns, CheckBurn(b) PROVE Shape'
  <2>1. UNCHANGED <<tableVars, clientVars, seenKind>>
      BY <1>8 DEF CheckBurn
  <2>2. AddTo(toRemove, b) \in [Burns -> Nat] /\ AddTo(toConfirm, b) \in [Burns -> Nat]
      BY AddHas
  <2>3. /\ batch' \in [Burns -> Nat] /\ toRemove' \in [Burns -> Nat] /\ toConfirm' \in [Burns -> Nat]
        /\ setHeight' \subseteq Burns /\ lpc' = "check"
      BY <1>8, <2>2, CheckHas
  <2>. QED
      BY <2>1, <2>3 DEF tableVars, clientVars
<1>9. CASE SetConfirmationHeight
    BY <1>9 DEF SetConfirmationHeight, At, clientVars
<1>10. CASE RemoveUnconfirmed \/ RemoveUnconfirmedRepeats
    BY <1>10 DEF RemoveUnconfirmed, RemoveUnconfirmedRepeats, RemoveAll, DeleteUnconfirmed, At,
                 clientVars, loopVars
<1>11. ASSUME InsertAll PROVE /\ unconf' \subseteq Burns /\ rows' \subseteq Burns /\ aged' \subseteq unconf'
                              /\ kind' \in [Burns -> Kinds]
    BY <1>11 DEF InsertAll, MoveRows, DeleteUnconfirmed, InList
<1>12. ASSUME LoopReturns, UNCHANGED clientVars,
              /\ unconf' \subseteq Burns /\ rows' \subseteq Burns /\ aged' \subseteq unconf'
              /\ kind' \in [Burns -> Kinds]
       PROVE  Shape'
    BY <1>12 DEF LoopReturns, Kinds, clientVars
<1>13. CASE ConfirmUnconfirmed \/ ConfirmRefused
    BY <1>11, <1>12, <1>13 DEF ConfirmUnconfirmed, ConfirmRefused, tableVars
<1>14. CASE ProcessFails
    BY <1>11, <1>12, <1>14 DEF ProcessFails, tableVars
<1>15. CASE Crash
    BY <1>15 DEF Crash, LoopReturns, Kinds, tableVars
<1>. QED
    BY <1>1, <1>2, <1>3, <1>4, <1>5, <1>6, <1>7, <1>8, <1>9, <1>10, <1>13, <1>14, <1>15,
       ListedOnce, RepeatsHave DEF Next, SubmitStep, LoopStep

LEMMA ShapeHolds == Spec => []Shape
BY ShapeInit, ShapeStep, PTL DEF Spec

\* Actions that leave the loop and its lists alone.
Aside ==
    \/ UNCHANGED vars
    \/ FindBlock
    \/ \E d \in 1..MaxReorg : Reorg(d)
    \/ \E b \in Burns : Age(b) \/ Complete(b)
    \/ \E c \in Clients, b \in Burns : Submit(c, b)
    \/ \E c \in Clients : SubmitStep(c) \/ AddUnconfirmedRepeats(c) \/ SubmitFails(c)

LEMMA AsideLeaves == Aside => UNCHANGED loopVars
<1>1. ASSUME NEW c \in Clients, SubmitStep(c) \/ AddUnconfirmedRepeats(c) \/ SubmitFails(c)
      PROVE  UNCHANGED loopVars
    BY <1>1 DEF SubmitStep, CheckBurnIDUnique, ReadUnconfirmedAmount, ReadCompletedSupply,
                CheckQueueAllowance, CheckPreminedAllowance, AddUnconfirmedScpTx,
                AddUnconfirmedRefused, AddUnconfirmedRepeats, SubmitFails
<1>2. CASE \/ UNCHANGED vars \/ FindBlock \/ (\E d \in 1..MaxReorg : Reorg(d))
           \/ (\E b \in Burns : Age(b) \/ Complete(b))
           \/ (\E c \in Clients, b \in Burns : Submit(c, b))
    BY <1>2 DEF vars, FindBlock, MineBlock, Reorg, Age, Complete, Submit
<1>. QED
    BY <1>1, <1>2 DEF Aside

-----------------------------------------------------------------------------
(* If the read of a pass is not retried, each burn is in one place of the    *)
(* lists, once.                                                             *)

Single ==
    \A b \in Burns : /\ batch[b] + toRemove[b] + toConfirm[b] <= 1
                     /\ b \in setHeight => batch[b] + toRemove[b] + toConfirm[b] = 0

LEMMA SingleStep == ReadsCommit /\ Shape /\ Single /\ [Next]_vars => Single'
<1>. SUFFICES ASSUME ReadsCommit, Shape, Single, [Next]_vars PROVE Single'
    OBVIOUS
<1>. USE DEF Single
<1>1. CASE UNCHANGED <<batch, setHeight, toRemove, toConfirm>>
    BY <1>1
<1>2. CASE UnconfirmedBefore
  <2>1. /\ lpc = "idle" /\ UNCHANGED <<setHeight, toRemove, toConfirm>>
        /\ \A b \in Burns : batch'[b] = 0 \/ batch'[b] = 1
      BY <1>2, ListedOnce, ListHas DEF ListUnconfirmed
  <2>. QED
      BY <2>1 DEF Shape, EmptyList
<1>3. ASSUME NEW b \in Burns, CheckBurn(b) PROVE Single'
  <2>1. /\ batch \in [Burns -> Nat] /\ toRemove \in [Burns -> Nat] /\ toConfirm \in [Burns -> Nat]
        /\ batch[b] > 0
      BY <1>3, CheckHas DEF Shape, InList
  <2>2. batch[b] = 1 /\ toRemove[b] = 0 /\ toConfirm[b] = 0 /\ b \notin setHeight
      BY <2>1
  <2>a. batch'[b] = 0 /\ \A c \in Burns \ {b} : batch'[c] = batch[c]
      BY <1>3, <2>2, CheckHas
  <2>b. /\ AddTo(toRemove, b)[b] = 1 /\ AddTo(toConfirm, b)[b] = 1
        /\ \A c \in Burns \ {b} : /\ AddTo(toRemove, b)[c] = toRemove[c]
                                  /\ AddTo(toConfirm, b)[c] = toConfirm[c]
      BY <2>1, <2>2, AddHas
  <2>c. \/ toRemove' = AddTo(toRemove, b) /\ UNCHANGED <<toConfirm, setHeight>>
        \/ setHeight' = setHeight \cup {b} /\ UNCHANGED <<toRemove, toConfirm>>
        \/ toConfirm' = AddTo(toConfirm, b) /\ UNCHANGED <<toRemove, setHeight>>
        \/ UNCHANGED <<toRemove, toConfirm, setHeight>>
      BY <1>3, CheckHas
  <2>3. /\ \A c \in Burns \ {b} : /\ batch'[c] = batch[c] /\ toRemove'[c] = toRemove[c]
                                  /\ toConfirm'[c] = toConfirm[c]
                                  /\ c \in setHeight' <=> c \in setHeight
        /\ batch'[b] = 0
        /\ \/ toRemove'[b] = 1 /\ toConfirm'[b] = 0 /\ b \notin setHeight'
           \/ toRemove'[b] = 0 /\ toConfirm'[b] = 0
           \/ toRemove'[b] = 0 /\ toConfirm'[b] = 1 /\ b \notin setHeight'
      BY <2>a, <2>b, <2>c, <2>2
  <2>. QED
      BY <2>3
<1>4. CASE LoopReturns
    BY <1>4 DEF LoopReturns, EmptyList
<1>5. CASE \/ CurrentHeight \/ UpdateHeight \/ SetConfirmationHeight
           \/ RemoveUnconfirmed \/ RemoveUnconfirmedRepeats
    BY <1>1, <1>5 DEF CurrentHeight, UpdateHeight, SetConfirmationHeight, RemoveUnconfirmed,
                      RemoveUnconfirmedRepeats, loopVars
<1>6. CASE Aside
    BY <1>1, <1>6, AsideLeaves DEF loopVars
<1>7. CASE ConfirmUnconfirmed \/ ConfirmRefused \/ ProcessFails \/ Crash
    BY <1>4, <1>7 DEF ConfirmUnconfirmed, ConfirmRefused, ProcessFails, Crash
<1>. QED
    BY <1>2, <1>3, <1>5, <1>6, <1>7, RepeatsHave DEF Next, LoopStep, Aside, ReadsCommit

LEMMA SingleHolds == ReadsCommit /\ Spec => []Single
<1>1. ASSUME ReadsCommit PROVE Spec => []Single
  <2>1. Init => Single
      BY DEF Init, Single, EmptyList
  <2>2. Shape /\ Single /\ [Next]_vars => Single'
      BY <1>1, SingleStep
  <2>. QED
      BY <2>1, <2>2, ShapeHolds, PTL DEF Spec
<1>. QED
    BY <1>1

-----------------------------------------------------------------------------
(* Confirmations, without reorgs.                                           *)

\* A height noted for b is not below the block of b.
NotedHeight(b, h) == h # 0 => blockOf[b] # 0 /\ blockOf[b] <= h

Chain ==
    /\ height \in Nat
    /\ blockOf \in [Burns -> Nat]
    /\ \A b \in Burns : blockOf[b] <= height

\* The heights of the table and of the pass are heights the chain has reached.
Noted ==
    /\ confHeight \in [Burns -> 0..height]
    /\ \A b \in Burns : NotedHeight(b, confHeight[b])
    /\ seenHeight \in [Burns -> 0..height]
    /\ \A b \in Burns : NotedHeight(b, seenHeight[b])
    /\ curHeight \in 0..height

\* What the lists of the pass say of their burns: confirmed by now; not noted as confirmed
\* when the pass began; noted, and confirmed long enough.
Judged ==
    /\ \A b \in setHeight : blockOf[b] # 0 /\ (lpc = "set" => blockOf[b] <= curHeight)
    /\ \A b \in InList(toRemove) : seenHeight[b] = 0
    /\ \A b \in InList(toConfirm) :
          seenHeight[b] # 0 /\ blockOf[b] # 0 /\ height - blockOf[b] >= Confirmations

ChainInv == Chain /\ Noted /\ Judged /\ ConfirmedEnough

LEMMA ChainInit == Init => ChainInv
BY EmptyHas DEF Init, ChainInv, Chain, Noted, NotedHeight, Judged, ConfirmedEnough

LEMMA ChainStep == NoReorg /\ Shape /\ ChainInv /\ [Next]_vars => ChainInv'
<1>. SUFFICES ASSUME NoReorg, Shape, ChainInv, [Next]_vars PROVE ChainInv'
    OBVIOUS
<1>. USE IntakeAssumption, EmptyHas
         DEF ChainInv, Chain, Noted, NotedHeight, Judged, ConfirmedEnough
<1>s. InList(toRemove) \subseteq Burns /\ InList(toConfirm) \subseteq Burns /\ setHeight \subseteq Burns
      /\ rows \subseteq Burns
    BY DEF Shape, InList
<1>1. CASE UNCHANGED vars
    BY <1>1 DEF vars, chainVars, tableVars, clientVars, loopVars
<1>2. CASE FindBlock
  <2>1. PICK S \in SUBSET {b \in Burns : blockOf[b] = 0} : MineBlock(S)
      BY <1>2 DEF FindBlock
  <2>. USE <2>1 DEF MineBlock, tableVars, loopVars
  <2>2. Chain'
      OBVIOUS
  <2>3. \A b \in Burns : blockOf[b] # 0 => blockOf'[b] = blockOf[b]
      OBVIOUS
  <2>4. Noted'
      BY <2>3
  <2>5. Judged'
      BY <1>s, <2>3
  <2>6. ConfirmedEnough'
      BY <1>s, <2>3
  <2>. QED
      BY <2>2, <2>4, <2>5, <2>6
<1>3. CASE \E d \in 1..MaxReorg : Reorg(d)
    BY <1>3 DEF NoReorg
<1>4. ASSUME NEW b \in Burns, Age(b) PROVE ChainInv'
    BY <1>4 DEF Age, chainVars, loopVars
<1>5. ASSUME NEW b \in Burns, Complete(b) PROVE ChainInv'
    BY <1>5 DEF Complete, chainVars, tableVars, loopVars
<1>6. ASSUME NEW c \in Clients, NEW b \in Burns, Submit(c, b) PROVE ChainInv'
    BY <1>6 DEF Submit, chainVars, tableVars, loopVars
<1>7. ASSUME NEW c \in Clients, SubmitStep(c) \/ AddUnconfirmedRepeats(c) \/ SubmitFails(c)
      PROVE  ChainInv'
    BY <1>7 DEF SubmitStep, CheckBurnIDUnique, ReadUnconfirmedAmount, ReadCompletedSupply,
                CheckQueueAllowance, CheckPreminedAllowance, AddUnconfirmedScpTx,
                AddUnconfirmedRefused, AddUnconfirmedRepeats, AddUnconfirmed, SubmitFails,
                chainVars, tableVars, loopVars
<1>8. ASSUME NEW n \in Nat \ {0}, ListUnconfirmed(n) PROVE ChainInv'
    BY <1>8 DEF ListUnconfirmed, At, Shape, chainVars, tableVars
<1>a. CASE CurrentHeight
    BY <1>a DEF CurrentHeight, At, Shape, chainVars, tableVars
<1>9. ASSUME NEW b \in Burns, CheckBurn(b) PROVE ChainInv'
  <2>1. UNCHANGED <<chainVars, tableVars, seenHeight, curHeight>> /\ lpc' = "check"
      BY <1>9, CheckHas DEF CheckBurn
  <2>2. Chain' /\ Noted' /\ ConfirmedEnough'
      BY <2>1 DEF chainVars, tableVars
  <2>3. \A c \in setHeight' : c \in setHeight \/ (c = b /\ blockOf[b] # 0)
      BY <1>9, CheckSays
  <2>4. \A c \in InList(toRemove') : c \in InList(toRemove) \/ (c = b /\ blockOf[b] = 0)
      BY <1>9, CheckSays
  <2>5. \A c \in InList(toConfirm') :
          \/ c \in InList(toConfirm)
          \/ (c = b /\ blockOf[b] # 0 /\ seenHeight[b] # 0 /\ curHeight - seenHeight[b] >= Confirmations)
      BY <1>9, CheckSays
  <2>6. Judged'
      BY <2>1, <2>3, <2>4, <2>5 DEF chainVars
  <2>. QED
      BY <2>2, <2>6
<1>10. CASE UpdateHeight
    BY <1>10, <1>s DEF UpdateHeight, At, chainVars, tableVars
<1>11. CASE SetConfirmationHeight
  <2>. USE <1>11 DEF SetConfirmationHeight, SetHeights, At, chainVars
  <2>1. \A b \in setHeight : blockOf[b] # 0 /\ blockOf[b] <= curHeight
      OBVIOUS
  <2>2. confHeight' \in [Burns -> 0..height]
      OBVIOUS
  <2>3. Chain' /\ Noted' /\ ConfirmedEnough'
      BY <2>1, <2>2
  <2>4. Judged'
      OBVIOUS
  <2>. QED
      BY <2>3, <2>4
<1>12. CASE RemoveUnconfirmed \/ RemoveUnconfirmedRepeats
    BY <1>12 DEF RemoveUnconfirmed, RemoveUnconfirmedRepeats, RemoveAll, DeleteUnconfirmed, At,
                 chainVars, loopVars
<1>13. ASSUME InsertAll, LoopReturns, UNCHANGED chainVars PROVE ChainInv'
    BY <1>13, <1>s DEF InsertAll, MoveRows, DeleteUnconfirmed, LoopReturns, chainVars
<1>b. ASSUME LoopReturns, UNCHANGED <<chainVars, rows>>, confHeight' = confHeight PROVE ChainInv'
    BY <1>b DEF LoopReturns, chainVars
<1>14. CASE ConfirmUnconfirmed \/ ConfirmRefused \/ Crash
    BY <1>13, <1>b, <1>14 DEF ConfirmUnconfirmed, ConfirmRefused, Crash, tableVars
<1>15. CASE ProcessFails
  <2>1. CASE lpc = "set" /\ SetHeights /\ UNCHANGED <<unconf, kind, aged, transported, rows, after>>
    <3>1. confHeight' \in [Burns -> 0..height] /\ \A b \in Burns : NotedHeight(b, confHeight'[b])
        BY <2>1 DEF SetHeights
    <3>. QED
        BY <1>15, <2>1, <3>1 DEF ProcessFails, LoopReturns, chainVars
  <2>. QED
      BY <1>13, <1>b, <1>15, <2>1 DEF ProcessFails, tableVars
<1>. QED
    BY <1>1, <1>2, <1>3, <1>4, <1>5, <1>6, <1>7, <1>8, <1>a, <1>9, <1>10, <1>11, <1>12, <1>14,
       <1>15, ListedOnce, RepeatsHave DEF Next, LoopStep

LEMMA ChainHolds == NoReorg /\ Spec => []ChainInv
<1>1. ASSUME NoReorg PROVE Spec => []ChainInv
  <2>1. Shape /\ ChainInv /\ [Next]_vars => ChainInv'
      BY <1>1, ChainStep
  <2>. QED
      BY <2>1, ChainInit, ShapeHolds, PTL DEF Spec
<1>. QED
    BY <1>1

\* On a chain without reorgs a burn that is transported has a block, and at least
\* Confirmations blocks are above it now: reading the height twice in a pass is enough.
THEOREM BuriedDeepEnough == NoReorg /\ Spec => []ConfirmedEnough
<1>1. ChainInv => ConfirmedEnough
    BY DEF ChainInv
<1>. QED
    BY <1>1, ChainHolds, PTL

\* No burn of the list of removals has a height that an earlier pass noted.
KeptInv == \A b \in InList(toRemove) : confHeight[b] # 0 => ReadsMayRetry /\ b \in setHeight

LEMMA KeptStep ==
    ASSUME NoReorg, Shape, ChainInv, ReadsCommit => Single, KeptInv, [Next]_vars
    PROVE  KeptInv'
<1>. USE EmptyHas DEF KeptInv
<1>0. InList(toRemove) \subseteq Burns /\ confHeight \in [Burns -> 0..height]
    BY DEF InList, ChainInv, Noted
<1>1. ASSUME UNCHANGED <<toRemove, setHeight>>,
             confHeight' = confHeight
                \/ \E S : confHeight' = [b \in Burns |-> IF b \in S THEN 0 ELSE confHeight[b]]
      PROVE  KeptInv'
    BY <1>0, <1>1
<1>2. ASSUME toRemove' = EmptyList PROVE KeptInv'
    BY <1>2
<1>3. ASSUME NEW b \in Burns, CheckBurn(b) PROVE KeptInv'
  <2>1. confHeight' = confHeight /\ setHeight \subseteq setHeight'
      BY <1>3, CheckHas DEF CheckBurn, tableVars
  <2>2. \A c \in InList(toRemove') : c \in InList(toRemove) \/ (c = b /\ blockOf[b] = 0)
      BY <1>3, CheckSays
  <2>3. blockOf[b] = 0 => confHeight[b] = 0
      BY DEF ChainInv, Noted, NotedHeight
  <2>. QED
      BY <2>1, <2>2, <2>3
<1>4. CASE SetConfirmationHeight
  <2>1. /\ UNCHANGED <<toRemove, setHeight>>
        /\ confHeight' = [b \in Burns |-> IF b \in setHeight THEN curHeight ELSE confHeight[b]]
      BY <1>4 DEF SetConfirmationHeight, SetHeights
  <2>2. ASSUME NEW b \in InList(toRemove), b \in setHeight PROVE ReadsMayRetry
      BY <1>0, <2>2 DEF InList, Single, ReadsCommit, Shape
  <2>. QED
      BY <1>0, <2>1, <2>2
<1>5. CASE RemoveUnconfirmed \/ RemoveUnconfirmedRepeats
    BY <1>1, <1>5 DEF RemoveUnconfirmed, RemoveUnconfirmedRepeats, RemoveAll, DeleteUnconfirmed,
                      loopVars
<1>6. CASE ConfirmUnconfirmed \/ ConfirmRefused \/ ProcessFails \/ Crash
    BY <1>2, <1>6 DEF ConfirmUnconfirmed, ConfirmRefused, ProcessFails, Crash, LoopReturns
<1>7. ASSUME NEW n \in Nat \ {0}, ListUnconfirmed(n) PROVE KeptInv'
    BY <1>1, <1>7 DEF ListUnconfirmed, tableVars
<1>8. CASE CurrentHeight \/ UpdateHeight
    BY <1>1, <1>8 DEF CurrentHeight, UpdateHeight, tableVars
<1>9. CASE Aside
  <2>1. confHeight' = confHeight
      BY <1>9 DEF Aside, vars, FindBlock, MineBlock, Reorg, Age, Complete, Submit, SubmitStep,
                CheckBurnIDUnique, ReadUnconfirmedAmount, ReadCompletedSupply,
                CheckQueueAllowance, CheckPreminedAllowance, AddUnconfirmedScpTx,
                AddUnconfirmedRefused, AddUnconfirmedRepeats, AddUnconfirmed, SubmitFails, tableVars
  <2>. QED
      BY <1>1, <1>9, <2>1, AsideLeaves DEF loopVars
<1>. QED
    BY <1>3, <1>4, <1>5, <1>6, <1>7, <1>8, <1>9, ListedOnce, RepeatsHave DEF Next, LoopStep, Aside

\* On a chain without reorgs no pass, retry or crash drops a burn whose confirmation an
\* earlier pass has noted, except into its transport table.
THEOREM NotedStays == NoReorg /\ Spec => NotedIsKept
<1>1. ASSUME Shape, KeptInv, [Next]_vars,
             NEW b \in unconf, confHeight[b] # 0, ReadsMayRetry => b \notin setHeight, b \notin unconf'
      PROVE  b \in rows'
  <2>1. b \notin InList(toRemove)
      BY <1>1 DEF KeptInv
  <2>2. CASE Aside
      BY <2>2, <1>1 DEF Aside, vars, FindBlock, MineBlock, Reorg, Age, Complete, Submit, SubmitStep,
                CheckBurnIDUnique, ReadUnconfirmedAmount, ReadCompletedSupply,
                CheckQueueAllowance, CheckPreminedAllowance, AddUnconfirmedScpTx,
                AddUnconfirmedRefused, AddUnconfirmedRepeats, AddUnconfirmed, SubmitFails, tableVars
  <2>3. CASE \/ UnconfirmedBefore \/ UnconfirmedBeforeRepeats \/ CurrentHeight
             \/ (\E c \in Burns : CheckBurn(c)) \/ UpdateHeight \/ SetConfirmationHeight
             \/ ConfirmRefused \/ Crash
      BY <2>3, <1>1 DEF UnconfirmedBefore, UnconfirmedBeforeRepeats, ListUnconfirmed, CurrentHeight,
                CheckBurn, UpdateHeight, SetConfirmationHeight, ConfirmRefused, Crash, tableVars
  <2>4. CASE RemoveUnconfirmed \/ RemoveUnconfirmedRepeats
      BY <2>1, <2>4, <1>1 DEF RemoveUnconfirmed, RemoveUnconfirmedRepeats, RemoveAll,
                DeleteUnconfirmed
  <2>5. CASE ConfirmUnconfirmed \/ ProcessFails
      BY <2>5, <1>1 DEF ConfirmUnconfirmed, ProcessFails, InsertAll, MoveRows, DeleteUnconfirmed,
                tableVars
  <2>. QED
      BY <2>2, <2>3, <2>4, <2>5, <1>1 DEF Next, LoopStep, Aside
<1>2. Shape /\ KeptInv /\ [Next]_vars
         => [\A b \in unconf : confHeight[b] # 0 /\ (ReadsMayRetry => b \notin setHeight)
                                   => b \in unconf' \cup rows']_vars
    BY <1>1
<1>3. ASSUME NoReorg PROVE Spec => []KeptInv
  <2>1. Init => KeptInv
      BY EmptyHas DEF Init, KeptInv
  <2>2. Shape /\ ChainInv /\ (ReadsCommit => Single) /\ KeptInv /\ [Next]_vars => KeptInv'
      BY <1>3, KeptStep
  <2>3. CASE ReadsCommit
      BY <1>3, <2>1, <2>2, <2>3, SingleHolds, ShapeHolds, ChainHolds, PTL DEF Spec
  <2>4. CASE ~ReadsCommit
    <3>1. Shape /\ ChainInv /\ KeptInv /\ [Next]_vars => KeptInv'
        BY <2>2, <2>4
    <3>. QED
        BY <1>3, <2>1, <3>1, ShapeHolds, ChainHolds, PTL DEF Spec
  <2>. QED
      BY <2>3, <2>4
<1>4. ASSUME NoReorg PROVE Spec => NotedIsKept
  <2>1. Spec => []KeptInv
      BY <1>3, <1>4
  <2>. QED
      BY <1>2, <2>1, ShapeHolds, PTL DEF NotedIsKept, Spec
<1>. QED
    BY <1>4

LEMMA LateStep == NoReorg /\ Shape /\ ChainInv /\ DroppedIsLate /\ [Next]_vars => DroppedIsLate'
<1>. SUFFICES ASSUME NoReorg, Shape, ChainInv, DroppedIsLate, [Next]_vars PROVE DroppedIsLate'
    OBVIOUS
<1>. USE EmptyHas DEF DroppedIsLate
<1>1. CASE FindBlock
  <2>1. PICK S \in SUBSET {b \in Burns : blockOf[b] = 0} : MineBlock(S)
      BY <1>1 DEF FindBlock
  <2>2. InList(toRemove) \subseteq Burns /\ height \in Nat /\ curHeight \in 0..height
      BY DEF InList, ChainInv, Chain, Noted
  <2>3. height + 1 > curHeight
      BY <2>2
  <2>. QED
      BY <2>1, <2>2, <2>3 DEF MineBlock, loopVars
<1>2. CASE \E d \in 1..MaxReorg : Reorg(d)
    BY <1>2 DEF NoReorg
<1>3. ASSUME NEW b \in Burns, CheckBurn(b) PROVE DroppedIsLate'
  <2>1. \A c \in InList(toRemove') : c \in InList(toRemove) \/ (c = b /\ blockOf[b] = 0)
      BY <1>3, CheckSays
  <2>2. lpc = "check" /\ UNCHANGED <<blockOf, curHeight>>
      BY <1>3, CheckHas DEF CheckBurn, chainVars
  <2>. QED
      BY <2>1, <2>2
<1>4. CASE CurrentHeight
    BY <1>4 DEF CurrentHeight, At, Shape
<1>5. CASE \/ UnconfirmedBefore \/ UnconfirmedBeforeRepeats \/ UpdateHeight \/ SetConfirmationHeight
           \/ RemoveUnconfirmed \/ ConfirmUnconfirmed \/ ConfirmRefused \/ RemoveUnconfirmedRepeats
           \/ ProcessFails \/ Crash
    BY <1>5 DEF UnconfirmedBefore, UnconfirmedBeforeRepeats, ListUnconfirmed, UpdateHeight,
                SetConfirmationHeight, RemoveUnconfirmed, ConfirmUnconfirmed, ConfirmRefused,
                RemoveUnconfirmedRepeats, ProcessFails, Crash, LoopReturns, At, loopVars
<1>6. ASSUME UNCHANGED <<blockOf, lpc, toRemove, curHeight>> PROVE DroppedIsLate'
    BY <1>6
<1>7. CASE \/ UNCHANGED vars
           \/ \E b \in Burns : Age(b) \/ Complete(b)
           \/ \E c \in Clients, b \in Burns : Submit(c, b)
           \/ \E c \in Clients : SubmitStep(c) \/ AddUnconfirmedRepeats(c) \/ SubmitFails(c)
    BY <1>6, <1>7 DEF vars, Age, Complete, Submit, SubmitStep, CheckBurnIDUnique,
                ReadUnconfirmedAmount, ReadCompletedSupply, CheckQueueAllowance,
                CheckPreminedAllowance, AddUnconfirmedScpTx, AddUnconfirmedRefused,
                AddUnconfirmedRepeats, SubmitFails, chainVars, loopVars
<1>. QED
    BY <1>1, <1>2, <1>3, <1>4, <1>5, <1>7 DEF Next, LoopStep

\* On a chain without reorgs a pass gives up only on burns that were in no block when it
\* read the height, though blocks are found between its checks.
THEOREM DroppedAreLate == NoReorg /\ Spec => []DroppedIsLate
<1>1. ASSUME NoReorg PROVE Spec => []DroppedIsLate
  <2>1. Init => DroppedIsLate
      BY DEF Init, DroppedIsLate
  <2>2. Shape /\ ChainInv /\ DroppedIsLate /\ [Next]_vars => DroppedIsLate'
      BY <1>1, LateStep
  <2>3. Spec => []ChainInv
      BY <1>1, ChainHolds, PTL
  <2>. QED
      BY <2>1, <2>2, <2>3, ShapeHolds, PTL DEF Spec
<1>. QED
    BY <1>1
-----------------------------------------------------------------------------
(* A burn is submitted once.                                                *)

\* No burn is both to be removed and to be confirmed.
Apart == InList(toRemove) \cap InList(toConfirm) = {}

LEMMA ApartHolds == StableWhenRetried /\ Spec => []Apart
<1>1. CASE ReadsCommit
  <2>1. Shape /\ Single => Apart
      BY DEF Shape, Single, Apart, InList
  <2>. QED
      BY <1>1, <2>1, ShapeHolds, SingleHolds, PTL
<1>2. CASE NoReorg
  <2>1. ChainInv => Apart
      BY DEF ChainInv, Judged, Apart
  <2>. QED
      BY <1>2, <2>1, ChainHolds, PTL
<1>. QED
    BY <1>1, <1>2 DEF StableWhenRetried

\* A pass holds aged rows, which nobody but the loop deletes, and what it knows of them is
\* true until it has moved them.
Lists ==
    /\ InList(batch) \cup InList(toConfirm) \subseteq aged
    /\ \A b \in InList(batch) \cup InList(toConfirm) : seenKind[b] = kind[b]

\* A call that has seen its burn nowhere holds a burn that is in no transport table
\* and will not get there: it is not aged.
Unseen == \A c \in Clients : cpc[c] \in PastCheck => cburn[c] \notin rows \cup aged

OnceInv == Shape /\ Lists /\ Unseen /\ Apart /\ BurnOnce

LEMMA OnceInit == Init => Lists /\ Unseen /\ BurnOnce
BY EmptyHas DEF Init, Lists, Unseen, BurnOnce, PastCheck

\* A list that is right keeps the kinds of its burns.
LEMMA KeepsKind ==
    ASSUME Shape, Lists, InsertAll
    PROVE  /\ kind' = kind
           /\ \A b \in InList(toConfirm) : seenKind[b] = kind[b]
           /\ InList(toConfirm) \subseteq aged /\ InList(toConfirm) \subseteq Burns
BY DEF Shape, Lists, InsertAll, MoveRows, InList

LEMMA OnceStep == OnceInv /\ [Next]_vars => Lists' /\ Unseen' /\ BurnOnce'
<1>. SUFFICES ASSUME OnceInv, [Next]_vars PROVE Lists' /\ Unseen' /\ BurnOnce'
    OBVIOUS
<1>. USE DEF OnceInv, Lists, Unseen, BurnOnce, PastCheck
<1>1. CASE UNCHANGED vars
    BY <1>1 DEF vars, chainVars, tableVars, clientVars, loopVars
<1>2. CASE FindBlock \/ (\E d \in 1..MaxReorg : Reorg(d))
    BY <1>2 DEF FindBlock, MineBlock, Reorg, tableVars, clientVars, loopVars
<1>4. ASSUME NEW b \in Burns, Age(b) PROVE Lists' /\ Unseen' /\ BurnOnce'
    BY <1>4 DEF Shape, Age, clientVars, loopVars
<1>5. ASSUME NEW b \in Burns, Complete(b) PROVE Lists' /\ Unseen' /\ BurnOnce'
    BY <1>5 DEF Complete, tableVars, clientVars, loopVars
<1>6. ASSUME NEW c \in Clients, NEW b \in Burns, Submit(c, b) PROVE Lists' /\ Unseen' /\ BurnOnce'
    BY <1>6 DEF Shape, Submit, Continue, tableVars, loopVars
<1>7. ASSUME NEW c \in Clients, CheckBurnIDUnique(c) PROVE Lists' /\ Unseen' /\ BurnOnce'
    BY <1>7 DEF Shape, CheckBurnIDUnique, BurnIDExists, Return, Continue, tableVars, loopVars
<1>8. ASSUME NEW c \in Clients,
             ReadUnconfirmedAmount(c) \/ ReadCompletedSupply(c) \/ CheckQueueAllowance(c)
                \/ CheckPreminedAllowance(c) \/ AddUnconfirmedRefused(c) \/ SubmitFails(c)
      PROVE  Lists' /\ Unseen' /\ BurnOnce'
    BY <1>8 DEF Shape, ReadUnconfirmedAmount, ReadCompletedSupply, CheckQueueAllowance,
                CheckPreminedAllowance, AddUnconfirmedRefused, SubmitFails, Return, Continue,
                tableVars, loopVars
<1>9. ASSUME NEW c \in Clients, AddUnconfirmedScpTx(c) \/ AddUnconfirmedRepeats(c)
      PROVE  Lists' /\ Unseen' /\ BurnOnce'
  <2>1. UNCHANGED <<batch, toConfirm, seenKind, aged, rows>> /\ cburn[c] \notin rows \cup aged
      BY <1>9 DEF AddUnconfirmedScpTx, AddUnconfirmedRepeats, AddUnconfirmed, tableVars, loopVars
  <2>2. \A b \in Burns : b # cburn[c] => kind'[b] = kind[b]
      BY <1>9 DEF Shape, AddUnconfirmedScpTx, AddUnconfirmedRepeats, AddUnconfirmed, tableVars
  <2>3. Lists'
      BY <2>1, <2>2 DEF Shape
  <2>4. Unseen'
      BY <1>9, <2>1 DEF Shape, AddUnconfirmedScpTx, AddUnconfirmedRepeats, Return, Continue
  <2>5. unconf' \subseteq unconf \cup {cburn[c]}
      BY <1>9 DEF AddUnconfirmedScpTx, AddUnconfirmedRepeats, AddUnconfirmed, tableVars
  <2>. QED
      BY <2>1, <2>3, <2>4, <2>5
<1>10. ASSUME NEW n \in Nat \ {0}, ListUnconfirmed(n) PROVE Lists' /\ Unseen' /\ BurnOnce'
  <2>1. toConfirm = EmptyList
      BY <1>10, ListHas DEF Shape
  <2>. QED
      BY <1>10, <2>1, ListHas, EmptyHas DEF ListUnconfirmed, tableVars, clientVars
<1>11. CASE CurrentHeight \/ UpdateHeight
    BY <1>11 DEF CurrentHeight, UpdateHeight, tableVars, clientVars
<1>12. ASSUME NEW b \in Burns, CheckBurn(b) PROVE Lists' /\ Unseen' /\ BurnOnce'
  <2>1. UNCHANGED <<tableVars, clientVars, seenKind>>
      BY <1>12 DEF CheckBurn
  <2>2. b \in InList(batch) /\ InList(batch') \subseteq InList(batch)
      BY <1>12, CheckHas
  <2>3. InList(toConfirm') \subseteq InList(toConfirm) \cup {b}
      BY <1>12, CheckSays
  <2>. QED
      BY <2>1, <2>2, <2>3 DEF tableVars, clientVars
<1>13. CASE SetConfirmationHeight
    BY <1>13 DEF SetConfirmationHeight, clientVars
<1>14. CASE RemoveUnconfirmed \/ RemoveUnconfirmedRepeats
  <2>1. batch = EmptyList
      BY <1>14 DEF RemoveUnconfirmed, RemoveUnconfirmedRepeats, At, Shape
  <2>. QED
      BY <1>14, <2>1, EmptyHas DEF Apart, RemoveUnconfirmed, RemoveUnconfirmedRepeats, RemoveAll,
         DeleteUnconfirmed, clientVars, loopVars
<1>15. ASSUME InsertAll, LoopReturns, UNCHANGED clientVars PROVE Lists' /\ Unseen' /\ BurnOnce'
    BY <1>15, EmptyHas DEF InsertAll, MoveRows, DeleteUnconfirmed, LoopReturns, clientVars
<1>16. ASSUME LoopReturns, UNCHANGED <<unconf, aged, rows, clientVars>> PROVE Lists' /\ Unseen' /\ BurnOnce'
    BY <1>16, EmptyHas DEF LoopReturns, clientVars
<1>17. CASE ConfirmUnconfirmed \/ ConfirmRefused \/ ProcessFails
    BY <1>15, <1>16, <1>17 DEF ConfirmUnconfirmed, ConfirmRefused, ProcessFails, tableVars
<1>18. CASE Crash
    BY <1>18, EmptyHas DEF Crash, LoopReturns, tableVars
<1>. QED
    BY <1>1, <1>2, <1>4, <1>5, <1>6, <1>7, <1>8, <1>9, <1>10, <1>11, <1>12, <1>13, <1>14,
       <1>17, <1>18, ListedOnce, RepeatsHave DEF Next, SubmitStep, LoopStep

LEMMA OnceHolds == StableWhenRetried /\ Spec => []OnceInv
<1>1. ASSUME StableWhenRetried PROVE Spec => []OnceInv
  <2>1. Shape /\ Apart /\ Lists /\ Unseen /\ BurnOnce /\ [Next]_vars => Lists' /\ Unseen' /\ BurnOnce'
      BY OnceStep DEF OnceInv
  <2>2. Spec => [](Lists /\ Unseen /\ BurnOnce)
      BY <1>1, <2>1, OnceInit, ApartHolds, ShapeHolds, PTL DEF Spec
  <2>. QED
      BY <1>1, <2>2, ApartHolds, ShapeHolds, PTL DEF OnceInv
<1>. QED
    BY <1>1

\* A burn is never in unconfirmed_burns and in a transport table at once: whatever calls
\* of SubmitScpTx, retried transactions, passes of processUnconfirmed and crashes overlap,
\* checkBurnIDUnique and the single loop keep them apart.  Reorgs do no harm if the read
\* of a pass is not retried, nor do its retries if there is no reorg.
THEOREM SubmittedOnce == StableWhenRetried /\ Spec => []BurnOnce
<1>1. OnceInv => BurnOnce
    BY DEF OnceInv
<1>. QED
    BY <1>1, OnceHolds, PTL

-----------------------------------------------------------------------------
(* BurnIntake implements the first half of BurnStages.                      *)

StageMap == [b \in Burns |-> StageOf(b)]

\* What a step does to the tables, for the eyes of a transport status.
LEMMA TablesStep ==
    ASSUME OnceInv, [Next]_vars
    PROVE  \/ UNCHANGED <<unconf, rows>>
           \/ \E b \in Burns \ (unconf \cup rows) : unconf' = unconf \cup {b} /\ rows' = rows
           \/ unconf' = unconf \ InList(toRemove) /\ rows' = rows
           \/ unconf' = unconf \ InList(toConfirm) /\ rows' = rows \cup InList(toConfirm)
<1>1. CASE \E c \in Clients : AddUnconfirmedScpTx(c) \/ AddUnconfirmedRepeats(c)
  <2>1. PICK c \in Clients : AddUnconfirmedScpTx(c) \/ AddUnconfirmedRepeats(c)
      BY <1>1
  <2>2. cpc[c] = "write" /\ cburn[c] \in Burns \ rows
      BY <2>1 DEF AddUnconfirmedScpTx, AddUnconfirmedRepeats, OnceInv, Shape, Unseen, PastCheck
  <2>3. \/ UNCHANGED <<unconf, rows>>
        \/ cburn[c] \notin unconf /\ unconf' = unconf \cup {cburn[c]} /\ rows' = rows
      BY <2>1 DEF AddUnconfirmedScpTx, AddUnconfirmedRepeats, Writable, AddUnconfirmed, tableVars
  <2>. QED
      BY <2>2, <2>3
<1>2. CASE LoopStep \/ UnconfirmedBeforeRepeats \/ RemoveUnconfirmedRepeats \/ ProcessFails \/ Crash
    BY <1>2 DEF LoopStep, UnconfirmedBefore, UnconfirmedBeforeRepeats, ListUnconfirmed,
                CurrentHeight, CheckBurn, UpdateHeight, SetConfirmationHeight, RemoveUnconfirmed,
                RemoveUnconfirmedRepeats, RemoveAll, ConfirmUnconfirmed, ConfirmRefused, InsertAll,
                MoveRows, ProcessFails, Crash, DeleteUnconfirmed, tableVars
<1>3. CASE \/ UNCHANGED vars
           \/ FindBlock
           \/ \E d \in 1..MaxReorg : Reorg(d)
           \/ \E b \in Burns : Age(b) \/ Complete(b)
           \/ \E c \in Clients, b \in Burns : Submit(c, b)
           \/ \E c \in Clients : SubmitFails(c)
    BY <1>3 DEF vars, FindBlock, MineBlock, Reorg, Age, Complete, Submit, SubmitFails, tableVars
<1>4. CASE \E c \in Clients :
              \/ CheckBurnIDUnique(c)
              \/ ReadUnconfirmedAmount(c) \/ ReadCompletedSupply(c) \/ CheckQueueAllowance(c)
              \/ CheckPreminedAllowance(c) \/ AddUnconfirmedRefused(c)
    BY <1>4 DEF CheckBurnIDUnique, ReadUnconfirmedAmount, ReadCompletedSupply,
                CheckQueueAllowance, CheckPreminedAllowance, AddUnconfirmedRefused, tableVars
<1>. QED
    BY <1>1, <1>2, <1>3, <1>4 DEF Next, SubmitStep

\* Admissions, removals and confirmations are those of the abstract life of a burn.
LEMMA StagesStep ==
    ASSUME OnceInv, [Next]_vars
    PROVE  [Stages!Next]_StageMap
<1>. USE DEF StageMap, StageOf
<1>a. unconf \subseteq Burns /\ unconf \cap rows = {} /\ InList(toConfirm) \subseteq unconf
    BY DEF OnceInv, Shape, Lists, BurnOnce
<1>1. CASE UNCHANGED <<unconf, rows>>
    BY <1>1
<1>2. ASSUME NEW b \in Burns \ (unconf \cup rows), unconf' = unconf \cup {b}, rows' = rows
      PROVE  Stages!Admit(b)
    BY <1>2 DEF Stages!Admit, Stages!MoveTo
<1>3. ASSUME NEW S \in SUBSET Burns, S = unconf \cap InList(toRemove),
             unconf' = unconf \ InList(toRemove), rows' = rows
      PROVE  Stages!Next
  <2>1. Stages!Remove(S)
      BY <1>a, <1>3 DEF Stages!Remove, Stages!StageIn, Stages!MoveTo
  <2>. QED
      BY <2>1 DEF Stages!Next
<1>4. ASSUME NEW S \in SUBSET Burns, S = InList(toConfirm), unconf' = unconf \ S, rows' = rows \cup S
      PROVE  Stages!Next
  <2>1. Stages!Confirm(S)
      BY <1>a, <1>4 DEF Stages!Confirm, Stages!StageIn, Stages!MoveTo
  <2>. QED
      BY <2>1 DEF Stages!Next
<1>5. \A b \in Burns : Stages!Admit(b) => Stages!Next
    BY DEF Stages!Next
<1>6. unconf \cap InList(toRemove) \subseteq Burns /\ InList(toConfirm) \subseteq Burns
    BY <1>a
<1>. QED
    BY <1>1, <1>2, <1>3, <1>4, <1>5, <1>6, TablesStep

\* To a transport status, the intake half is the first half of the life of a burn,
\* whatever fails or crashes, whatever is retried on a chain without reorgs, and whatever
\* the chain does if the read of a pass is not retried.
THEOREM IntakeImplementsStages == StableWhenRetried /\ Spec => StagesSpec
<1>1. Init => Stages!Init
    BY DEF Init, Stages!Init, StageOf
<1>2. OnceInv /\ [Next]_vars => [Stages!Next]_StageMap
    BY StagesStep
<1>. QED
    BY OnceHolds, <1>1, <1>2, PTL DEF Spec, StagesSpec, Stages!Spec, StageMap
=============================================================================
