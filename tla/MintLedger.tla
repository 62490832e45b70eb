------------------------------ MODULE MintLedger ------------------------------
(***************************************************************************)
(* What the minting half of the transporter promises, with no server, no   *)
(* database and no Solana transaction in sight: every accepted burn gets   *)
(* the next interval of the supply of its transport type, the burns of a   *)
(* type are minted once each in the order of their intervals, and a burn   *)
(* is reported completed only after it has been minted.                    *)
(***************************************************************************)
EXTENDS Naturals

CONSTANTS
    Burns,      \* burn transactions the service may accept
    Types,      \* transport types, each with a supply of its own
    TypeOf,     \* the transport type of every burn
    Amount      \* the amount every burn transports

VARIABLES
    rows,       \* accepted burns
    before,     \* supply of the type just before the burn's interval
    after,      \* supply of the type at the end of the burn's interval
    minted,     \* burns whose tokens exist
    completed   \* burns reported as completed

ledgerVars == <<rows, before, after, minted, completed>>

OfType(S, t) == {b \in S : TypeOf[b] = t}

-----------------------------------------------------------------------------
Init ==
    /\ rows = {}
    /\ before = [b \in Burns |-> 0]
    /\ after = [b \in Burns |-> 0]
    /\ minted = {}
    /\ completed = {}

\* The burn gets the interval that follows every interval of its type.
Accept(b) ==
    /\ b \in Burns \ rows
    /\ \E top \in {0} \cup {after[c] : c \in OfType(rows, TypeOf[b])} :
        /\ \A c \in OfType(rows, TypeOf[b]) : after[c] <= top
        /\ before' = [before EXCEPT ![b] = top]
        /\ after' = [after EXCEPT ![b] = top + Amount[b]]
    /\ rows' = rows \cup {b}
    /\ UNCHANGED <<minted, completed>>

\* Once per burn, and only when every earlier burn of the type is minted.
Mint(b) ==
    /\ b \in rows \ minted
    /\ \A c \in OfType(rows, TypeOf[b]) : after[c] <= before[b] => c \in minted
    /\ minted' = minted \cup {b}
    /\ UNCHANGED <<rows, before, after, completed>>

Complete(b) ==
    /\ b \in minted \ completed
    /\ completed' = completed \cup {b}
    /\ UNCHANGED <<rows, before, after, minted>>

Next == \E b \in Burns : Accept(b) \/ Mint(b) \/ Complete(b)

Spec == Init /\ [][Next]_ledgerVars
=============================================================================
