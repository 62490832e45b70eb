---------------------------- MODULE MCMintPipeline ----------------------------
(***************************************************************************)
(* Small instances of MintPipeline.  r1 and r2 share the queue table, p1    *)
(* and p2 the premined one, a1 has the airdrop table to itself; a           *)
(* configuration takes some of them.                                        *)
(***************************************************************************)
EXTENDS MintPipeline, TLC

CONSTANTS r1, r2, p1, p2, a1

MCTypeOf ==
    [b \in Burns |->
        CASE b \in {r1, r2} -> "regular" [] b \in {p1, p2} -> "premined" [] b = a1 -> "airdrop"]

MCAmount == [b \in Burns |-> IF b \in {r2, a1} THEN 2 ELSE 1]

\* Signatures are interchangeable.
TxSymmetry == Permutations(TxIDs)
=============================================================================
