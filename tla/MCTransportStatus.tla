------------------------- MODULE MCTransportStatus -------------------------
(* Instances of TransportStatus for TLC: burns and clients are model values, and *)
(* no client and no burn is told from another.                                   *)
EXTENDS TransportStatus, TLC

CONSTANTS b1, b2, c1, c2

StatusSymmetry == Permutations(Clients) \cup Permutations(Burns)
=============================================================================
