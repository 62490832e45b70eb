---------------------------- MODULE MCBurnIntake ----------------------------
(* Instances of BurnIntake for TLC: burns p1, p2 and p3 spend from a        *)
(* premined address, q1, q2 and q3 from an ordinary one.                    *)
EXTENDS BurnIntake, TLC

CONSTANTS p1, p2, p3, q1, q2, q3, addr, other

MCHome == [b \in Burns |-> IF b \in {p1, p2, p3} THEN addr ELSE other]
MCAmount == [b \in Burns |-> IF b \in {p2, q2} THEN 2 ELSE 1]
\* Each burn alone takes all of the limit: two of them are interchangeable.
MCWholeLimit == [b \in Burns |-> 2]
\* Each burn takes half of the limit.
MCHalfLimit == [b \in Burns |-> 1]
MCAllowedMax == [a \in Premined |-> 2]

ClientSymmetry == Permutations(Clients)
IntakeSymmetry == Permutations(Clients) \cup Permutations(Burns)
=============================================================================
