---------------------------- MODULE MCQueueLock ----------------------------
(* Instances of QueueLock for TLC: the burns and the clients are model values. *)
EXTENDS QueueLock, TLC

CONSTANTS b1, b2, b3
=============================================================================
