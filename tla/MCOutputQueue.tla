--------------------------- MODULE MCOutputQueue ---------------------------
(***************************************************************************)
(* OutputQueue for TLC.  The safety run takes the senders as symmetric:    *)
(* no definition tells one sender from another.                            *)
(***************************************************************************)
EXTENDS OutputQueue, TLC

SenderSymmetry == Permutations(Sender)
=============================================================================
