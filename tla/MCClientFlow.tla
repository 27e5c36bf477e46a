---------------------------- MODULE MCClientFlow ----------------------------
(***************************************************************************)
(* ClientFlow for TLC.  Senders are joined in order, so they are not taken *)
(* as symmetric.                                                           *)
(***************************************************************************)
EXTENDS ClientFlow
=============================================================================
