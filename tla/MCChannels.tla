----------------------------- MODULE MCChannels -----------------------------
(***************************************************************************)
(* Channels for TLC.  Nothing is taken as symmetric: the watchdog visits   *)
(* the senders in order, and the runs have one worker or check liveness.   *)
(***************************************************************************)
EXTENDS Channels
=============================================================================
