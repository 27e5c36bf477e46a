------------------------------ MODULE MCBackup ------------------------------
(***************************************************************************)
(* Backup for TLC.  Versions are named by their number of pieces; alike is *)
(* another one of two pieces that begins as two does.                      *)
(***************************************************************************)
EXTENDS Backup, TLC

CONSTANTS empty, one, two, alike, three

ContentOf ==
    [v \in Version |->
       CASE v = empty -> <<>>
         [] v = one -> <<"a">>
         [] v = two -> <<"b", "c">>
         [] v = alike -> <<"b", "d">>
         [] v = three -> <<"e", "f", "g">>]
=============================================================================
