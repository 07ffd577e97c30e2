------------------------------ MODULE MCBackup ------------------------------
(***************************************************************************)
(* Instances of Backup for TLC.                                            *)
(***************************************************************************)
EXTENDS Backup

CONSTANTS pass1, pass2

OnePass   == {pass1}
TwoPasses == {pass1, pass2}
=============================================================================
