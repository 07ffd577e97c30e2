---------------------------- MODULE MCCheckinRun ----------------------------
(***************************************************************************)
(* Instances of CheckinRun for TLC.                                        *)
(***************************************************************************)
EXTENDS CheckinRun

CONSTANTS p, tick1, tick2, admin

OneProvider  == {p}
OneTick      == {tick1}
TwoTicks     == {tick1, tick2}
OneAdmin     == {admin}
=============================================================================
