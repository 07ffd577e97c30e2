---------------------------- MODULE MCRouteCache ----------------------------
(***************************************************************************)
(* Instances of RouteCache for TLC.                                        *)
(***************************************************************************)
EXTENDS RouteCache

CONSTANTS r1, r2, w1, w2

MCReaders == {r1, r2}
MCWriters == {w1, w2}
=============================================================================
