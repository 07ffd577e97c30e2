--------------------------- MODULE MCProviderSync ---------------------------
(***************************************************************************)
(* Instances of ProviderSync for TLC.                                      *)
(***************************************************************************)
EXTENDS ProviderSync

CONSTANTS cycle, admin

OneCycle == {cycle}
OneAdmin == {admin}
=============================================================================
