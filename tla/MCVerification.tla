---------------------------- MODULE MCVerification ----------------------------
(* An instance of Verification for TLC.                                     *)
EXTENDS Verification

CONSTANTS mail, ann, bob, p1

MCAddresses  == {mail}
MCPeople     == {ann, bob}
MCPresenters == {p1}

\* controller/user.go:642: EmailBind need not ask whether the address is taken by
\* another account, because the code has been verified.
BoundAddressWasFree == ~doubled
=============================================================================
