---------------------------- MODULE TCPNetworkMC ----------------------------
(***************************************************************************)
(* Values for the constants of TCPNetwork that a .cfg cannot spell.        *)
(***************************************************************************)
EXTENDS TCPNetwork, TLC

\* The client's sequence numbers wrap around within its stream.
MCIsn == Client :> M - 2 @@ Server :> 3

\* Only the client sends bytes, or both.
ClientWrites == Client :> 1 @@ Server :> 0
ClientWritesTwo == Client :> 2 @@ Server :> 0
BothWrite == Client :> 1 @@ Server :> 1
=============================================================================
