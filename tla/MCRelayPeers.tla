---------------------------- MODULE MCRelayPeers -----------------------------
(***************************************************************************)
(* An instance of RelayPeers with the constants of src/RelayWorker.h: a    *)
(* peer without samples, peers at both sides of the two limits.            *)
(***************************************************************************)
EXTENDS RelayPeers, TLC

MCSaved == {<< >>, 2 :> 0 @@ 3 :> 23, 2 :> 17 @@ 3 :> 24}
MCPeerLists == {{}, {1, 3}}
=============================================================================
