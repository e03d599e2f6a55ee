---------------------------- MODULE MCNodeTable -----------------------------
(* An instance of NodeTable: the distances are the XOR of small hashes. *)
EXTENDS NodeTable, Bitwise
MCSaved == {{}, {2, 3}}
MCPeerLists == {{}, {1, 2}}
MCMetric == [k \in Keys |-> [n \in Nodes |-> k ^^ n]]
=============================================================================
