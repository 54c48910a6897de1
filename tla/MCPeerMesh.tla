----------------------------- MODULE MCPeerMesh -----------------------------
(***************************************************************************)
(* Three servers: x and y call from one address, z from its own.  Both     *)
(* call z, and x does so twice; z calls x back, and a port for clients.    *)
(***************************************************************************)
EXTENDS PeerMesh

CONSTANTS x, y, z, nat, public, xPeers, yPeers, zPeers, xClients,
          xz, xzAgain, yz, zx, zxClients

MCHostOf  == [s \in Servers |-> IF s = z THEN public ELSE nat]
MCOwn     == [s \in Servers |-> CASE s = x -> xPeers [] s = y -> yPeers [] s = z -> zPeers]
MCReaches == [a \in Addresses |-> CASE a \in {xPeers, xClients} -> x
                                    [] a = yPeers -> y [] a = zPeers -> z]
MCFrom    == [l \in Links |-> CASE l \in {xz, xzAgain} -> x [] l = yz -> y
                                [] l \in {zx, zxClients} -> z]
MCTo      == [l \in Links |-> CASE l \in {xz, xzAgain, yz} -> zPeers
                                [] l = zx -> xPeers [] l = zxClients -> xClients]
=============================================================================
