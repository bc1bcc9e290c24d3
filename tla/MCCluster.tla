----------------------------- MODULE MCCluster -----------------------------
(***************************************************************************)
(* A small instance of Cluster.                                            *)
(***************************************************************************)
EXTENDS Cluster

CONSTANTS s1, s2

TwoServers == <<s1, s2>>
=============================================================================
