--------------------------- MODULE MCClusterManager ---------------------------
(* Instances of ClusterManager for TLC.                                    *)
EXTENDS ClusterManager

CONSTANTS n1, c1, c2, e1, e2
=============================================================================
