------------------------- MODULE MCClusterLifecycle -------------------------
(***************************************************************************)
(* The instances of ClusterLifecycle that TLC checks.                      *)
(***************************************************************************)
EXTENDS ClusterLifecycle
=============================================================================
