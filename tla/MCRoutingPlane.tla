--------------------------- MODULE MCRoutingPlane ---------------------------
(***************************************************************************)
(* Instances of RoutingPlane for TLC; the .cfg files give the constants.   *)
(***************************************************************************)
EXTENDS RoutingPlane
=============================================================================
