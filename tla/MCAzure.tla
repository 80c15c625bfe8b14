------------------------------ MODULE MCAzure ------------------------------
(***************************************************************************)
(* Instances of AzurePortal for TLC.                                       *)
(***************************************************************************)
EXTENDS AzurePortal

CONSTANTS j1, q1, q2, d1, c1
=============================================================================
