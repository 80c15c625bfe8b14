------------------------------- MODULE MCSite -------------------------------
(***************************************************************************)
(* Instances of Site for TLC.                                              *)
(***************************************************************************)
EXTENDS Site

CONSTANTS j1, q1, c1, u1
=============================================================================
