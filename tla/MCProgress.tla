----------------------------- MODULE MCProgress -----------------------------
(***************************************************************************)
(* A small instance of Progress for TLC: two hosts, one with two checks.   *)
(***************************************************************************)
EXTENDS Progress, TLC

CONSTANTS j1, j2, j3, h1, h2

MCHostOf == j1 :> h1 @@ j2 :> h1 @@ j3 :> h2
=============================================================================
