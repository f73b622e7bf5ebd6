----------------------------- MODULE MCHostState -----------------------------
(***************************************************************************)
(* Small instances of HostState for TLC.                                   *)
(***************************************************************************)
EXTENDS HostState

\* The waits, one of them of a Retry-After that overflowed.
MCDelays == {-1, 0, 1, 3}
=============================================================================
