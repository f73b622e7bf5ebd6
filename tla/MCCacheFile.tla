----------------------------- MODULE MCCacheFile -----------------------------
(***************************************************************************)
(* Small instances of CacheFile for TLC.                                   *)
(***************************************************************************)
EXTENDS CacheFile, TLC

CONSTANTS r1, r2, r3, polA, polB

\* The run of the other policy comes between the two others in some behaviours.
MCPolicyOf == r1 :> polA @@ r2 :> polB @@ r3 :> polA

Ends(state, code) == [state |-> state, code |-> code]

\* Verdicts for good, of which one is a 403, and a transient one.
MCOutcomes == {Ends("alive", 200), Ends("dead", 403), Ends("dead", 429)}
=============================================================================
