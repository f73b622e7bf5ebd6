----------------------------- MODULE MCPipeline -----------------------------
(***************************************************************************)
(* Small instances of Pipeline for TLC.                                    *)
(***************************************************************************)
EXTENDS PipelineInv, TLC

CONSTANTS s1, s2, a1, a2, a3, b1, b2, k1, k2, k3, h1, h2

\* Races: a file, and a URL argument that the file mentions too (k1); k2 is fresh in
\* the cache and occurs twice in the file; a3 is a local link.
RacesSourceOf == [o \in Links |-> IF o = b1 THEN s2 ELSE s1]
RacesKeyOf == a1 :> k1 @@ a2 :> k2 @@ b1 :> k1 @@ b2 :> k2
RacesHostOf == [o \in Network |-> h1]
K2Warm == [k \in Keys |-> IF k = k2 THEN "dead" ELSE None]

\* Stages: one file with three URLs, two of one host and one of another.
StagesSourceOf == [o \in Links |-> s1]
StagesKeyOf == a1 :> k1 @@ a2 :> k2 @@ a3 :> k3
StagesHostOf == a1 :> h1 @@ a2 :> h1 @@ a3 :> h2
NoneWarm == [k \in Keys |-> None]

\* Burst: one file with two URLs of a host that starts with one token, and a local link.
BurstSourceOf == [o \in Links |-> s1]
BurstKeyOf == a1 :> k1 @@ a2 :> k2
BurstHostOf == [o \in Network |-> h1]
OneToken == [h \in Hosts |-> 1]
=============================================================================
