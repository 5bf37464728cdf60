--------------------------- MODULE MCMediaPipeline ---------------------------
(* Values of the constants of MediaPipeline for TLC. *)
EXTENDS MediaPipeline

CONSTANTS u1, u2, r1

\* Both uploads fill one route: the second brings video to a map-only route.
OneRoute == [u \in Upload |-> r1]
=============================================================================
