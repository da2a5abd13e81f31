-------------------------- MODULE MCEventPipeline --------------------------
(* Instances of EventPipeline for TLC.                                     *)
EXTENDS EventPipeline

CONSTANTS w1, w2

MCWindows == {w1, w2}

\* A window of its own, and one below it.
MCPlaces == {<<w1, w2>>, <<w2, Root>>}
MCKeys == {38, 39}
=============================================================================
