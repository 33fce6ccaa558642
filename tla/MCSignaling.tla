---------------------------- MODULE MCSignaling ----------------------------
(***************************************************************************)
(* Model-checking instance of the signaling plane.                         *)
(***************************************************************************)
EXTENDS SignalingProperties, TLC

\* References the subscription batches of the small instances range over.
MCRefs == {0} \X TrackIds

Symmetry == Permutations(Conns)
=============================================================================
