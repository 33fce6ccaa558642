--------------------------- MODULE MCControlPlane ---------------------------
(***************************************************************************)
(* Model-checking instance of hub and router together.  The shards' side   *)
(* of the control queues is not part of it, so no shard is configured.     *)
(***************************************************************************)
EXTENDS ControlPlane, TLC

MCRefs == {0} \X TrackIds
MCKind == [t \in TrackIds |-> "video"]
Symmetry == Permutations(Conns)
=============================================================================
