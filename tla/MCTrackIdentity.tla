--------------------------- MODULE MCTrackIdentity ---------------------------
(***************************************************************************)
(* Model-checking instances of TrackIdentity: with both devices captured,  *)
(* and with a camera that may be off at the join.                          *)
(***************************************************************************)
EXTENDS TrackIdentity

BothDevices == {{"mic", "cam"}}
\* The camera may also have been switched off, or be missing, in the lobby.
LobbyChoices == {{"mic", "cam"}, {"mic"}}

Plan(t, s, r) ==
  [toggles |-> t, shares |-> s, rejoins |-> r]
\* The camera goes off and on within one connection, or it stays on and the
\* connection is made again.
Steady == {Plan(3, 1, 0), Plan(0, 1, 2)}
OneShare == {Plan(0, 1, 0)}
=============================================================================
