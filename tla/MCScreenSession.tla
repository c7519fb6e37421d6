-------------------------- MODULE MCScreenSession --------------------------
(* One viewer in control and one that takes stills; the pacer of frames, a *)
(* pure algorithm, is checked with them.                                   *)
EXTENDS ScreenSession, FramePace

\* In a session that is watched, whatever windows it sees, the rate of frames
\* does not see-saw between one that fails and one that looks cheap.
PaceIsSteady == (\E s \in Ids : session[s].purpose = "control") => PaceSettles
=============================================================================
