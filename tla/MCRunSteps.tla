---------------------------- MODULE MCRunSteps ----------------------------
(* Two integrations, of which one name contains the other.                   *)
EXTENDS RunSteps, TLC

CONSTANTS drive, driveTeam

MCConnectors == {drive, driveTeam}
MCSame == {<<drive, drive>>, <<driveTeam, driveTeam>>}
MCLike == MCConnectors \X MCConnectors

\* Both comparisons treat the two alike.
Symmetry == Permutations(MCConnectors)
=============================================================================
