---------------------------- MODULE CanonicalFile ----------------------------
(***************************************************************************)
(* What writing one regular NetCDF file promises, whether the ranks write  *)
(* into it directly or into subfiles that a later program merges: what is  *)
(* in the file is what was wanted there, it stays, and the file is closed  *)
(* only when it is complete, unless the user was warned.                   *)
(***************************************************************************)
CONSTANT Want  \* what every cell of the file is to hold

VARIABLES file, warned, closed

vars == <<file, warned, closed>>

Init == file = <<>> /\ ~warned /\ ~closed

\* Some more cells are written; none is taken back.
Write ==
  /\ ~closed
  /\ DOMAIN file \subseteq DOMAIN file'
  /\ DOMAIN file' \subseteq DOMAIN Want
  /\ \A c \in DOMAIN file' : file'[c] = Want[c]
  /\ UNCHANGED <<warned, closed>>

Warn == ~closed /\ warned' = TRUE /\ UNCHANGED <<file, closed>>

Close ==
  /\ ~closed /\ closed' = TRUE
  /\ file = Want \/ warned
  /\ UNCHANGED <<file, warned>>

Spec == Init /\ [][Write \/ Warn \/ Close]_vars
=============================================================================
