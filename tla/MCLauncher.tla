------------------------------ MODULE MCLauncher -----------------------------
(* Two launchers from two extracted releases, each started any number of   *)
(* times, and one native caller.                                           *)
EXTENDS Launcher

CONSTANTS s1, s2

MCFolderOf == [s \in Supervisor |-> IF s = s1 THEN 1 ELSE 2]
=============================================================================
