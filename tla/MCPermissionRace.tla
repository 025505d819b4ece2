-------------------------- MODULE MCPermissionRace --------------------------
(***************************************************************************)
(* Instances of PermissionRace for TLC.                                    *)
(***************************************************************************)
EXTENDS PermissionRace

Two == 1..2

AllRacers == {"bridge", "hook", "classifier"}
=============================================================================
