-------------------------- MODULE MCEventUploader --------------------------
(***************************************************************************)
(* Instances of EventUploader for TLC.                                     *)
(***************************************************************************)
EXTENDS EventUploader

None == {}
One == {1}
OneOrTwo == {1, 2}
Third == {3}
=============================================================================
