---------------------------- MODULE MCCCRClient ----------------------------
(***************************************************************************)
(* Instances of CCRClient for TLC.                                         *)
(***************************************************************************)
EXTENDS CCRClient

TwoWorkers == <<"first", "second">>
TheKeys == {"worker_status", "requires_action_details", "pending_action", "task_summary"}
TheMetadata == {"pending_action", "task_summary"}
TheValues == States \cup {"null", "dead", "other", "first", "second"}
BothWirings == {"remoteIO", "bridge"}
=============================================================================
