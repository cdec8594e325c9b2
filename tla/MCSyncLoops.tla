---------------------------- MODULE MCSyncLoops ----------------------------
(* Both lanes.                                                             *)
EXTENDS SyncLoops

MCLane == {"remote", "local"}
=============================================================================
