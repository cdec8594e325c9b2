---------------------------- MODULE MCLocalLane ----------------------------
(* One local task and two remote conversations, one of them not allowed,   *)
(* compete for one place.                                                  *)
EXTENDS LocalLane

MCRemote  == {1, 3}
MCLocal   == {2}
MCAllowed == {1, 2}
MCTime    == {1}
=============================================================================
