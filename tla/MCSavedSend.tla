---------------------------- MODULE MCSavedSend ----------------------------
(* Instances of SavedSend: two replies, of which one carries no client txn, *)
(* and one message written at the source.                                  *)
EXTENDS SavedSend, TLC

CONSTANTS m1, m2, s1

MCMsg         == {m1, m2}
MCRemote      == {s1}
MCNoClientTxn == {m2}
=============================================================================
