---------------------------- MODULE MCCodexSend ----------------------------
(* One transaction of a task, replayed by two processes at a time.  The    *)
(* theorems of CodexSendProofs cover any number of both.                   *)
EXTENDS CodexSend

CONSTANTS t1, c1, c2

MCTxn  == {t1}
MCCall == {c1, c2}
=============================================================================
