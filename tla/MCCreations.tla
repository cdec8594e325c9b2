---------------------------- MODULE MCCreations ----------------------------
(* Two "new" commands.                                                     *)
EXTENDS Creations

CONSTANTS n1, n2

MCCommand == {n1, n2}
=============================================================================
