------------------------------ MODULE MCMirror ------------------------------
(* Instances of Mirror: texts, with an attachment of the first one.        *)
EXTENDS Mirror

CONSTANTS a, b

MCFile   == {2}
MCEdited == {a, b}

\* The behaviours in which sync_edits is on throughout.
SyncInit == Init /\ syncEdits = TRUE
SyncNext == Next /\ syncEdits' = TRUE
SyncSpec == SyncInit /\ [][SyncNext]_vars
=============================================================================
