------------------------------- MODULE MCSync -------------------------------
(* Three files, two of them at a time, with every plan: batches overlap,   *)
(* and the signal can come between two of them.                            *)
EXTENDS Sync
=============================================================================
