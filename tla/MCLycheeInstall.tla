-------------------------- MODULE MCLycheeInstall --------------------------
(* Three processes, so that one waits behind two others; three attempts,   *)
(* so that the pauses between them differ.                                 *)
EXTENDS LycheeInstall
=============================================================================
