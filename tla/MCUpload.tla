------------------------------ MODULE MCUpload ------------------------------
(* Three files, two workers, two parts a file: a pool that is shorter than *)
(* its list, and a file with more parts than a multi-file permit.          *)
EXTENDS Upload, TLC
=============================================================================
