----------------------------- MODULE MCOutputs -----------------------------
(* Manifests of up to five items whose arrays are below, at and above the  *)
(* cap, and whose beginnings are cut off by the cap, by the number of      *)
(* entries or by an item that cannot be serialized.                        *)
EXTENDS Outputs
=============================================================================
