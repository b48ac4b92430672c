----------------------------- MODULE MCListing -----------------------------
(* Four names in every combination of visible, hidden and absent, pages of *)
(* one and two names, max-results below, at and above the number of files, *)
(* and one change by another client at any point.                          *)
EXTENDS Listing
=============================================================================
