---------------------------- MODULE MCBulkDelete ----------------------------
(* A name beside the directory and two in it, one with an old version and  *)
(* a new one to come; a page is shorter than the listing, so a page ends   *)
(* inside a name, and each kind of lock occurs.                            *)
EXTENDS BulkDelete

MCOld  == {<<1, 1>>, <<2, 1>>, <<2, 2>>, <<3, 1>>}
MCNew  == {<<2, 3>>}
MCLock == [v \in Versions |-> CASE v = <<2, 1>> -> "governance"
                                [] v = <<3, 1>> -> "compliance"
                                [] OTHER        -> "none"]
=============================================================================
