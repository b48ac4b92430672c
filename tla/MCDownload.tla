----------------------------- MODULE MCDownload -----------------------------
(* Names in listing order: A, A/c, a and one that cannot be mapped.  Each  *)
(* kind of collision occurs between two of them, and a page ends among     *)
(* them.  A local file, or a directory, may be in the way.                 *)
EXTENDS Download

MCPaths    == {"A", "A/c", "a", "a/c"}
MCPathOf   == <<"A", "A/c", "a", Unmappable>>
MCAbove    == [p \in MCPaths |-> CASE p = "A/c" -> {"A"} [] p = "a/c" -> {"a"} [] OTHER -> {}]
MCFold     == [p \in MCPaths |-> CASE p = "A" -> "a" [] p = "A/c" -> "a/c" [] OTHER -> p]
MCExisting == {"a", "a/c"}
=============================================================================
