--------------------------- MODULE MCFileVersions ---------------------------
(* A name, a longer one that begins with it and a destination; histories   *)
(* with one and two uploads, a hidden name beside a longer one, locked     *)
(* versions and an upload without a digest; others can delete any version  *)
(* that is not locked before the command's first request.                  *)
EXTENDS FileVersions

Up(n, s, l, h) == [name |-> n, kind |-> "upload", sha |-> s, lock |-> l, hold |-> h]

MCHistories ==
  { <<Up(1, "a", "none", "off"), Up(1, "b", "none", "off")>>,
    <<Up(1, "a", "none", "off"), Marker(1), Up(2, "a", "none", "off")>>,
    <<Up(1, "a", "governance", "off")>>,
    <<Up(1, "a", "compliance", "off")>>,
    <<Up(1, "b", "governance", "on")>>,
    <<Up(1, "none", "none", "off")>> }
=============================================================================
