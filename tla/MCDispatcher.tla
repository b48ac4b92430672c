---------------------------- MODULE MCDispatcher ----------------------------
(* Entries of fileInfo up to the limits on their number and size and just  *)
(* beyond, so that the modification time can be what exceeds them.         *)
EXTENDS Dispatcher

MCKeyBytes == [k \in Keys |-> CASE k = "long" -> 4 [] k = "mtime" -> 2 [] OTHER -> 1]

E(k, v) == [key |-> k, from |-> IF k = "b2-h" THEN "header" ELSE "file-info", value |-> v]
MCFileInfos ==
  {<<>>, <<[key |-> "b2-h", from |-> "file-info", value |-> 0]>>}
  \cup {<<E(k, v)>> : k \in Keys, v \in {0, 4, 6}}
  \cup {<<E(k, v), E(l, w)>> : k \in {"a", "b2-h"}, l \in {"a", "b", "mtime", "odd"},
                              v \in {0, 2}, w \in {0, 1, 2, 4}}
  \cup {<<E("a", 0), E("b", 0), E("b2-h", 0)>>}
MCAfters == {NoDelay, 0, 1, 20, 31}
=============================================================================
