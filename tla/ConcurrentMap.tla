--------------------------- MODULE ConcurrentMap ---------------------------
(***************************************************************************)
(* What mapWithConcurrency promises its callers: a list of items is mapped *)
(* with at most Limit mappers running, in list order, each item at most    *)
(* once; the first failure stops the hand-out of further items; and the    *)
(* call settles only when no mapper runs any more, with a value if every   *)
(* item was mapped and with the first failure otherwise.                   *)
(***************************************************************************)
EXTENDS Naturals, FiniteSets

CONSTANTS
  MaxFiles,  (* the longest list of items *)
  Limit      (* the concurrency the caller passes *)

VARIABLES
  status,    (* of each position of the list *)
  cause,     (* the position of the first failure, 0 while there is none *)
  outcome    (* of the promise *)

vars == <<status, cause, outcome>>

Positions == 1 .. MaxFiles
With(s)   == {i \in Positions : status[i] = s}

Init ==
  /\ status = [i \in Positions |-> "absent"]
  /\ cause = 0
  /\ outcome = "pending"

(* The mapper is called on the set R, which the list's order puts first    *)
(* among the positions `todo` that have not been handed out.               *)
Next_in(R, todo) ==
  /\ R \subseteq todo
  /\ \A i \in R, j \in todo \ R : i < j

(* The call: n items arrive and the first of them are handed out at once.  *)
Call ==
  \E n \in Positions : \E R \in SUBSET (1 .. n) :
    /\ With("absent") = Positions
    /\ outcome = "pending"
    /\ R # {} /\ Cardinality(R) <= Limit
    /\ Next_in(R, 1 .. n)
    /\ status' = [i \in Positions |-> CASE i \in R -> "running"
                                        [] i \in (1 .. n) \ R -> "todo"
                                        [] OTHER -> "absent"]
    /\ UNCHANGED <<cause, outcome>>

(* A mapper returns; its worker takes the next item unless there was a     *)
(* failure.                                                                *)
Return(i) ==
  \E R \in SUBSET With("todo") :
    /\ status[i] = "running"
    /\ Cardinality(R) <= 1
    /\ R # {} => cause = 0
    /\ Next_in(R, With("todo"))
    /\ status' = [j \in Positions |-> CASE j = i -> "ok"
                                        [] j \in R -> "running"
                                        [] OTHER -> status[j]]
    /\ UNCHANGED <<cause, outcome>>

(* A mapper rejects: the first to do so is the cause, and no item is       *)
(* handed out.                                                             *)
Reject(i) ==
  /\ status[i] = "running"
  /\ status' = [status EXCEPT ![i] = "err"]
  /\ cause' = IF cause = 0 THEN i ELSE cause
  /\ UNCHANGED outcome

Settle ==
  /\ outcome = "pending"
  /\ With("absent") # Positions
  /\ With("running") = {}
  /\ cause = 0 => With("todo") = {}
  /\ outcome' = IF cause = 0 THEN "value" ELSE "error"
  /\ UNCHANGED <<status, cause>>

Next ==
  \/ Call
  \/ \E i \in Positions : Return(i) \/ Reject(i)
  \/ Settle

Spec == Init /\ [][Next]_vars
=============================================================================
