------------------------------ MODULE Listing ------------------------------
(***************************************************************************)
(* `list` (src/commands/list.ts) and `presign` of a prefix (presign.ts):   *)
(* the names under a prefix are read page by page, up to max-results,      *)
(* while other clients of the bucket upload, hide and delete.              *)
(***************************************************************************)
EXTENDS Naturals, FiniteSets

CONSTANTS
  Names,     (* how many names there may be under the prefix, 1..Names *)
  PageCap,   (* 1000: the largest page that is asked for *)
  MaxMax,    (* bound: the largest max-results tried *)
  Changes    (* bound: how often others change the bucket *)

ASSUME ListingAssumption ==
  Names \in Nat \ {0} /\ PageCap \in Nat \ {0} /\ MaxMax \in Nat \ {0} /\ Changes \in Nat

VARIABLES
  pc,          (* page, more, done or failed *)
  verb,        (* list or presign *)
  maxResults,  (* the input *)
  state,       (* what the newest version of each name is *)
  cursor,      (* startFileName of the next request *)
  files,       (* the names in the result *)
  truncated,   (* the flag in the result of list *)
  always,      (* history: names visible ever since the command started *)
  ever,        (* history: names visible at some moment since *)
  changes      (* how often others have changed the bucket *)

result == <<files, truncated>>
history == <<always, ever>>
vars == <<pc, verb, maxResults, state, cursor, result, history, changes>>

End == Names + 1
Uploads == {n \in 1 .. Names : state[n] = "upload"}
LeastOf(a, b) == IF a < b THEN a ELSE b

Init ==
  /\ pc = "page" /\ verb \in {"list", "presign"}
  /\ maxResults \in 1 .. MaxMax
  /\ state \in [1 .. Names -> {"upload", "hide", "absent"}]
  /\ cursor = 1 /\ files = {} /\ truncated = FALSE
  /\ always = Uploads /\ ever = Uploads /\ changes = 0

(* b2_list_file_names: the first names from the cursor on, `size` of them  *)
(* at most; the code is prepared for hidden names among them, and for a    *)
(* nextFileName behind which nothing is left.                              *)
IsPage(P, next, size) ==
  \E withHidden \in BOOLEAN :
    LET Rest == {n \in cursor .. Names : state[n] = "upload" \/ (withHidden /\ state[n] = "hide")}
    IN  /\ P \subseteq Rest /\ Cardinality(P) <= size /\ (Rest # {} => P # {})
        /\ \A n \in P, m \in Rest \ P : n < m
        /\ IF P = Rest THEN next = End \/ \E n \in P : next = n + 1 /\ \A m \in P : m <= n
           ELSE next \in Rest \ P /\ \A m \in Rest \ P : next <= m

PageSize == LeastOf(PageCap, maxResults - Cardinality(files))

FetchPageSkippingOne(P, next) ==
  /\ pc = "page" /\ IsPage(P, next, PageSize)
  /\ files' = files \cup (P \cap Uploads)
  /\ cursor' = LeastOf(next + 1, End)
(* The loop's body: files of a page are taken in without an await.         *)
FetchPage(P, next) ==
  /\ pc = "page" /\ IsPage(P, next, PageSize)
  /\ files' = files \cup (P \cap Uploads)
  /\ cursor' = next

Full == Cardinality(files') >= maxResults

ListPage ==
  \E P \in SUBSET (1 .. Names), next \in 1 .. End :
    /\ verb = "list" /\ FetchPage(P, next)
    /\ pc' = CASE next = End -> "done" [] next # End /\ Full -> "more" [] OTHER -> "page"
    /\ UNCHANGED <<verb, maxResults, state, truncated, history, changes>>

PresignPage ==
  \E P \in SUBSET (1 .. Names), next \in 1 .. End :
    /\ verb = "presign" /\ FetchPage(P, next)
    /\ pc' = IF next = End \/ Full THEN "done" ELSE "page"
    /\ UNCHANGED <<verb, maxResults, state, truncated, history, changes>>

(* hasVisibleUploadAfter: is anything left behind the cursor but markers?  *)
AnyMeansMore(P) == P # {}
MeansMore(P) == P \cap Uploads # {}

LookForMore ==
  \E P \in SUBSET (1 .. Names), next \in 1 .. End :
    /\ pc = "more" /\ IsPage(P, next, PageCap)
    /\ truncated' = MeansMore(P)
    /\ pc' = IF MeansMore(P) \/ next = End THEN "done" ELSE "more"
    /\ cursor' = next
    /\ UNCHANGED <<verb, maxResults, state, files, history, changes>>

RequestFails ==
  /\ pc \in {"page", "more"}
  /\ pc' = "failed"
  /\ UNCHANGED <<verb, maxResults, state, cursor, result, history, changes>>

(* Another client uploads, hides or deletes a file.                        *)
OtherChanges ==
  \E n \in 1 .. Names, s \in {"upload", "hide", "absent"} :
    /\ pc \in {"page", "more"} /\ changes < Changes
    /\ state' = [state EXCEPT ![n] = s] /\ changes' = changes + 1
    /\ always' = IF s = "upload" THEN always ELSE always \ {n}
    /\ ever' = IF s = "upload" THEN ever \cup {n} ELSE ever
    /\ UNCHANGED <<pc, verb, maxResults, cursor, result>>

Terminated == pc \in {"done", "failed"} /\ UNCHANGED vars

Next == ListPage \/ PresignPage \/ LookForMore \/ RequestFails \/ OtherChanges \/ Terminated

Spec == Init /\ [][Next]_vars

-----------------------------------------------------------------------------
(* Names come in order and none is passed over: a file that was there all  *)
(* along and stands before one that is listed is listed too, whoever       *)
(* writes between the pages.                                               *)
ListingHasNoGaps ==
  \A n \in always : (\E m \in files : n < m) => n \in files

(* The result holds no more than was asked for and nothing that was never  *)
(* visible.  If list does not say truncated, or presign stopped short of   *)
(* max-results, every file that was there all along is in it; if it does   *)
(* say so, it is full and there was a visible file that it lacks.          *)
ListingIsExact ==
  /\ Cardinality(files) <= maxResults /\ files \subseteq ever
  /\ pc = "done" /\ ~truncated /\ (verb = "list" \/ Cardinality(files) < maxResults) =>
       always \subseteq files
  /\ truncated => Cardinality(files) = maxResults /\ ever \ files # {}
=============================================================================
