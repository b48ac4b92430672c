----------------------------- MODULE BulkDelete -----------------------------
(***************************************************************************)
(* `delete` of a prefix and `purge` (src/commands/delete.ts, purge.ts),    *)
(* both consumers of the generator deleteAllVersions (delete-all.ts), up   *)
(* to the outputs that main.ts writes.  A paged listing of file versions   *)
(* is read while other clients upload and delete, each listed version is   *)
(* deleted by a request that B2 may refuse or whose answer may be lost,    *)
(* and the termination signal can come at any await.                       *)
(***************************************************************************)
EXTENDS Naturals, FiniteSets

CONSTANTS
  Names,      (* how many file names there are; a name is its rank 1..Names *)
  MaxSeq,     (* bound: versions of one name, numbered in upload order *)
  Under,      (* names that start with "source/" *)
  Beside,     (* names that start with "source" but not with "source/" *)
  Old,        (* the versions that exist when the command starts *)
  New,        (* bound: the versions that other clients may add meanwhile *)
  Lock,       (* the object lock of each version: none, governance, compliance *)
  PageSize    (* versions a listing request returns *)

Versions == (1 .. Names) \X (1 .. MaxSeq)

ASSUME BulkDeleteAssumption ==
  /\ Names \in Nat \ {0} /\ MaxSeq \in Nat \ {0} /\ PageSize \in Nat \ {0}
  /\ Under \subseteq 1 .. Names /\ Beside \subseteq 1 .. Names
  /\ Under \cap Beside = {}
  /\ Old \subseteq Versions /\ New \subseteq Versions
  /\ Lock \in [Versions -> {"none", "governance", "compliance"}]

VARIABLES
  pc,        (* where the command is, or how the action ended *)
  request,   (* the inputs: how source is written, and the flags *)
  bucket,    (* versions that exist *)
  loose,     (* the listing answers with names outside the prefix too *)
  cursor,    (* nextFileName and nextFileId of the last page, or End *)
  page,      (* versions of the last page that the generator has yet to take *)
  current,   (* the version that a deletion request is about *)
  answer,    (* what the request resolves to *)
  events,    (* what the generator yielded, as <<type, version>> *)
  removed,   (* versions that this command deleted *)
  aborted    (* signal.aborted *)

service == <<bucket, removed>>
paging  == <<cursor, page>>
vars == <<pc, request, loose, service, paging, current, answer, events, aborted>>

Begin == <<0, 0>>
End   == <<0, 1>>

Ended == {"succeeded", "failed"}

Requests ==
  {r \in [source : {"dir", "all"},
          allowBucketPurge : BOOLEAN, dryRun : BOOLEAN, bypass : BOOLEAN] :
     r.allowBucketPurge => r.source = "all"}

(* b2_list_file_versions: by name, and the newest version of a name first. *)
Precedes(u, v) == u[1] < v[1] \/ (u[1] = v[1] /\ u[2] > v[2])

-----------------------------------------------------------------------------
Init ==
  /\ pc = "start"
  /\ request \in Requests
  /\ bucket = Old
  /\ loose \in BOOLEAN
  /\ cursor = Begin /\ page = {}
  /\ current = Begin /\ answer = "none"
  /\ events = {} /\ removed = {} /\ aborted = FALSE

BucketWide == request.source = "all"

(* normalizePrefix: a directory is one with or without its slash, and the  *)
(* whole bucket has no prefix at all.  `delete` always brings the slash.   *)
PrefixAsGiven == IF BucketWide THEN 1 .. Names ELSE Under \cup Beside
Prefix == IF BucketWide THEN 1 .. Names ELSE Under

(* Entry of purgeCommand and of deletePrefix. *)
Start ==
  /\ pc = "start"
  /\ IF BucketWide /\ ~request.allowBucketPurge
     THEN pc' = "failed"
     ELSE pc' = "list"
  /\ UNCHANGED <<request, loose, service, paging, current, answer, events, aborted>>

(* The listing from the cursor on, as B2 has it now. *)
Listing ==
  {v \in bucket : /\ loose \/ v[1] \in Prefix
                  /\ cursor = Begin \/ v = cursor \/ Precedes(cursor, v)}

IsFirst(v, S) == v \in S /\ \A u \in S : u = v \/ Precedes(v, u)

(* After a page P the SDK's paginator asks from c on: the version that     *)
(* follows P.                                                              *)
NoNextPage(P, c) == c = End
FromLastOfPage(P, c) ==
  IF P = Listing THEN c = End ELSE c \in P /\ \A u \in P : u = c \/ Precedes(u, c)
NextPage(P, c) == IF P = Listing THEN c = End ELSE IsFirst(c, Listing \ P)

(* signal.throwIfAborted() stands before and after versions.next() and     *)
(* before the deletion request: no step of the loop's body runs past it.   *)
InLoopUnchecked == pc = "list"
InLoop == pc = "list" /\ ~aborted

FetchPage ==
  \E P \in SUBSET Listing, c \in Versions \cup {End} :
    /\ InLoop /\ page = {} /\ cursor # End
    /\ Cardinality(P) = PageSize \/ (P = Listing /\ Cardinality(P) < PageSize)
    /\ \A u \in P, v \in Listing \ P : Precedes(u, v)
    /\ NextPage(P, c)
    /\ page' = P /\ cursor' = c
    /\ UNCHANGED <<pc, request, loose, service, current, answer, events, aborted>>

(* The listing request fails for good: versions.next() throws.             *)
ListingFails ==
  /\ pc = "list" /\ page = {} /\ cursor # End
  /\ pc' = "failed"
  /\ UNCHANGED <<request, loose, service, paging, current, answer, events, aborted>>

(* The generator throws: what the listing still holds is left alone.       *)
StopAtSignalInPage ==
  /\ pc = "list" /\ aborted /\ page # {}
  /\ pc' = "failed"
  /\ UNCHANGED <<request, loose, service, paging, current, answer, events, aborted>>
StopAtSignal ==
  /\ pc = "list" /\ aborted
  /\ pc' = "failed"
  /\ UNCHANGED <<request, loose, service, paging, current, answer, events, aborted>>

Yield(type, v) == events' = events \cup {<<type, v>>}

(* A listed version that is not under the prefix is an error; one that is  *)
(* is previewed, or its deletion is requested.                             *)
OutOfPrefix(v) == v[1] \notin Prefix

Take ==
  \E v \in page :
    /\ InLoop /\ IsFirst(v, page)
    /\ page' = page \ {v}
    /\ CASE OutOfPrefix(v) -> Yield("error", v) /\ UNCHANGED <<pc, current>>
         [] ~OutOfPrefix(v) /\ request.dryRun -> Yield("skip", v) /\ UNCHANGED <<pc, current>>
         [] OTHER -> pc' = "deleting" /\ current' = v /\ UNCHANGED events
    /\ UNCHANGED <<request, loose, service, cursor, answer, aborted>>

-----------------------------------------------------------------------------
(* b2_delete_file_version for `current`.                                   *)

Deletable(v) ==
  /\ v \in bucket
  /\ Lock[v] = "none" \/ (Lock[v] = "governance" /\ request.bypass)

(* The version goes.  If the answer is lost the SDK repeats the request,   *)
(* and that one finds no such version: the generator sees a failure.       *)
DeleteTakesEffect(a) ==
  /\ pc = "deleting" /\ Deletable(current)
  /\ bucket' = bucket \ {current} /\ removed' = removed \cup {current}
  /\ pc' = "answered" /\ answer' = a
  /\ UNCHANGED <<request, loose, paging, current, events, aborted>>

(* Locked, gone already, or B2 is not to be reached. *)
DeleteRefused ==
  /\ pc = "deleting"
  /\ pc' = "answered" /\ answer' = "fail"
  /\ UNCHANGED <<request, loose, service, paging, current, events, aborted>>

(* What the generator yields for the answer: after a failure it looks at   *)
(* the signal first, and throws instead if that has come.                  *)
DeleteAnyway == {"delete"}
AnswerAsItIs == {answer}
EventType ==
  CASE answer = "ok"               -> {"delete"}
    [] answer = "fail" /\ ~aborted -> {"error"}
    [] OTHER                       -> {}

YieldAnswer ==
  /\ pc = "answered"
  /\ events' = events \cup (EventType \X {current})
  /\ pc' = IF aborted THEN "failed" ELSE "list"
  /\ current' = Begin /\ answer' = "none"
  /\ UNCHANGED <<request, loose, service, paging, aborted>>

(* An abort error goes through the generator even without the signal.      *)
RethrowAbortError ==
  /\ pc = "answered" /\ answer = "fail"
  /\ pc' = "failed" /\ current' = Begin /\ answer' = "none"
  /\ UNCHANGED <<request, loose, service, paging, events, aborted>>

(* The generator is done and emitDeletionSummary writes the outputs: any   *)
(* error event makes the action fail.                                      *)
Report ==
  /\ InLoop /\ page = {} /\ cursor = End
  /\ pc' = IF \E e \in events : e[1] = "error" THEN "failed" ELSE "succeeded"
  /\ UNCHANGED <<request, loose, service, paging, current, answer, events, aborted>>

-----------------------------------------------------------------------------
(* The surroundings.                                                       *)

Abort ==
  /\ ~aborted /\ pc \notin Ended
  /\ aborted' = TRUE
  /\ UNCHANGED <<pc, request, loose, service, paging, current, answer, events>>

(* Another client uploads, or hides, a file: a version newer than those of *)
(* its name that the command can know.                                     *)
OtherUploads(v) ==
  /\ pc \notin Ended /\ v \in New
  /\ \A u \in Old \cup bucket \cup removed : u[1] = v[1] => u[2] < v[2]
  /\ bucket' = bucket \cup {v}
  /\ UNCHANGED <<pc, request, loose, removed, paging, current, answer, events, aborted>>

OtherDeletes(v) ==
  /\ pc \notin Ended
  /\ v \in bucket /\ Lock[v] # "compliance"
  /\ bucket' = bucket \ {v}
  /\ UNCHANGED <<pc, request, loose, removed, paging, current, answer, events, aborted>>

Terminated == pc \in Ended /\ UNCHANGED vars

Command ==
  \/ Start \/ FetchPage \/ ListingFails \/ StopAtSignal \/ Take \/ YieldAnswer
  \/ RethrowAbortError \/ Report \/ DeleteRefused \/ \E a \in {"ok", "fail"} : DeleteTakesEffect(a)

Next ==
  \/ Command
  \/ Abort
  \/ \E v \in Versions : OtherUploads(v) \/ OtherDeletes(v)
  \/ Terminated

Spec == Init /\ [][Next]_vars

(* The command is one thread of awaits, and the SDK bounds every request   *)
(* by a timeout.                                                           *)
FairSpec == Spec /\ WF_vars(Command)

-----------------------------------------------------------------------------
EventTypes == {"delete", "skip", "error"}

TypeOK ==
  /\ pc \in {"start", "list", "deleting", "answered"} \cup Ended
  /\ request \in Requests
  /\ bucket \subseteq Versions /\ removed \subseteq Versions
  /\ loose \in BOOLEAN /\ aborted \in BOOLEAN
  /\ cursor \in Versions \cup {Begin, End}
  /\ page \subseteq Versions
  /\ current \in IF pc \in {"deleting", "answered"} THEN Versions ELSE {Begin}
  /\ answer \in {"none", "ok", "fail"}
  /\ events \subseteq EventTypes \X Versions

Asked == IF BucketWide THEN IF request.allowBucketPurge THEN 1 .. Names ELSE {} ELSE Under

(* Whatever the listing returns, only versions under the requested         *)
(* directory are deleted, the whole bucket only with allow-bucket-purge,   *)
(* nothing in a dry run, and no version under governance unless bypassing  *)
(* was asked for.                                                          *)
RemovesOnlyWhatWasAsked ==
  \A v \in removed : /\ v[1] \in Asked
                     /\ ~request.dryRun
                     /\ Lock[v] = "none" \/ (Lock[v] = "governance" /\ request.bypass)

(* A version reported as deleted was deleted by this command and is gone,  *)
(* whoever else writes to the bucket.                                      *)
ReportedDeletedIsGone ==
  \A v \in Versions : <<"delete", v>> \in events => v \in removed /\ v \notin bucket

(* A command that reports success has dealt with every version that was    *)
(* under the prefix when it started, whatever page it was on and whoever   *)
(* wrote meanwhile: it is gone, or it was previewed.                       *)
SuccessAccountsForAll ==
  pc = "succeeded" =>
    \A v \in Old \cap bucket : v[1] \in Asked => <<"skip", v>> \in events

(* Once the signal has come no further deletion is requested, and the      *)
(* command does not go on to report success.                               *)
StopsAtSignal ==
  [][aborted => /\ pc' = "deleting" => pc = "deleting"
                /\ pc' = "succeeded" => pc = "succeeded"]_vars

(* A version that was reported on is not requested again: pages of a       *)
(* listing that changes in between do not overlap.                         *)
NoSecondRequest ==
  [][pc' = "deleting" /\ pc # "deleting" =>
       \A e \in events : e[2] # current']_vars

(* The command ends, whatever fails and whenever the signal comes.         *)
Settles == <>(pc \in Ended)
=============================================================================
