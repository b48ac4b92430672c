---------------------------- MODULE FileVersions ----------------------------
(***************************************************************************)
(* The verbs about one file name: delete (one file), copy, retention,      *)
(* hide, unhide, head and verify (src/commands/ and findFileByName in      *)
(* client.ts).  B2 keeps a stack of versions for each name; the commands   *)
(* look a name up and then send a request about the version they found,    *)
(* while other clients upload, hide and delete in between and answers get  *)
(* lost, whereupon the SDK repeats the request.                            *)
(***************************************************************************)
EXTENDS Naturals, Sequences, FiniteSets

CONSTANTS
  Names,        (* how many names there are; a name is its rank 1..Names,
                   and 1 is the name that the source input gives *)
  Longer,       (* the other names that begin with that name *)
  Shas,         (* contents, as digests *)
  Histories,    (* what the bucket may hold when the command starts *)
  MaxVersions,  (* bound: versions ever made *)
  MaxRetries    (* how often the SDK repeats a request *)

Source == 1

Files == [name : 1 .. Names, kind : {"upload", "hide"}, sha : Shas \cup {"none"},
          lock : {"none", "governance", "compliance"}, hold : {"on", "off"}]

ASSUME FileVersionsAssumption ==
  /\ Names \in Nat \ {0} /\ Longer \subseteq 2 .. Names
  /\ "none" \notin Shas /\ "absent" \notin Shas /\ "invalid" \notin Shas
  /\ Histories \subseteq Seq(Files)
  /\ MaxVersions \in Nat /\ MaxRetries \in Nat

VARIABLES
  pc,       (* the request to be sent next, or how the action ended *)
  request,  (* the inputs *)
  store,    (* every version ever made, oldest first; its index is its fileId *)
  live,     (* the versions that exist *)
  hit,      (* the version that the lookup returned, or 0 *)
  retries,  (* repetitions of the current request *)
  did,      (* history: what this command changed, as <<what, version>> *)
  shown,    (* history: versions that `source` has named since the start *)
  aborted   (* signal.aborted *)

bucket == <<store, live>>
vars == <<pc, request, bucket, hit, retries, did, shown, aborted>>

Ended == {"succeeded", "failed"}
Verbs == {"delete", "copy", "retention", "hide", "unhide", "head", "verify"}

(* The inputs, each one given only to the verbs that read it.              *)
Requests ==
  {r \in [verb : Verbs, dryRun : BOOLEAN, bypass : BOOLEAN, to : 0 .. Names,
          mode : {"absent", "none", "governance", "compliance"},
          until : {"absent", "invalid", "past", "justPast", "future"},
          hold : {"absent", "on", "off"},
          expected : Shas \cup {"absent", "invalid"},
          local : Shas \cup {"absent", "invalid"}] :
     /\ r.dryRun => r.verb = "delete"
     /\ r.bypass => r.verb \in {"delete", "retention"}
     /\ r.to # 0 => r.verb = "copy"
     /\ r.verb # "retention" => r.mode = "absent" /\ r.hold = "absent"
     /\ r.mode \in {"absent", "none"} => r.until = "absent"
     /\ r.verb # "verify" => r.expected = "absent" /\ r.local = "absent"}

-----------------------------------------------------------------------------
(* The bucket.                                                             *)

Newest(v) == v \in live /\ \A u \in live : store[u].name = store[v].name => u <= v
Visible(v) == Newest(v) /\ store[v].kind = "upload"

(* b2_list_file_names with the name as prefix and a page of one: the first *)
(* name that has a visible version.  The code does not rely on B2 to leave *)
(* out hidden names.                                                       *)
Listed(v, withHidden) ==
  LET Candidates == {u \in live : /\ IF withHidden THEN Newest(u) ELSE Visible(u)
                                  /\ store[u].name \in {Source} \cup Longer}
  IN  v \in Candidates /\ \A u \in Candidates : store[v].name <= store[u].name

(* exactLatest, and what a lookup without the comparison of names, or      *)
(* without the look at the action, would accept.                           *)
AnyNameMatches(v) == store[v].kind = "upload"
AnyActionMatches(v) == store[v].name = Source
Matches(v) == store[v].name = Source /\ store[v].kind = "upload"

Add(f) == /\ Len(store) < MaxVersions
          /\ store' = Append(store, f)
          /\ live' = live \cup {Len(store) + 1}

Deletable(v) ==
  /\ v \in live /\ store[v].hold = "off"
  /\ store[v].lock = "none" \/ (store[v].lock = "governance" /\ request.bypass)

-----------------------------------------------------------------------------
Init ==
  /\ pc = "start"
  /\ request \in Requests
  /\ store \in Histories
  /\ live = DOMAIN store
  /\ hit = 0 /\ retries = 0 /\ aborted = FALSE
  /\ did = {} /\ shown = {v \in live : Visible(v) /\ store[v].name = Source}

AnswerUncounted(p) ==
  \/ pc' = p /\ retries' = 0
  \/ retries' = retries + 1 /\ UNCHANGED pc
AnswerForever(p) ==
  \/ pc' = p /\ retries' = 0
  \/ retries' = (retries + 1) % (MaxRetries + 1) /\ UNCHANGED pc
(* The request is answered and the command goes on to p; or the answer is  *)
(* lost and the SDK sends the request again.                               *)
Answer(p) ==
  \/ pc' = p /\ retries' = 0
  \/ retries < MaxRetries /\ retries' = retries + 1 /\ UNCHANGED pc

(* What retentionCommand refuses before it asks B2 for anything: 30        *)
(* seconds of clock skew are allowed for.                                  *)
RetentionValid ==
  /\ request.mode # "absent" \/ request.hold # "absent"
  /\ request.mode \in {"governance", "compliance"} => request.until \in {"justPast", "future"}

(* The checks of the inputs that come before the first request.            *)
Start ==
  /\ pc = "start"
  /\ pc' = CASE request.verb = "delete" -> "lookup"
             [] request.verb = "copy" -> IF request.to = 0 THEN "failed" ELSE "lookup"
             [] request.verb = "retention" -> IF RetentionValid THEN "lookup" ELSE "failed"
             [] request.verb = "verify" -> "head"
             [] OTHER -> request.verb
  /\ UNCHANGED <<request, bucket, hit, retries, did, aborted>>

(* After the lookup: the retention comes before the legal hold, and either *)
(* is left out when it was not asked for.                                  *)
AfterLookup ==
  CASE request.verb = "delete" -> IF request.dryRun THEN "succeeded" ELSE "delete"
    [] request.verb = "copy" -> "copy"
    [] request.mode # "absent" -> "retain"
    [] OTHER -> "hold"

(* findFileByName.                                                         *)
FindFileByName ==
  \E v \in live, withHidden \in BOOLEAN :
    /\ pc = "lookup"
    /\ Listed(v, withHidden) /\ Matches(v)
    /\ hit' = v /\ pc' = AfterLookup
    /\ UNCHANGED <<request, bucket, retries, did, aborted>>

FileNotFound ==
  /\ pc = "lookup"
  /\ \E withHidden \in BOOLEAN : \A v \in live : ~(Listed(v, withHidden) /\ Matches(v))
  /\ pc' = "failed"
  /\ UNCHANGED <<request, bucket, hit, retries, did, aborted>>

(* deleteOne: b2_delete_file_version of the version found.                 *)
DeleteVersion ==
  /\ pc = "delete" /\ Deletable(hit)
  /\ live' = live \ {hit} /\ UNCHANGED store
  /\ did' = did \cup {<<"delete", hit>>}
  /\ Answer("succeeded")
  /\ UNCHANGED <<request, hit, aborted>>

(* copyCommand: b2_copy_file, which names the source by its id.            *)
CopyFile ==
  /\ pc = "copy" /\ hit \in live /\ ~aborted
  /\ Add([store[hit] EXCEPT !.name = request.to, !.lock = "none", !.hold = "off"])
  /\ did' = did \cup {<<"copy", hit>>}
  /\ Answer("succeeded")
  /\ UNCHANGED <<request, hit, aborted>>

(* B2 takes a retention away only from governance, and then only if        *)
(* bypassing was asked for; it refuses a date in the past.                 *)
RetentionAllowed(v) ==
  /\ request.mode # "none" => request.until = "future"
  /\ CASE store[v].lock = "none" -> TRUE
       [] store[v].lock = "governance" -> request.mode # "none" \/ request.bypass
       [] OTHER -> request.mode = "compliance"

AfterRetentionAlways == "succeeded"
AfterRetention == IF request.hold = "absent" THEN "succeeded" ELSE "hold"

UpdateRetention ==
  /\ pc = "retain" /\ hit \in live /\ RetentionAllowed(hit)
  /\ store' = [store EXCEPT ![hit].lock = request.mode] /\ UNCHANGED live
  /\ did' = did \cup {<<"retain", hit>>}
  /\ Answer(AfterRetention)
  /\ UNCHANGED <<request, hit, aborted>>

UpdateLegalHold ==
  /\ pc = "hold" /\ hit \in live
  /\ store' = [store EXCEPT ![hit].hold = request.hold] /\ UNCHANGED live
  /\ did' = did \cup {<<"hold", hit>>}
  /\ Answer("succeeded")
  /\ UNCHANGED <<request, hit, aborted>>

Marker(n) == [name |-> n, kind |-> "hide", sha |-> "none", lock |-> "none", hold |-> "off"]

(* hideCommand: b2_hide_file goes by name and refuses a name that has no   *)
(* visible version.                                                        *)
HideFile ==
  \E v \in live :
    /\ pc = "hide" /\ Visible(v) /\ store[v].name = Source
    /\ Add(Marker(Source))
    /\ did' = did \cup {<<"hide", Len(store) + 1>>}
    /\ Answer("succeeded")
    /\ UNCHANGED <<request, hit, aborted>>

(* unhideCommand, by the SDK's unhideFile: the versions of the name are    *)
(* listed; if the newest is a marker it is deleted, by its id.             *)
FindMarker ==
  /\ pc = "unhide"
  /\ \/ \E v \in live : /\ Newest(v) /\ store[v].name = Source /\ store[v].kind = "hide"
                        /\ hit' = v /\ pc' = "remove"
     \/ /\ \A v \in live : Newest(v) /\ store[v].name = Source => store[v].kind # "hide"
        /\ pc' = "succeeded" /\ UNCHANGED hit
  /\ UNCHANGED <<request, bucket, retries, did, aborted>>

RemoveMarker ==
  /\ pc = "remove" /\ Deletable(hit)
  /\ live' = live \ {hit} /\ UNCHANGED store
  /\ did' = did \cup {<<"unhide", hit>>}
  /\ Answer("succeeded")
  /\ UNCHANGED <<request, hit, aborted>>

(* headCommand and the first half of verifyCommand.                        *)
Head_ ==
  \E v \in live :
    /\ pc = "head" /\ Visible(v) /\ store[v].name = Source
    /\ hit' = v
    /\ pc' = IF request.verb = "head" THEN "succeeded" ELSE "compare"
    /\ UNCHANGED <<request, bucket, retries, did, aborted>>

(* verifyCommand: expected-sha1 goes before the local file; a digest that  *)
(* is malformed, a file that is missing, neither of the two, and a remote  *)
(* file without a digest of its own all make the action fail.              *)
Expected == IF request.expected # "absent" THEN request.expected ELSE request.local
VerifiedUnlessMultipart == store[hit].sha \in {Expected, "none"}
Verified == store[hit].sha # "none" /\ store[hit].sha = Expected

Compare ==
  /\ pc = "compare"
  /\ pc' = IF Verified THEN "succeeded" ELSE "failed"
  /\ UNCHANGED <<request, bucket, hit, retries, did, aborted>>

(* A request that B2 refuses, that fails in all its repetitions or that    *)
(* the signal ends: the command throws.                                    *)
RequestFails ==
  /\ pc \in {"lookup", "delete", "copy", "retain", "hold", "hide", "unhide", "remove", "head"}
  /\ pc' = "failed"
  /\ UNCHANGED <<request, bucket, hit, retries, did, aborted>>

-----------------------------------------------------------------------------
(* The signal; of these commands only copy listens to it.                  *)
Abort ==
  /\ ~aborted /\ pc \notin Ended /\ request.verb = "copy"
  /\ aborted' = TRUE
  /\ UNCHANGED <<pc, request, bucket, hit, retries, did>>

(* Other clients of the bucket.                                            *)
OtherUploads ==
  \E n \in 1 .. Names, s \in Shas :
    /\ pc \notin Ended
    /\ Add([name |-> n, kind |-> "upload", sha |-> s, lock |-> "none", hold |-> "off"])
    /\ UNCHANGED <<pc, request, hit, retries, did, aborted>>

OtherHides ==
  \E v \in live :
    /\ pc \notin Ended
    /\ Visible(v) /\ Add(Marker(store[v].name))
    /\ UNCHANGED <<pc, request, hit, retries, did, aborted>>

OtherDeletes ==
  \E v \in live :
    /\ pc \notin Ended /\ store[v].lock = "none" /\ store[v].hold = "off"
    /\ live' = live \ {v} /\ UNCHANGED store
    /\ UNCHANGED <<pc, request, hit, retries, did, aborted>>

Command ==
  \/ Start \/ FindFileByName \/ FileNotFound \/ DeleteVersion \/ CopyFile
  \/ UpdateRetention \/ UpdateLegalHold \/ HideFile \/ FindMarker \/ RemoveMarker
  \/ Head_ \/ Compare \/ RequestFails

Others == Abort \/ OtherUploads \/ OtherHides \/ OtherDeletes

Step ==
  /\ Command \/ Others
  /\ shown' = shown \cup {v \in live' : Visible(v)' /\ store'[v].name = Source}

Terminated == pc \in Ended /\ UNCHANGED vars

Next == Step \/ Terminated

Spec == Init /\ [][Next]_vars

(* A command is one thread of awaits, and the SDK bounds each request by a *)
(* timeout and the number of its repetitions.                              *)
FairSpec == Spec /\ WF_vars(Command /\ Step)

-----------------------------------------------------------------------------
Effects == {"delete", "copy", "retain", "hold", "hide", "unhide"}

TypeOK ==
  /\ pc \in Ended \cup {"start", "lookup", "delete", "copy", "retain", "hold", "hide",
                        "unhide", "remove", "head", "compare"}
  /\ request \in Requests
  /\ store \in Seq(Files)
  /\ live \subseteq DOMAIN store
  /\ hit \in {0} \cup DOMAIN store
  /\ retries \in 0 .. MaxRetries
  /\ did \subseteq Effects \X DOMAIN store
  /\ shown \subseteq DOMAIN store
  /\ aborted \in BOOLEAN

(* Whatever a command changes by fileId is a version that `source` named   *)
(* at some moment of the run: never a file whose name merely begins with   *)
(* it, never an older upload below a hide marker.  Only markers are taken  *)
(* away by unhide.                                                         *)
ActsOnWhatWasNamed ==
  \A e \in did :
    /\ e[1] \in {"delete", "copy", "retain", "hold"} => e[2] \in shown
    /\ e[1] \in {"hide", "unhide"} =>
         store[e[2]].name = Source /\ store[e[2]].kind = "hide"

Asked ==
  CASE request.verb = "delete" -> IF request.dryRun THEN {} ELSE {"delete"}
    [] request.verb = "retention" -> {e \in {"retain", "hold"} :
         IF e = "retain" THEN request.mode # "absent" ELSE request.hold # "absent"}
    [] request.verb \in {"copy", "hide", "unhide"} -> {request.verb}
    [] OTHER -> {}

(* A command changes nothing that was not asked for, failing or not, and,  *)
(* where it goes by fileId, no two versions however often a request is     *)
(* repeated; one that succeeds has done all that was asked, a retention    *)
(* and a legal hold to the same version.  Only unhide may find that there  *)
(* is nothing to do.                                                       *)
DoesWhatWasAsked ==
  /\ \A e \in did : e[1] \in Asked
  /\ request.verb # "hide" => \A e, f \in did : e[2] = f[2]
  /\ pc = "succeeded" /\ request.verb # "unhide" => {e[1] : e \in did} = Asked

(* verify succeeds only if the name had the expected digest at some moment *)
(* of the run; a multipart upload never verifies.                          *)
VerifiedIsEqual ==
  pc = "succeeded" /\ request.verb = "verify" =>
    \E v \in shown : store[v].sha \in Shas /\ store[v].sha = Expected

(* The command ends, whatever B2 and its other clients do.                 *)
Settles == <>(pc \in Ended)

(* "<source> is now visible", as unhideCommand logs when it has removed    *)
(* the marker that was on top.                                             *)
UnhiddenIsVisible ==
  [][\A v \in live : <<"unhide", v>> \in did' \ did =>
        \E u \in live' : Visible(u)' /\ store[u].name = Source]_vars
=============================================================================
