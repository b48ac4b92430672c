----------------------------- MODULE Dispatcher -----------------------------
(***************************************************************************)
(* run() of src/main.ts: the inputs are parsed, the client is authorized,  *)
(* one command runs, and its result goes to the step's outputs; an error   *)
(* from anywhere is classified (src/errors.ts) into advice on retrying.    *)
(* What a command does is reduced to what it may have changed by the time  *)
(* it returns or throws; the modules of the commands have the rest.        *)
(***************************************************************************)
EXTENDS Inputs

CONSTANTS
  MaxCauseDepth,   (* MAX_CAUSE_DEPTH *)
  MaxRetryAfter,   (* MAX_RETRY_AFTER_SECONDS *)
  NetworkDelay,    (* DEFAULT_NETWORK_RETRY_AFTER_SECONDS *)
  Afters           (* retryAfter of an error, in tenths of a second; NoDelay
                      if it is absent, negative or not finite *)

NoDelay == 99999999

ASSUME DispatcherAssumption ==
  /\ MaxCauseDepth \in Nat \ {0} /\ MaxRetryAfter \in Nat /\ MaxRetryAfter < NoDelay
  /\ NetworkDelay \in 0 .. MaxRetryAfter
  /\ Afters \subseteq Nat /\ NoDelay \in Afters

VARIABLES
  pc,          (* where run() is *)
  inputs,      (* the raw inputs *)
  action,      (* the variable of that name, once parseInputs has returned *)
  changed,     (* history: what the command has changed: bucket, local files *)
  error,       (* what was thrown, or NoError *)
  result,      (* the command's result: none, clean, or with errors counted *)
  published,   (* outputs set so far *)
  retryable,   (* the output retryable *)
  retryAfter,  (* the output retry-after, or NoDelay *)
  failed,      (* core.setFailed was called, or run() was rejected *)
  writable,    (* whether the runner's output file can be written *)
  handlers,    (* signals that a handler is registered for *)
  aborted      (* controller.signal.aborted *)

advice  == <<retryable, retryAfter, failed>>
signals == <<handlers, aborted>>
vars == <<pc, inputs, action, changed, error, result, published, advice, writable, signals>>

(* An error: its class, where in its chain of causes a B2SsrfError stands  *)
(* (1 is the error itself, 0 is nowhere), and its retryAfter.              *)
B2Classes == {"scope", "auth", "capability", "access", "transient", "b2"}
Errors ==
  {e \in [class : B2Classes \cup {"network", "other"},
          ssrfAt : 0 .. MaxCauseDepth + 1, after : Afters] :
     /\ e.after # NoDelay => e.class \in B2Classes /\ e.ssrfAt = 0
     /\ e.ssrfAt # 0 => e.class \in {"network", "other"}}
NoError == [class |-> "none", ssrfAt |-> 0, after |-> NoDelay]
Plain   == [class |-> "other", ssrfAt |-> 0, after |-> NoDelay]

-----------------------------------------------------------------------------
(* errors.ts                                                               *)

(* ACTION_EFFECTS. *)
Reads == {"download", "presign", "list", "verify", "head"}
HonorsDryRun == {"sync", "delete", "purge"}

HasSsrfCause(e) == e.ssrfAt \in 1 .. MaxCauseDepth

(* retryPolicy; before the inputs are parsed no action is known.           *)
SafeInAnyDryRun == action # "unknown" /\ (inputs.dryRun \/ action \in Reads)
SafeToRetry ==
  /\ action # "unknown"
  /\ (inputs.dryRun /\ action \in HonorsDryRun) \/ action \in Reads

(* classifyActionError. *)
Retryable(e) ==
  CASE HasSsrfCause(e) -> "false"
    [] ~HasSsrfCause(e) /\ e.class \in {"network", "transient"} ->
         IF SafeToRetry THEN "true" ELSE "false"
    [] ~HasSsrfCause(e) /\ e.class \in B2Classes \ {"transient"} -> "false"
    [] OTHER -> "undefined"

(* normalizeRetryAfter: whole seconds, rounded up, and not too many.       *)
RoundUpOnly(t) == IF t = NoDelay THEN NoDelay ELSE (t + 9) \div 10
NormalizeRetryAfter(t) ==
  IF t = NoDelay THEN NoDelay
  ELSE LET s == (t + 9) \div 10 IN IF s > MaxRetryAfter THEN MaxRetryAfter ELSE s

RetryAfter(e) ==
  IF Retryable(e) # "true" THEN NoDelay
  ELSE IF e.class = "network" THEN NetworkDelay ELSE NormalizeRetryAfter(e.after)

-----------------------------------------------------------------------------
Init ==
  /\ pc = "start"
  /\ inputs \in RawInputs
  /\ action = "unknown" /\ changed = {}
  /\ error = NoError /\ result = "none" /\ published = {}
  /\ retryable = "undefined" /\ retryAfter = NoDelay /\ failed = FALSE
  /\ writable \in BOOLEAN
  /\ handlers = {"SIGTERM", "SIGINT"} /\ aborted = FALSE

Throw(e) == pc' = "catch" /\ error' = e

ParseInputs ==
  /\ pc = "start"
  /\ IF Parses(inputs)
     THEN pc' = "connect" /\ action' = inputs.action /\ UNCHANGED error
     ELSE Throw(Plain) /\ UNCHANGED action
  /\ UNCHANGED <<inputs, changed, result, published, advice, writable, signals>>

(* buildClient and getBucket. *)
Connect ==
  /\ pc = "connect"
  /\ \/ pc' = "command" /\ UNCHANGED error
     \/ \E e \in Errors : Throw(e)
  /\ UNCHANGED <<inputs, action, changed, result, published, advice, writable, signals>>

(* What the command looks at before its first request: the source, and     *)
(* for an upload the fileInfo as it is to be sent (prepareUploadPlan).     *)
PlanUnchecked == TRUE
PlanValid ==
  action = "upload" => FileInfoValid(UploadFileInfo(inputs), Budget(inputs.encrypted))

PrepareCommand ==
  /\ pc = "command"
  /\ IF SourceGiven(inputs) /\ PlanValid
     THEN pc' = "working" /\ UNCHANGED error
     ELSE Throw(Plain)
  /\ UNCHANGED <<inputs, action, changed, result, published, advice, writable, signals>>

(* What each command may change.  Only sync, delete and purge look at      *)
(* dry-run.                                                                *)
MayChange ==
  CASE action \in {"upload", "copy", "hide", "unhide", "retention"} -> {"bucket"}
    [] action \in {"delete", "purge"} -> IF inputs.dryRun THEN {} ELSE {"bucket"}
    [] action = "sync" -> IF inputs.dryRun THEN {} ELSE {"bucket", "local"}
    [] action = "download" -> {"local"}
    [] OTHER -> {}

CommandChanges ==
  /\ pc = "working"
  /\ \E c \in MayChange : changed' = changed \cup {c}
  /\ UNCHANGED <<pc, inputs, action, error, result, published, advice, writable, signals>>

(* A sync and the bulk deletions count errors of single files; verify      *)
(* returns that the digests differ.                                        *)
CountsErrors == {"sync", "delete", "purge", "verify"}

CommandReturns ==
  /\ pc = "working"
  /\ result' \in {"clean"} \cup (IF action \in CountsErrors THEN {"errors"} ELSE {})
  /\ pc' = "publish"
  /\ UNCHANGED <<inputs, action, changed, error, published, advice, writable, signals>>

CommandThrows ==
  /\ pc = "working"
  /\ \E e \in Errors : Throw(e)
  /\ UNCHANGED <<inputs, action, changed, result, published, advice, writable, signals>>

(* The order in which a result is published: the scalar outputs, then the  *)
(* step summary and summary-json; where errors of single files are counted *)
(* the outputs come before the throw and the step summary after it.        *)
SummaryFirst == action \notin {"sync", "delete", "purge"}

NextOutput ==
  CASE "scalars" \notin published -> "scalars"
    [] "scalars" \in published /\ SummaryFirst /\ "step" \notin published -> "step"
    [] OTHER -> IF "json" \notin published THEN "json"
                ELSE IF "step" \notin published THEN "step" ELSE "all"

ThrowsBeforeJson == result = "errors" /\ NextOutput = "json"
ThrowsForErrors ==
  result = "errors" /\ "json" \in published /\ (SummaryFirst => "step" \in published)

(* core.setOutput throws if the runner's file cannot be written;           *)
(* writeStepSummary never throws.                                          *)
Publish ==
  /\ pc = "publish" /\ ~ThrowsForErrors /\ NextOutput # "all"
  /\ IF writable \/ NextOutput = "step"
     THEN published' = published \cup {NextOutput} /\ UNCHANGED <<pc, error>>
     ELSE Throw(Plain) /\ UNCHANGED published
  /\ UNCHANGED <<inputs, action, changed, result, advice, writable, signals>>

Published ==
  /\ pc = "publish"
  /\ \/ ThrowsForErrors /\ Throw(Plain)
     \/ ~ThrowsForErrors /\ NextOutput = "all" /\ pc' = "finally" /\ UNCHANGED error
  /\ UNCHANGED <<inputs, action, changed, result, published, advice, writable, signals>>

(* If the advice itself cannot be written run() is rejected, which ends    *)
(* the process with a failure too.                                         *)
Catch ==
  /\ pc = "catch"
  /\ pc' = "finally" /\ failed' = TRUE
  /\ IF writable
     THEN retryable' = Retryable(error) /\ retryAfter' = RetryAfter(error)
     ELSE UNCHANGED <<retryable, retryAfter>>
  /\ UNCHANGED <<inputs, action, changed, error, result, published, writable, signals>>

Finally ==
  /\ pc = "finally"
  /\ pc' = "done" /\ handlers' = {}
  /\ UNCHANGED <<inputs, action, changed, error, result, published, advice, writable, aborted>>

(* The handlers are registered once: the next signal of a kind kills.      *)
Signal(k) ==
  /\ pc \notin {"done", "killed"}
  /\ IF k \in handlers
     THEN handlers' = handlers \ {k} /\ aborted' = TRUE /\ UNCHANGED pc
     ELSE pc' = "killed" /\ UNCHANGED signals
  /\ UNCHANGED <<inputs, action, changed, error, result, published, advice, writable>>

Run ==
  \/ ParseInputs \/ Connect \/ PrepareCommand \/ CommandChanges \/ CommandReturns
  \/ CommandThrows \/ Publish \/ Published \/ Catch \/ Finally

Terminated == pc \in {"done", "killed"} /\ UNCHANGED vars

Next == Run \/ (\E k \in {"SIGTERM", "SIGINT"} : Signal(k)) \/ Terminated

Spec == Init /\ [][Next]_vars

-----------------------------------------------------------------------------
TypeOK ==
  /\ pc \in {"start", "connect", "command", "working", "publish", "catch", "finally",
             "done", "killed"}
  /\ inputs \in RawInputs
  /\ action \in {"unknown", inputs.action} /\ action \in Actions \cup {"unknown"}
  /\ changed \subseteq {"bucket", "local"}
  /\ error \in Errors \cup {NoError} /\ result \in {"none", "clean", "errors"}
  /\ published \subseteq {"scalars", "step", "json"}
  /\ retryable \in {"undefined", "true", "false"}
  /\ retryAfter \in 0 .. MaxRetryAfter \cup {NoDelay}
  /\ failed \in BOOLEAN /\ writable \in BOOLEAN
  /\ handlers \subseteq {"SIGTERM", "SIGINT"} /\ aborted \in BOOLEAN

(* "retryable: true" is only ever put out for a run that failed and has    *)
(* not changed the bucket, and never for an unsafe endpoint; a delay is    *)
(* put out only along with it.                                             *)
RetryAdviceIsSound ==
  /\ retryable = "true" => failed /\ "bucket" \notin changed /\ ~HasSsrfCause(error)
  /\ retryAfter # NoDelay => retryable = "true"

(* A run that has come to its end and whose outputs could be written has   *)
(* published the counts and the manifest exactly if the command returned a *)
(* result, also one with errors; and it succeeds exactly if that result    *)
(* had none.  A command that threw leaves no partial counts behind.        *)
OutcomeIsPublished ==
  pc = "done" /\ writable =>
    /\ result # "none" <=> {"scalars", "json"} \subseteq published
    /\ result = "none" => published = {}
    /\ result = "clean" <=> ~failed

(* The fileInfo of an upload that gets as far as a request is within B2's  *)
(* limits with the modification time included, though that is added after  *)
(* the inputs were checked.                                                *)
SentFileInfoFits ==
  action = "upload" /\ pc = "working" =>
    LET info == UploadFileInfo(inputs) IN
    /\ Len(info) <= MaxEntries /\ DistinctKeys(info)
    /\ TotalBytes(info)[Len(info)] <= Budget(inputs.encrypted)
=============================================================================
