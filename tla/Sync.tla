-------------------------------- MODULE Sync --------------------------------
(***************************************************************************)
(* `sync` (src/commands/sync.ts) up to the verdict in main.ts: the         *)
(* direction is settled, the SDK's synchronize() runs the actions of a     *)
(* batch of files concurrently and queues their events, and the command    *)
(* counts the events that the generator yields.  What is to be done with   *)
(* each file is the SDK's decision, taken here as given.                   *)
(***************************************************************************)
EXTENDS Naturals, FiniteSets

CONSTANTS
  Files,        (* how many files are compared; a file is its rank 1..Files *)
  Concurrency   (* the concurrency input *)

ASSUME SyncAssumption == Files \in Nat /\ Concurrency \in Nat \ {0}

VARIABLES
  pc,         (* where the command is, or how the action ended *)
  request,    (* the inputs, and whether the source begins with a tilde *)
  localDir,   (* source is an existing local directory *)
  direction,  (* the resolved direction *)
  plan,       (* what is to be done with each file *)
  next,       (* the SDK: the first file that is not scheduled yet *)
  running,    (* the SDK: files whose action runs *)
  queue,      (* the SDK: events that the generator has yet to yield *)
  errorCount, (* the SDK's own count of errors *)
  closing,    (* the SDK: how the generator is about to end *)
  events,     (* events received, as <<type, file>>; the aggregate has file 0 *)
  counters,   (* SyncEventCounters *)
  done,       (* history: files that were transferred, deleted or hidden *)
  aborted     (* signal.aborted *)

given  == <<request, plan>>
engine == <<next, running, queue, errorCount, closing>>
counts == <<events, counters>>
vars == <<pc, given, localDir, direction, engine, counts, done, aborted>>

Ended == {"succeeded", "failed"}
Counters == {"uploaded", "downloaded", "deleted", "skipped", "errors"}

Init ==
  /\ pc = "start"
  /\ request \in [direction : {"up", "down", "auto"}, tilde : BOOLEAN, dryRun : BOOLEAN]
  /\ plan \in [1 .. Files -> {"transfer", "remove", "hide", "skip"}]
  /\ localDir \in BOOLEAN /\ direction = "none"
  /\ next = 1 /\ running = {} /\ queue = {} /\ errorCount = 0 /\ closing = "no"
  /\ events = {} /\ counters = [c \in Counters |-> 0]
  /\ done = {} /\ aborted = FALSE

-----------------------------------------------------------------------------
(* resolveDirection: auto goes by what is at the path now, and refuses a   *)
(* tilde that could be a prefix as well.                                   *)
ResolveDirection ==
  /\ pc = "start"
  /\ LET up == request.direction = "up" \/ (request.direction = "auto" /\ localDir) IN
     IF request.direction = "auto" /\ localDir /\ request.tilde
     THEN pc' = "failed" /\ UNCHANGED direction
     ELSE pc' = "config" /\ direction' = IF up THEN "local-to-b2" ELSE "b2-to-local"
  /\ UNCHANGED <<given, localDir, engine, counts, done, aborted>>

(* buildConfig: the directory is looked at once more; a local destination  *)
(* is made, which may fail.                                                *)
BuildConfig ==
  /\ pc = "config"
  /\ \/ direction = "local-to-b2" /\ pc' = IF localDir THEN "syncing" ELSE "failed"
     \/ direction = "b2-to-local" /\ pc' \in {"syncing", "failed"}
  /\ UNCHANGED <<given, localDir, direction, engine, counts, done, aborted>>

(* Another process makes or removes the directory.                         *)
DirectoryChanges ==
  /\ pc \in {"start", "config"}
  /\ localDir' = ~localDir
  /\ UNCHANGED <<pc, given, direction, engine, counts, done, aborted>>

-----------------------------------------------------------------------------
(* The SDK's synchronize().                                                *)

EventType(f) ==
  CASE plan[f] = "skip" -> "skip"
    [] plan[f] = "transfer" -> IF direction = "local-to-b2" THEN "upload-done" ELSE "download-done"
    [] plan[f] = "hide" /\ direction = "local-to-b2" -> "hide"
    [] OTHER -> IF direction = "local-to-b2" THEN "delete-remote" ELSE "delete-local"

(* The listings of both sides fail: the generator throws, or an error of a *)
(* scan is an event and no file is touched.                                *)
ScanFails ==
  /\ pc = "syncing" /\ next = 1 /\ closing = "no" /\ running = {} /\ queue = {}
  /\ \/ pc' = "failed" /\ UNCHANGED <<errorCount, queue, closing>>
     \/ \E f \in 1 .. Files :
          /\ errorCount' = errorCount + 1 /\ queue' = {<<"error", f>>}
          /\ closing' = "scanned" /\ UNCHANGED pc
  /\ UNCHANGED <<given, localDir, direction, next, running, counts, done, aborted>>

(* The action of the next file begins, or the signal is seen instead.      *)
Schedule ==
  /\ pc = "syncing" /\ closing = "no" /\ next <= Files
  /\ Cardinality(running) < Concurrency
  /\ IF aborted
     THEN closing' = "aborted" /\ UNCHANGED <<running, next>>
     ELSE running' = running \cup {next} /\ next' = next + 1 /\ UNCHANGED closing
  /\ UNCHANGED <<pc, given, localDir, direction, queue, errorCount, counts, done, aborted>>

ActionSucceeds(f) ==
  /\ f \in running
  /\ running' = running \ {f}
  /\ done' = IF plan[f] = "skip" \/ request.dryRun THEN done ELSE done \cup {f}
  /\ queue' = queue \cup {<<EventType(f), f>>}
  /\ UNCHANGED <<pc, given, localDir, direction, next, errorCount, closing, counts, aborted>>

(* Also what the signal makes of an action that runs.  The file may have   *)
(* changed all the same: B2 did what was asked, and the answer was lost or *)
(* the wait for it cut short.                                              *)
ActionFails(f) ==
  /\ f \in running /\ plan[f] # "skip"
  /\ running' = running \ {f}
  /\ done' \in {done, IF request.dryRun THEN done ELSE done \cup {f}}
  /\ errorCount' = errorCount + 1
  /\ queue' = queue \cup {<<"error", f>>}
  /\ UNCHANGED <<pc, given, localDir, direction, next, closing, counts, aborted>>

Drained == running = {} /\ queue = {}

(* At its end the generator yields one more error if there were any; after *)
(* the signal it may just end.                                             *)
Aggregate ==
  /\ pc = "syncing" /\ Drained /\ errorCount > 0
  /\ closing = "scanned" \/ (closing = "no" /\ next > Files)
  /\ queue' = {<<"error", 0>>} /\ closing' = "aggregated"
  /\ UNCHANGED <<pc, given, localDir, direction, next, running, errorCount, counts, done, aborted>>

GeneratorEnds ==
  /\ pc = "syncing" /\ Drained
  /\ \/ closing \in {"aborted", "aggregated"}
     \/ closing = "scanned" /\ aborted
     \/ closing = "no" /\ next > Files /\ (errorCount = 0 \/ aborted)
  /\ pc' = "report"
  /\ UNCHANGED <<given, localDir, direction, engine, counts, done, aborted>>

-----------------------------------------------------------------------------
(* processSyncEvent: the counter that an event adds to.                    *)
HideUncounted(type) ==
  CASE type = "upload-done" -> "uploaded"
    [] type = "download-done" -> "downloaded"
    [] type \in {"delete-remote", "delete-local"} -> "deleted"
    [] type = "error" -> "errors"
    [] OTHER -> "skipped"
ErrorSkipped(type) ==
  CASE type = "upload-done" -> "uploaded"
    [] type = "download-done" -> "downloaded"
    [] type \in {"delete-remote", "delete-local", "hide"} -> "deleted"
    [] OTHER -> "skipped"
CounterOf(type) ==
  CASE type = "upload-done" -> "uploaded"
    [] type = "download-done" -> "downloaded"
    [] type \in {"delete-remote", "delete-local", "hide"} -> "deleted"
    [] type = "skip" -> "skipped"
    [] type = "error" -> "errors"

ReceiveEvent ==
  \E e \in queue :
    /\ pc = "syncing"
    /\ queue' = queue \ {e} /\ events' = events \cup {e}
    /\ counters' = [counters EXCEPT ![CounterOf(e[1])] = @ + 1]
    /\ UNCHANGED <<pc, given, localDir, direction, next, running, errorCount, closing, done, aborted>>

(* main.ts: outputs, and the failure of a sync that counted errors.        *)
Report ==
  /\ pc = "report"
  /\ pc' = IF counters["errors"] > 0 THEN "failed" ELSE "succeeded"
  /\ UNCHANGED <<given, localDir, direction, engine, counts, done, aborted>>

Abort ==
  /\ ~aborted /\ pc \notin Ended
  /\ aborted' = TRUE
  /\ UNCHANGED <<pc, given, localDir, direction, engine, counts, done>>

Terminated == pc \in Ended /\ UNCHANGED vars

Command ==
  \/ ResolveDirection \/ BuildConfig \/ ScanFails \/ Schedule
  \/ (\E f \in 1 .. Files : ActionSucceeds(f) \/ ActionFails(f))
  \/ Aggregate \/ GeneratorEnds \/ ReceiveEvent \/ Report

Next == Command \/ DirectoryChanges \/ Abort \/ Terminated

Spec == Init /\ [][Next]_vars

-----------------------------------------------------------------------------
Received(types) == {f \in 1 .. Files : \E t \in types : <<t, f>> \in events}

(* Once the generator has ended the counters bound what happened.  Unless  *)
(* it was a dry run, every change that is counted was made, and every one  *)
(* made is counted or is that of a file with an error, which may have      *)
(* changed before its answer was lost.  A file is counted in one place.    *)
CountsAreTrue ==
  pc = "report" \/ (pc = "succeeded") =>
    LET changes == counters["uploaded"] + counters["downloaded"] + counters["deleted"] IN
    /\ ~request.dryRun =>
         /\ changes <= Cardinality(done)
         /\ Cardinality(done) <= changes + Cardinality(Received({"error"}))
    /\ counters["uploaded"] # 0 => direction = "local-to-b2"
    /\ counters["downloaded"] # 0 => direction = "b2-to-local"
    /\ counters["skipped"] = Cardinality(Received({"skip"}))
    /\ changes + counters["skipped"] + Cardinality(Received({"error"})) <= Files

(* A sync that succeeds has failed on no file; unless the signal came, it  *)
(* has dealt with every one.                                               *)
SuccessIsComplete ==
  pc = "succeeded" =>
    /\ errorCount = 0
    /\ aborted \/ \A f \in 1 .. Files : f \in done \cup Received({"skip"}) \/ request.dryRun

(* "Count of per-file errors", as SyncEventCounters says of `errors`.      *)
ErrorsArePerFile ==
  [][pc = "report" => counters["errors"] = Cardinality(Received({"error"}))]_vars
=============================================================================
