------------------------------- MODULE Upload -------------------------------
(***************************************************************************)
(* The upload verb (src/commands/upload.ts): the matched files are planned *)
(* and checked for key collisions, then a pool of workers sends them, a    *)
(* worker taking the next file when it is done with one.  JavaScript runs  *)
(* one callback at a time, so an action is the code from one await to the  *)
(* next; workers, B2's answers, the termination signal and writers of the  *)
(* local files interleave.  Positions of the file list count from 1.       *)
(***************************************************************************)
EXTENDS Naturals, FiniteSets

CONSTANTS
  MaxFiles,     (* bound: the most files a source matches *)
  Concurrency,  (* the `concurrency` input *)
  Parts,        (* bound: requests that one file takes *)
  Keys          (* the B2 file names a plan can end up with *)

ASSUME UploadAssumption ==
  /\ MaxFiles \in Nat \ {0}
  /\ Concurrency \in Nat \ {0}
  /\ Parts \in Nat \ {0}
  /\ Keys # {}

VARIABLES
  phase,       (* where uploadCommand is, or how its promise settled *)
  single,      (* isSingleExplicitFile *)
  count,       (* files.length *)
  key,         (* fileName of the plan at each position *)
  changed,     (* files whose length changed since resolveFiles read it *)
  aborted,     (* signal.aborted *)
  next,        (* mapWithConcurrency: the next position to hand out *)
  failed,      (* mapWithConcurrency: some mapper has rejected *)
  firstError,  (* mapWithConcurrency: the position whose error is thrown *)
  results,     (* mapWithConcurrency: positions whose result is filled in *)
  slot,        (* the position each worker awaits, 0 when it is not running *)
  task,        (* how far the mapper has got with each position *)
  left,        (* requests of each file that have yet to start *)
  requests,    (* requests in flight, as <<position, permit of its file>> *)
  stored       (* versions that this command made, as <<key, position>> *)

input == <<single, count, key>>
pool  == <<next, failed, firstError, results, slot, task>>
wire  == <<left, requests, stored>>
vars  == <<phase, input, changed, aborted, pool, wire>>

Positions == 1 .. MaxFiles
Workers   == 1 .. Concurrency
Permits   == 1 .. Concurrency

Settled == {"resolved", "rejected"}
(* A position a worker has taken and whose mapper has not settled.         *)
Taken   == {"uploading", "stored", "failing", "cancelled"}

FileConcurrency == IF single THEN 1 ELSE Concurrency

(* Every file its own budget. *)
PartConcurrencyUnsplit == Concurrency
PartConcurrency == IF single \/ count = 1 THEN Concurrency ELSE 1

WorkerCount == IF FileConcurrency < count THEN FileConcurrency ELSE count

-----------------------------------------------------------------------------
AnyKey == CHOOSE k \in Keys : TRUE

Init ==
  /\ phase = "resolve"
  /\ single = FALSE /\ count = 0
  /\ key = [i \in Positions |-> AnyKey]
  /\ changed = {}
  /\ aborted = FALSE
  /\ next = 1 /\ failed = FALSE /\ firstError = 0 /\ results = {}
  /\ slot = [w \in Workers |-> 0]
  /\ task = [i \in Positions |-> "todo"]
  /\ left = [i \in Positions |-> Parts]
  /\ requests = {} /\ stored = {}

(* resolveFiles: a plain file, or the files a glob matches with the size   *)
(* of each at this moment.  Files of different directories can end up with *)
(* one key.  No match is an error only under fail-on-empty.                *)
Resolve ==
  \E s, failOnEmpty \in BOOLEAN, n \in 0 .. MaxFiles, k \in [Positions -> Keys] :
    /\ phase = "resolve"
    /\ s => n = 1
    /\ single' = s /\ count' = n /\ key' = k
    /\ phase' = CASE n > 0       -> "plan"
                  [] failOnEmpty -> "rejected"
                  [] OTHER       -> "resolved"
    /\ UNCHANGED <<changed, aborted, pool, wire>>

(* findDuplicateUploadFileNames: keys that two files of the list own. *)
NoCollisions == {}
Collisions ==
  {k \in Keys : \E i, j \in 1 .. count : i # j /\ key[i] = k /\ key[j] = k}

(* The plans of all files, from their metadata; prepareUploadPlan waits    *)
(* for nothing, so no signal arrives between the check of it here and the  *)
(* first mapper's.  `valid` is what validateFileInfo makes of file-info.   *)
PlanRejects(valid) ==
  /\ phase = "plan"
  /\ aborted \/ ~valid \/ Collisions # {}
  /\ phase' = "rejected"
  /\ UNCHANGED <<input, changed, aborted, pool, wire>>

(* The second mapWithConcurrency call: each worker is called, and runs to  *)
(* its first await, before any of them can be resumed.                     *)
StartWorkers(valid) ==
  /\ phase = "plan"
  /\ ~aborted /\ valid /\ Collisions = {}
  /\ phase' = "upload"
  /\ slot' = [w \in Workers |-> IF w <= WorkerCount THEN w ELSE 0]
  /\ task' = [i \in Positions |-> IF i <= WorkerCount THEN "uploading" ELSE "todo"]
  /\ next' = WorkerCount + 1
  /\ UNCHANGED <<input, changed, aborted, failed, firstError, results, wire>>

-----------------------------------------------------------------------------
(* What the SDK and B2 do with one file.                                   *)

(* A request of file i leaves, on one of the permits that the SDK has for  *)
(* the file.                                                               *)
StartRequest(i, p) ==
  /\ task[i] = "uploading" /\ ~aborted
  /\ left[i] > 0
  /\ p <= PartConcurrency /\ <<i, p>> \notin requests
  /\ left' = [left EXCEPT ![i] = @ - 1]
  /\ requests' = requests \cup {<<i, p>>}
  /\ UNCHANGED <<phase, input, changed, aborted, pool, stored>>

EndRequest(i, p) ==
  /\ <<i, p>> \in requests
  /\ requests' = requests \ {<<i, p>>}
  /\ UNCHANGED <<phase, input, changed, aborted, pool, left, stored>>

(* All of the file is with B2, which makes it a version under the key of   *)
(* the plan.  The source was opened with the size that resolveFiles saw,   *)
(* and the SDK refuses a stream of another length.                         *)
Commit(i) ==
  /\ task[i] = "uploading"
  /\ left[i] = 0 /\ i \notin changed
  /\ \A p \in Permits : <<i, p>> \notin requests
  /\ stored' = stored \cup {<<key[i], i>>}
  /\ task' = [task EXCEPT ![i] = "stored"]
  /\ UNCHANGED <<phase, input, changed, aborted, next, failed, firstError, results,
                 slot, left, requests>>

(* The upload fails: B2 refuses, the network breaks, the length differs or *)
(* the signal ends it; requests in flight are dropped.  After Commit this  *)
(* is the loss of B2's last answer.                                        *)
FailUpload(i) ==
  /\ task[i] \in {"uploading", "stored"}
  /\ task' = [task EXCEPT ![i] = "failing"]
  /\ requests' = {r \in requests : r[1] # i}
  /\ UNCHANGED <<phase, input, changed, aborted, next, failed, firstError, results,
                 slot, left, stored>>

-----------------------------------------------------------------------------
(* mapWithConcurrency's workers.                                           *)

(* The loop's head goes on unless some mapper failed or the list is used   *)
(* up; `next` is read and advanced after the first of these tests.         *)
TakesThoughFailed == next <= count
TakesPastEnd == ~failed
Takes == ~failed /\ next <= count

(* The worker returns or takes a position and calls the mapper, which      *)
(* first looks at the signal; t is the tasks as the loop finds them.       *)
TakeNext(w, t) ==
  /\ next' = IF failed THEN next ELSE next + 1
  /\ slot' = [slot EXCEPT ![w] = IF Takes THEN next ELSE 0]
  /\ task' = IF Takes
             THEN [t EXCEPT ![next] = IF aborted THEN "cancelled" ELSE "uploading"]
             ELSE t

MapperReturnsAndStops(w) ==
  LET i == slot[w]
  IN  /\ i # 0 /\ task[i] = "stored"
      /\ results' = results \cup {i} /\ task' = [task EXCEPT ![i] = "ok"]
      /\ slot' = [slot EXCEPT ![w] = 0]
      /\ UNCHANGED <<phase, input, changed, aborted, next, failed, firstError, wire>>
MapperReturns(w) ==
  LET i == slot[w]
  IN  /\ i # 0 /\ task[i] = "stored"
      /\ results' = results \cup {i}
      /\ TakeNext(w, [task EXCEPT ![i] = "ok"])
      /\ UNCHANGED <<phase, input, changed, aborted, failed, firstError, wire>>

(* Only the first rejection is kept. *)
LastError(i) == i
FirstError(i) == IF failed THEN firstError ELSE i

MapperRejectsUnnoticed(w) ==
  LET i == slot[w]
  IN  /\ i # 0 /\ task[i] \in {"failing", "cancelled"}
      /\ TakeNext(w, [task EXCEPT ![i] = "err"])
      /\ UNCHANGED <<phase, input, changed, aborted, failed, firstError, results, wire>>
MapperRejects(w) ==
  LET i == slot[w]
  IN  /\ i # 0 /\ task[i] \in {"failing", "cancelled"}
      /\ task' = [task EXCEPT ![i] = "err"]
      /\ failed' = TRUE
      /\ firstError' = FirstError(i)
      /\ slot' = [slot EXCEPT ![w] = 0]
      /\ UNCHANGED <<phase, input, changed, aborted, next, results, wire>>

(* Promise.all has all workers; uploadCommand returns the list or throws   *)
(* firstError.                                                             *)
FirstErrorIsEnough == failed \/ \A w \in Workers : slot[w] = 0
AllMapped == \A i \in 1 .. count : task[i] \in {"ok", "err"}
AllReturned == \A w \in Workers : slot[w] = 0

Settle ==
  /\ phase = "upload" /\ AllReturned
  /\ phase' = IF failed THEN "rejected" ELSE "resolved"
  /\ UNCHANGED <<input, changed, aborted, pool, wire>>

-----------------------------------------------------------------------------
(* The surroundings. *)

(* SIGTERM or SIGINT: main.ts aborts the signal it gave to uploadCommand.  *)
Abort ==
  /\ ~aborted /\ phase \notin Settled
  /\ aborted' = TRUE
  /\ UNCHANGED <<phase, input, changed, pool, wire>>

(* Another step of the job rewrites a file that has yet to be read to its  *)
(* end.                                                                    *)
ChangeFile(i) ==
  /\ phase \in {"plan", "upload"} /\ i <= count
  /\ task[i] \in {"todo", "uploading"} /\ left[i] > 0
  /\ changed' = changed \cup {i}
  /\ UNCHANGED <<phase, input, aborted, pool, wire>>

Terminated == phase \in Settled /\ UNCHANGED vars

Sdk(i)    == \/ \E p \in Permits : StartRequest(i, p) \/ EndRequest(i, p)
             \/ Commit(i) \/ FailUpload(i)
Worker(w) == MapperReturns(w) \/ MapperRejects(w)
Main      == \/ Resolve \/ Settle
             \/ \E valid \in BOOLEAN : PlanRejects(valid) \/ StartWorkers(valid)

Next ==
  \/ Main
  \/ \E w \in Workers : Worker(w)
  \/ \E i \in Positions : Sdk(i) \/ ChangeFile(i)
  \/ Abort
  \/ Terminated

Spec == Init /\ [][Next]_vars

(* The event loop resumes whatever is ready, and the SDK bounds every      *)
(* request by a timeout: it answers or fails.  Signals and file writers    *)
(* are under no obligation.                                                *)
Fairness ==
  /\ WF_vars(Main)
  /\ \A w \in Workers : WF_vars(Worker(w))
  /\ \A i \in Positions : WF_vars(Sdk(i))

FairSpec == Spec /\ Fairness

-----------------------------------------------------------------------------
TypeOK ==
  /\ phase \in {"resolve", "plan", "upload"} \cup Settled
  /\ single \in BOOLEAN /\ count \in 0 .. MaxFiles /\ key \in [Positions -> Keys]
  /\ changed \subseteq Positions
  /\ aborted \in BOOLEAN
  /\ next \in Nat /\ failed \in BOOLEAN
  /\ firstError \in 0 .. MaxFiles
  /\ results \subseteq Positions
  /\ slot \in [Workers -> 0 .. MaxFiles]
  /\ task \in [Positions -> {"todo", "ok", "err"} \cup Taken]
  /\ left \in [Positions -> 0 .. Parts]
  /\ requests \subseteq Positions \X Permits
  /\ stored \subseteq Keys \X Positions

(* The concurrency input bounds the B2 requests in flight over all files,  *)
(* whether it is spent on files or on the parts of one (upload.ts:78).     *)
InFlightBound == Cardinality(requests) <= Concurrency

(* A command that succeeds reports every matched file, and each is in the  *)
(* bucket under its planned key: no failure, abort or skipped position is  *)
(* lost between the workers.                                               *)
ResolvedMeansAllStored ==
  phase = "resolved" => /\ results = 1 .. count
                        /\ \A i \in 1 .. count : <<key[i], i>> \in stored

(* Once uploadCommand has settled nothing of it is still running: main.ts  *)
(* writes outputs and ends, and a request left behind would go on storing. *)
SettledIsQuiet ==
  phase \in Settled =>
    /\ requests = {}
    /\ \A i \in Positions : task[i] \notin Taken

(* Two local files never end up as versions of one key, however the pool   *)
(* orders them.                                                            *)
OneFilePerKey ==
  \A i, j \in Positions, k \in Keys :
    <<k, i>> \in stored /\ <<k, j>> \in stored => i = j

(* As long as nothing failed and files remain, every worker has one.       *)
NoIdleWorker ==
  phase = "upload" /\ ~failed /\ next <= count =>
    \A w \in 1 .. WorkerCount : slot[w] # 0

(* After the first failure, or the signal, no further file is begun.       *)
BeginsFile(i) == task[i] = "todo" /\ task'[i] = "uploading"
NoStartAfterStop ==
  [][failed \/ aborted => \A i \in Positions : ~BeginsFile(i)]_vars

(* uploadCommand settles, whatever fails and whenever the signal comes.    *)
Settles == <>(phase \in Settled)

(* The upload phase keeps mapWithConcurrency's promise.                    *)
Started == next > 1
MapStatus == [i \in Positions |->
  CASE ~Started \/ i > count -> "absent"
    [] task[i] \in Taken     -> "running"
    [] OTHER                 -> task[i]]
MapOutcome ==
  CASE Started /\ phase = "resolved" -> "value"
    [] Started /\ phase = "rejected" -> "error"
    [] OTHER                         -> "pending"
Map == INSTANCE ConcurrentMap WITH
  Limit <- Concurrency, status <- MapStatus, cause <- firstError, outcome <- MapOutcome
ImplementsMap == Map!Spec
=============================================================================
