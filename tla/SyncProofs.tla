----------------------------- MODULE SyncProofs -----------------------------
(* Proofs about `sync`, for any number of files and any concurrency.       *)
EXTENDS Sync, FiniteSetTheorems, TLAPS

EventTypes == {"upload-done", "download-done", "delete-remote", "delete-local",
               "hide", "skip", "error"}

Types ==
  /\ pc \in {"start", "config", "syncing", "report"} \cup Ended
  /\ request \in [direction : {"up", "down", "auto"}, tilde : BOOLEAN, dryRun : BOOLEAN]
  /\ plan \in [1 .. Files -> {"transfer", "remove", "hide", "skip"}]
  /\ direction \in {"none", "local-to-b2", "b2-to-local"}
  /\ localDir \in BOOLEAN /\ aborted \in BOOLEAN
  /\ next \in 1 .. Files + 1
  /\ running \subseteq 1 .. Files
  /\ queue \subseteq EventTypes \X (0 .. Files)
  /\ events \subseteq EventTypes \X (0 .. Files)
  /\ errorCount \in Nat
  /\ closing \in {"no", "scanned", "aborted", "aggregated"}
  /\ counters \in [Counters -> Nat]
  /\ done \subseteq 1 .. Files

(* Events that the SDK has made, whether or not the command has them.      *)
Made == queue \cup events

(* Before the transfer begins nothing has happened, and there is a         *)
(* direction as soon as it has.                                            *)
Stages ==
  /\ pc \in {"start", "config"} =>
       /\ next = 1 /\ running = {} /\ Made = {} /\ errorCount = 0
       /\ closing = "no" /\ done = {}
  /\ pc \notin {"start", "failed"} => direction # "none"
  /\ pc \in {"report", "succeeded"} =>
       /\ Drained
       /\ closing # "no" \/ next > Files
  /\ pc = "succeeded" => counters["errors"] = 0
  /\ closing = "aborted" => aborted
  /\ closing \in {"scanned", "aggregated"} => errorCount > 0

(* A file has one event at the most, none while its action runs, and one   *)
(* when it was scheduled and does not run; the aggregate comes once.       *)
OneEvent ==
  /\ queue \cap events = {}
  /\ \A d, e \in Made : d[2] = e[2] => d = e
  /\ \A e \in Made : e[2] \notin running
  /\ \A f \in running : f < next
  /\ \A e \in Made :
       \/ e[2] \in 1 .. Files /\ e[2] < next
       \/ e[1] = "error" /\ e[2] # 0 /\ next = 1 /\ closing \in {"scanned", "aggregated"}
       \/ e = <<"error", 0>> /\ closing = "aggregated"
  /\ \A f \in 1 .. Files : f < next => f \in running \/ \E e \in Made : e[2] = f

(* An event says what became of its file.                                  *)
Truthful ==
  /\ \A e \in Made : \/ e[1] = "error"
                     \/ e[2] \in 1 .. Files /\ e[1] = EventType(e[2])
  /\ \A f \in done : /\ plan[f] # "skip" /\ ~request.dryRun
                     /\ <<EventType(f), f>> \in Made \/ <<"error", f>> \in Made
  /\ \A e \in Made : e[1] # "error" /\ plan[e[2]] # "skip" /\ ~request.dryRun => e[2] \in done
  /\ errorCount = 0 <=> \A e \in Made : e[1] # "error"

(* A counter is the number of files whose event was received and counted   *)
(* there; the aggregate is an error too, so errors are only told from none. *)
FilesOf(c) == {f \in 1 .. Files : \E e \in events : e[2] = f /\ CounterOf(e[1]) = c}
Counted ==
  /\ \A c \in Counters \ {"errors"} : counters[c] = Cardinality(FilesOf(c))
  /\ counters["errors"] = 0 <=> \A e \in events : e[1] # "error"

IInv == Types /\ Stages /\ OneEvent /\ Truthful /\ Counted

-----------------------------------------------------------------------------
(* What processSyncEvent makes of each type of event.                      *)
LEMMA CounterOfTypes ==
  /\ CounterOf("upload-done") = "uploaded" /\ CounterOf("download-done") = "downloaded"
  /\ CounterOf("delete-remote") = "deleted" /\ CounterOf("delete-local") = "deleted"
  /\ CounterOf("hide") = "deleted" /\ CounterOf("skip") = "skipped"
  /\ CounterOf("error") = "errors"
  BY DEF CounterOf

LEMMA CounterOfAny ==
  ASSUME NEW t \in EventTypes
  PROVE  /\ CounterOf(t) \in Counters
         /\ CounterOf(t) = "errors" <=> t = "error"
         /\ CounterOf(t) = "skipped" <=> t = "skip"
  BY CounterOfTypes DEF EventTypes, Counters

(* The event of a file whose action succeeds.                              *)
LEMMA EventTypeOfFile ==
  ASSUME Types, NEW f \in 1 .. Files
  PROVE  /\ EventType(f) \in EventTypes \ {"error"}
         /\ EventType(f) = "skip" <=> plan[f] = "skip"
         /\ EventType(f) = "upload-done" => direction = "local-to-b2"
         /\ EventType(f) = "download-done" => direction # "local-to-b2"
<1>1. plan[f] \in {"transfer", "remove", "hide", "skip"}
  BY DEF Types
<1>2. CASE plan[f] = "skip"
  BY <1>2 DEF EventType, EventTypes
<1>3. CASE plan[f] = "transfer"
  BY <1>3 DEF EventType, EventTypes
<1>4. CASE plan[f] = "hide" /\ direction = "local-to-b2"
  BY <1>4 DEF EventType, EventTypes
<1>5. CASE plan[f] = "remove" \/ (plan[f] = "hide" /\ direction # "local-to-b2")
  <2>1. EventType(f) = IF direction = "local-to-b2" THEN "delete-remote" ELSE "delete-local"
    BY <1>5 DEF EventType
  <2> QED BY <2>1, <1>5 DEF EventTypes
<1> QED BY <1>1, <1>2, <1>3, <1>4, <1>5

(* The initial state has nothing to count.                                 *)
LEMMA InitInv == Init => IInv
<1> SUFFICES ASSUME Init PROVE IInv
  OBVIOUS
<1>1. Types
  <2>1. next \in 1 .. Files + 1 /\ counters \in [Counters -> Nat]
    BY SyncAssumption DEF Init
  <2> QED BY <2>1 DEF Init, Types, Ended
<1>2. Stages /\ OneEvent /\ Truthful
  BY DEF Init, Stages, OneEvent, Truthful, Made, Ended, EventTypes
<1>3. Counted
  <2>1. \A c \in Counters : FilesOf(c) = {} /\ counters[c] = 0
    BY DEF Init, FilesOf
  <2> QED BY <2>1, FS_EmptySet DEF Init, Counted, Counters
<1> QED BY <1>1, <1>2, <1>3 DEF IInv

(* The command settles the direction and the folders.                      *)
LEMMA InvSetup ==
  ASSUME IInv, ResolveDirection \/ BuildConfig \/ DirectoryChanges
  PROVE  IInv'
<1>1. /\ pc \in {"start", "config"}
      /\ UNCHANGED <<given, engine, counts, done, aborted>>
      /\ pc' \in {"start", "config", "syncing", "failed"}
      /\ localDir' \in BOOLEAN
      /\ direction' \in {"none", "local-to-b2", "b2-to-local"}
      /\ pc' \notin {"start", "failed"} => direction' # "none"
  BY DEF ResolveDirection, BuildConfig, DirectoryChanges, IInv, Types, Stages
<1>2. Made = {} /\ Made' = {} /\ running = {} /\ done = {} /\ events' = events
  BY <1>1 DEF IInv, Stages, Made, engine, counts
<1>3. Types' /\ Stages'
  BY <1>1, <1>2 DEF IInv, Types, Stages, Drained, given, engine, counts, Ended
<1>4. OneEvent' /\ Truthful'
  BY <1>1, <1>2 DEF IInv, OneEvent, Truthful, Stages, given, engine, counts, Made
<1>5. Counted'
  BY <1>1, <1>2 DEF IInv, Counted, FilesOf, counts
<1> QED BY <1>3, <1>4, <1>5 DEF IInv

(* A failed scan is the error of one file.                                 *)
LEMMA InvScanFails ==
  ASSUME IInv, ScanFails
  PROVE  IInv'
<1>1. /\ pc = "syncing" /\ next = 1 /\ closing = "no" /\ running = {} /\ queue = {}
      /\ UNCHANGED <<request, plan, localDir, direction, next, running, events, counters,
                     done, aborted>>
  BY DEF ScanFails, given, counts
<1>2. Made = {} /\ events = {}
  BY <1>1 DEF IInv, OneEvent, Types, Made
<1>3. done = {}
  BY <1>2 DEF IInv, Truthful
<1>4. Counted'
  BY <1>1 DEF IInv, Counted, FilesOf
<1>5. CASE pc' = "failed" /\ UNCHANGED <<errorCount, queue, closing>>
  BY <1>1, <1>4, <1>5 DEF IInv, Types, Stages, OneEvent, Truthful, Made, Ended, EventType
<1>6. ASSUME NEW f \in 1 .. Files, errorCount' = errorCount + 1, queue' = {<<"error", f>>},
             closing' = "scanned", pc' = pc
      PROVE  IInv'
  <2>1. Made' = {<<"error", f>>}
    BY <1>1, <1>2, <1>6 DEF Made
  <2>2. Types' /\ Stages'
    BY <1>1, <1>6 DEF IInv, Types, Stages, Ended, EventTypes
  <2>3. OneEvent'
    BY <2>1, <1>1, <1>2, <1>6, SyncAssumption DEF OneEvent
  <2>4. Truthful'
    BY <2>1, <1>1, <1>3, <1>6 DEF Truthful, IInv, Types
  <2> QED BY <1>4, <2>2, <2>3, <2>4 DEF IInv
<1> QED BY <1>5, <1>6 DEF ScanFails

(* The action of the next file begins, or the signal closes the loop.      *)
LEMMA InvSchedule ==
  ASSUME IInv, Schedule
  PROVE  IInv'
<1>1. /\ pc = "syncing" /\ closing = "no" /\ next <= Files /\ next \in 1 .. Files
      /\ UNCHANGED <<pc, request, plan, localDir, direction, queue, errorCount, events,
                     counters, done, aborted>>
  BY SyncAssumption DEF Schedule, given, counts, IInv, Types
<1>2. Made' = Made /\ \A f \in 1 .. Files : EventType(f)' = EventType(f)
  BY <1>1 DEF Made, EventType
<1>3. Counted'
  BY <1>1 DEF IInv, Counted, FilesOf
<1>4. Truthful'
  BY <1>1, <1>2 DEF IInv, Truthful, Types
<1>5. Types' /\ Stages'
  <2>1. /\ next' \in 1 .. Files + 1 /\ running' \subseteq 1 .. Files
        /\ closing' \in {"no", "aborted"} /\ (closing' = "aborted" => aborted)
    <3>1. next \in 1 .. Files + 1 /\ next + 1 \in 1 .. Files + 1 /\ running \subseteq 1 .. Files
      BY <1>1, SyncAssumption DEF IInv, Types
    <3>2. CASE aborted
      BY <3>1, <3>2, <1>1 DEF Schedule
    <3>3. CASE ~aborted
      BY <3>1, <3>3, <1>1 DEF Schedule
    <3> QED BY <3>2, <3>3
  <2> QED BY <2>1, <1>1 DEF IInv, Types, Stages, Ended
<1>6. OneEvent'
  <2>1. CASE aborted
    BY <2>1, <1>1, <1>2 DEF Schedule, IInv, OneEvent
  <2>2. CASE ~aborted
    <3>1. running' = running \cup {next} /\ next' = next + 1 /\ closing' = closing
      BY <2>2 DEF Schedule
    <3>2. /\ \A e \in Made : e[2] # next /\ e[2] \in 1 .. Files /\ e[2] < next
          /\ \A f \in running : f < next
      <4>1. \A e \in Made : e[2] \in 1 .. Files /\ e[2] < next
        BY <1>1 DEF IInv, OneEvent
      <4>2. \A f \in running : f < next
        BY DEF IInv, OneEvent
      <4> QED BY <4>1, <4>2, <1>1
    <3>3. \A f \in running' : f < next'
      BY <3>1, <3>2, <1>1 DEF IInv, Types
    <3>4. \A e \in Made : e[2] \notin running' /\ e[2] < next'
      BY <3>1, <3>2, <1>1 DEF IInv, OneEvent
    <3>5. \A f \in 1 .. Files : f < next' => f \in running' \/ \E e \in Made : e[2] = f
      BY <3>1, <1>1 DEF IInv, OneEvent
    <3> QED BY <3>2, <3>3, <3>4, <3>5, <1>1, <1>2 DEF IInv, OneEvent
  <2> QED BY <2>1, <2>2
<1> QED BY <1>3, <1>4, <1>5, <1>6 DEF IInv

(* The action of a file ends with its event, that it worked or did not.    *)
LEMMA InvActionEnds ==
  ASSUME IInv, NEW f \in 1 .. Files, ActionSucceeds(f) \/ ActionFails(f)
  PROVE  IInv'
<1> DEFINE t == IF ActionSucceeds(f) THEN EventType(f) ELSE "error"
<1>1. /\ f \in running /\ running' = running \ {f} /\ queue' = queue \cup {<<t, f>>}
      /\ UNCHANGED <<pc, request, plan, localDir, direction, next, closing, events,
                     counters, aborted>>
  BY DEF ActionSucceeds, ActionFails, given, counts
<1>2. /\ t \in EventTypes /\ t \in {"error", EventType(f)}
      /\ \A g \in 1 .. Files : EventType(g)' = EventType(g)
  BY <1>1, EventTypeOfFile DEF IInv, EventTypes, EventType
<1>3. /\ t = "error" => errorCount' = errorCount + 1
      /\ t # "error" => errorCount' = errorCount
      /\ done' = done \/ (done' = done \cup {f} /\ plan[f] # "skip" /\ ~request.dryRun)
      /\ t # "error" /\ plan[f] # "skip" /\ ~request.dryRun => f \in done'
  BY EventTypeOfFile DEF ActionSucceeds, ActionFails, IInv
<1>4. Made' = Made \cup {<<t, f>>} /\ \A e \in Made : e[2] # f
  BY <1>1 DEF Made, IInv, OneEvent
<1> HIDE DEF t
<1>5. Types'
  <2>1. /\ running' \subseteq 1 .. Files /\ queue' \subseteq EventTypes \X (0 .. Files)
        /\ errorCount' \in Nat /\ done' \subseteq 1 .. Files
    <3>1. running' \subseteq 1 .. Files /\ queue' \subseteq EventTypes \X (0 .. Files)
      <4>1. <<t, f>> \in EventTypes \X (0 .. Files)
        BY <1>2, SyncAssumption
      <4>2. running \subseteq 1 .. Files /\ queue \subseteq EventTypes \X (0 .. Files)
        BY DEF IInv, Types
      <4> QED BY <1>1, <4>1, <4>2
    <3>2. errorCount' \in Nat
      BY <1>3 DEF IInv, Types
    <3>3. done' \subseteq 1 .. Files
      BY <1>3 DEF IInv, Types
    <3> QED BY <3>1, <3>2, <3>3
  <2> QED BY <2>1, <1>1 DEF IInv, Types
<1>6. Stages'
  <2>1. pc \notin {"start", "config", "report", "succeeded"}
    BY <1>1 DEF IInv, Stages, Drained
  <2>2. errorCount > 0 => errorCount' > 0
    BY <1>3 DEF IInv, Types
  <2> QED BY <2>1, <2>2, <1>1 DEF IInv, Stages
<1>7. OneEvent'
  <2>1. queue' \cap events' = {}
    BY <1>1, <1>4 DEF IInv, OneEvent, Made
  <2>2. \A d, e \in Made' : d[2] = e[2] => d = e
    BY <1>4 DEF IInv, OneEvent
  <2>3. \A e \in Made' : e[2] \notin running'
    BY <1>1, <1>4 DEF IInv, OneEvent
  <2>4. \A g \in running' : g < next'
    BY <1>1 DEF IInv, OneEvent
  <2>5. \A e \in Made' :
          \/ e[2] \in 1 .. Files /\ e[2] < next'
          \/ e[1] = "error" /\ e[2] # 0 /\ next' = 1 /\ closing' \in {"scanned", "aggregated"}
          \/ e = <<"error", 0>> /\ closing' = "aggregated"
    <3>1. f < next
      BY <1>1 DEF IInv, OneEvent
    <3> QED BY <3>1, <1>1, <1>4 DEF IInv, OneEvent
  <2>6. ASSUME NEW g \in 1 .. Files, g < next'
        PROVE  g \in running' \/ \E e \in Made' : e[2] = g
    <3>1. CASE g = f
      <4>1. <<t, f>> \in Made' /\ <<t, f>>[2] = g
        BY <3>1, <1>4
      <4> QED BY <4>1
    <3>2. CASE g # f
      BY <2>6, <3>2, <1>1, <1>4 DEF IInv, OneEvent
    <3> QED BY <3>1, <3>2
  <2> QED BY <2>1, <2>2, <2>3, <2>4, <2>5, <2>6 DEF OneEvent
<1>8. Truthful'
  <2>0. \A e \in Made : e[2] \in 0 .. Files
    BY DEF IInv, Types, Made
  <2>1. \A e \in Made' : e[1] = "error" \/ (e[2] \in 1 .. Files /\ e[1] = EventType(e[2])')
    BY <1>1, <1>2, <1>4 DEF IInv, Truthful
  <2>2. \A g \in done' : /\ plan'[g] # "skip" /\ ~request'.dryRun
                         /\ <<EventType(g)', g>> \in Made' \/ <<"error", g>> \in Made'
    BY <1>1, <1>2, <1>3, <1>4 DEF IInv, Truthful, Types
  <2>3. \A e \in Made' : e[1] # "error" /\ plan'[e[2]] # "skip" /\ ~request'.dryRun
                            => e[2] \in done'
    BY <1>1, <1>3, <1>4 DEF IInv, Truthful
  <2>4. errorCount' = 0 <=> \A e \in Made' : e[1] # "error"
    <3>1. errorCount \in Nat /\ (errorCount = 0 <=> \A e \in Made : e[1] # "error")
      BY DEF IInv, Types, Truthful
    <3>2. CASE t = "error"
      <4>1. errorCount' # 0
        BY <3>1, <3>2, <1>3
      <4>2. <<t, f>> \in Made' /\ <<t, f>>[1] = "error"
        BY <3>2, <1>4
      <4> QED BY <4>1, <4>2
    <3>3. CASE t # "error"
      BY <3>1, <3>3, <1>3, <1>4
    <3> QED BY <3>2, <3>3
  <2> QED BY <2>1, <2>2, <2>3, <2>4 DEF Truthful
<1>9. Counted'
  BY <1>1 DEF IInv, Counted, FilesOf
<1> QED BY <1>5, <1>6, <1>7, <1>8, <1>9 DEF IInv

(* The aggregate is one more error, after the errors it sums up.           *)
LEMMA InvAggregate ==
  ASSUME IInv, Aggregate
  PROVE  IInv'
<1>1. /\ pc = "syncing" /\ running = {} /\ queue = {} /\ errorCount > 0
      /\ closing \in {"scanned", "no"} /\ (closing = "no" => next > Files)
      /\ queue' = {<<"error", 0>>} /\ closing' = "aggregated"
      /\ UNCHANGED <<pc, request, plan, localDir, direction, next, running, errorCount,
                     events, counters, done, aborted>>
  BY DEF Aggregate, Drained, given, counts
<1>2. /\ Made' = Made \cup {<<"error", 0>>} /\ Made = events
      /\ \A f \in 1 .. Files : EventType(f)' = EventType(f)
  BY <1>1 DEF Made, EventType
<1>3. \A e \in Made : e[2] # 0
  BY <1>1, SyncAssumption DEF IInv, OneEvent
<1>4. Types' /\ Stages'
  BY <1>1, SyncAssumption DEF IInv, Types, Stages, EventTypes, Ended
<1>5. OneEvent'
  <2>1. \A d, e \in Made' : d[2] = e[2] => d = e
    BY <1>2, <1>3 DEF IInv, OneEvent
  <2>2. queue' \cap events' = {}
    BY <1>1, <1>2, <1>3
  <2>3. \A e \in Made' :
          \/ e[2] \in 1 .. Files /\ e[2] < next'
          \/ e[1] = "error" /\ e[2] # 0 /\ next' = 1 /\ closing' \in {"scanned", "aggregated"}
          \/ e = <<"error", 0>> /\ closing' = "aggregated"
    BY <1>1, <1>2 DEF IInv, OneEvent
  <2>4. \A f \in 1 .. Files : f < next' => f \in running' \/ \E e \in Made' : e[2] = f
    BY <1>1, <1>2 DEF IInv, OneEvent
  <2> QED BY <2>1, <2>2, <2>3, <2>4, <1>1 DEF OneEvent
<1>6. Truthful'
  <2>1. \A e \in Made' : e[1] = "error" \/ (e[2] \in 1 .. Files /\ e[1] = EventType(e[2])')
    BY <1>2 DEF IInv, Truthful
  <2>2. errorCount' = 0 <=> \A e \in Made' : e[1] # "error"
    <3>1. <<"error", 0>> \in Made' /\ <<"error", 0>>[1] = "error"
      BY <1>2
    <3>2. errorCount' # 0
      BY <1>1 DEF IInv, Types
    <3> QED BY <3>1, <3>2
  <2>3. \A f \in done' : /\ plan'[f] # "skip" /\ ~request'.dryRun
                         /\ <<EventType(f)', f>> \in Made' \/ <<"error", f>> \in Made'
    BY <1>1, <1>2 DEF IInv, Truthful, Types
  <2>4. \A e \in Made' : e[1] # "error" /\ plan'[e[2]] # "skip" /\ ~request'.dryRun
                            => e[2] \in done'
    BY <1>1, <1>2 DEF IInv, Truthful
  <2> QED BY <2>1, <2>2, <2>3, <2>4 DEF Truthful
<1>7. Counted'
  BY <1>1 DEF IInv, Counted, FilesOf
<1> QED BY <1>4, <1>5, <1>6, <1>7 DEF IInv

(* The command counts an event at its file, which had none before.         *)
LEMMA InvReceive ==
  ASSUME IInv, ReceiveEvent
  PROVE  IInv'
<1>1. PICK e \in queue :
        /\ pc = "syncing" /\ queue' = queue \ {e} /\ events' = events \cup {e}
        /\ counters' = [counters EXCEPT ![CounterOf(e[1])] = @ + 1]
        /\ UNCHANGED <<pc, request, plan, localDir, direction, next, running, errorCount,
                       closing, done, aborted>>
  BY DEF ReceiveEvent, given
<1>2. Made' = Made /\ \A f \in 1 .. Files : EventType(f)' = EventType(f)
  BY <1>1 DEF Made, EventType
<1>3. /\ e = <<e[1], e[2]>> /\ e[1] \in EventTypes /\ e[2] \in 0 .. Files
      /\ e \in Made /\ e \notin events
  BY <1>1 DEF IInv, Types, Made, OneEvent
<1>c. CounterOf(e[1]) \in Counters /\ (CounterOf(e[1]) = "errors" <=> e[1] = "error")
  BY <1>3, CounterOfAny
<1>4. \A d \in events : d[2] # e[2]
  BY <1>3 DEF IInv, OneEvent, Made
<1>5. Types'
  <2>1. counters' \in [Counters -> Nat]
    BY <1>1, <1>c DEF IInv, Types
  <2>2. queue' \subseteq EventTypes \X (0 .. Files) /\ events' \subseteq EventTypes \X (0 .. Files)
    BY <1>1 DEF IInv, Types
  <2> QED BY <2>1, <2>2, <1>1 DEF IInv, Types
<1>6. Stages'
  BY <1>1 DEF IInv, Stages, Ended
<1>7. OneEvent'
  <2>1. queue' \cap events' = {}
    BY <1>1 DEF IInv, OneEvent
  <2> QED BY <2>1, <1>1, <1>2 DEF IInv, OneEvent
<1>8. Truthful'
  BY <1>1, <1>2 DEF IInv, Truthful, Types
<1>9. Counted'
  <2>1. ASSUME NEW c \in Counters \ {"errors"}
        PROVE  counters'[c] = Cardinality(FilesOf(c)')
    <3>1. IsFiniteSet(FilesOf(c)) /\ Cardinality(FilesOf(c)) \in Nat
      <4>1. FilesOf(c) \subseteq 1 .. Files /\ IsFiniteSet(1 .. Files)
        BY FS_Interval, SyncAssumption DEF FilesOf
      <4> QED BY <4>1, FS_Subset, FS_CardinalityType
    <3>2. counters[c] = Cardinality(FilesOf(c))
      BY <2>1 DEF IInv, Counted
    <3>3. CASE CounterOf(e[1]) = c
      <4>1. e[1] # "error" /\ e[2] \in 1 .. Files
        BY <3>3, <1>c, <1>3 DEF IInv, Truthful
      <4>2. FilesOf(c)' = FilesOf(c) \cup {e[2]} /\ e[2] \notin FilesOf(c)
        BY <4>1, <3>3, <1>1, <1>4 DEF FilesOf
      <4>3. Cardinality(FilesOf(c)') = Cardinality(FilesOf(c)) + 1
        BY <4>2, <3>1, FS_AddElement
      <4>4. counters'[c] = counters[c] + 1
        BY <3>3, <1>1, <2>1 DEF IInv, Types
      <4> QED BY <4>3, <4>4, <3>2
    <3>4. CASE CounterOf(e[1]) # c
      <4>1. FilesOf(c)' = FilesOf(c)
        BY <3>4, <1>1 DEF FilesOf
      <4>2. counters'[c] = counters[c]
        BY <3>4, <1>1, <2>1 DEF IInv, Types
      <4> QED BY <4>1, <4>2, <3>2
    <3> QED BY <3>3, <3>4
  <2>2. counters'["errors"] = 0 <=> \A d \in events' : d[1] # "error"
    <3>1. "errors" \in Counters /\ counters \in [Counters -> Nat]
      BY DEF IInv, Types, Counters
    <3>2. CASE e[1] = "error"
      BY <3>1, <3>2, <1>1, <1>c
    <3>3. CASE e[1] # "error"
      BY <3>1, <3>3, <1>1, <1>c DEF IInv, Counted
    <3> QED BY <3>2, <3>3
  <2> QED BY <2>1, <2>2 DEF Counted
<1> QED BY <1>5, <1>6, <1>7, <1>8, <1>9 DEF IInv

(* The generator ends, the command reports, and the signal comes.          *)
LEMMA InvEnds ==
  ASSUME IInv, GeneratorEnds \/ Report \/ Abort \/ Terminated \/ UNCHANGED vars
  PROVE  IInv'
<1>1. UNCHANGED <<request, plan, localDir, direction, engine, counts, done>>
  BY DEF GeneratorEnds, Report, Abort, Terminated, vars, given
<1>2. Made' = Made /\ \A f \in 1 .. Files : EventType(f)' = EventType(f)
  BY <1>1 DEF Made, EventType, engine, counts
<1>3. Types' /\ Stages'
  <2>1. CASE GeneratorEnds
    BY <2>1, <1>1 DEF GeneratorEnds, IInv, Types, Stages, Drained, engine, counts, Ended, Made
  <2>2. CASE Report
    <3>1. counters["errors"] \in Nat /\ direction' = direction
      BY <1>1 DEF IInv, Types, Counters
    <3> QED BY <2>2, <3>1, <1>1 DEF Report, IInv, Types, Stages, Drained, engine, counts,
                                    Ended, Made
  <2>3. CASE Abort
    BY <2>3, <1>1 DEF Abort, given, IInv, Types, Stages, Drained, engine, counts, Made
  <2>4. CASE UNCHANGED vars
    BY <2>4, <1>1 DEF vars, given, IInv, Types, Stages, Drained, engine, counts, Made
  <2> QED BY <2>1, <2>2, <2>3, <2>4 DEF Terminated
<1>4. OneEvent' /\ Truthful'
  BY <1>1, <1>2 DEF IInv, OneEvent, Truthful, engine, counts, Types
<1>5. Counted'
  BY <1>1 DEF IInv, Counted, FilesOf, counts
<1> QED BY <1>3, <1>4, <1>5 DEF IInv

(* The bookkeeping of events, counters and files holds in every reachable   *)
(* state, however the batches overlap and whenever the signal comes.       *)
THEOREM Invariance == Spec => []IInv
<1>1. IInv /\ [Next]_vars => IInv'
  BY InvSetup, InvScanFails, InvSchedule, InvActionEnds, InvAggregate, InvReceive, InvEnds
     DEF Next, Command
<1> QED BY InitInv, <1>1, PTL DEF Spec

-----------------------------------------------------------------------------
(* Once the generator has ended every event was received.                  *)
Over == pc \in {"report", "succeeded"}

(* The cardinality of a disjoint union.                                    *)
LEMMA DisjointUnion ==
  ASSUME NEW S, NEW T, IsFiniteSet(S), IsFiniteSet(T), S \cap T = {}
  PROVE  IsFiniteSet(S \cup T) /\ Cardinality(S \cup T) = Cardinality(S) + Cardinality(T)
<1>1. Cardinality(S \cap T) = 0
  BY FS_EmptySet
<1>2. Cardinality(S) \in Nat /\ Cardinality(T) \in Nat
  BY FS_CardinalityType
<1>3. /\ IsFiniteSet(S \cup T)
      /\ Cardinality(S \cup T) = Cardinality(S) + Cardinality(T) - Cardinality(S \cap T)
  BY FS_Union
<1> QED BY <1>1, <1>2, <1>3

(* A file is counted in one place only.                                    *)
LEMMA CountedOnce ==
  ASSUME IInv
  PROVE  /\ \A c \in Counters : /\ FilesOf(c) \subseteq 1 .. Files
                               /\ IsFiniteSet(FilesOf(c))
                               /\ Cardinality(FilesOf(c)) \in Nat
         /\ \A c, d \in Counters : c # d => FilesOf(c) \cap FilesOf(d) = {}
         /\ Received({"skip"}) = FilesOf("skipped")
         /\ Received({"error"}) = FilesOf("errors")
<1>1. \A e \in events : e = <<e[1], e[2]>> /\ e[1] \in EventTypes
  BY DEF IInv, Types
<1>2. ASSUME NEW c \in Counters
      PROVE  /\ FilesOf(c) \subseteq 1 .. Files /\ IsFiniteSet(FilesOf(c))
             /\ Cardinality(FilesOf(c)) \in Nat
  <2>1. FilesOf(c) \subseteq 1 .. Files /\ IsFiniteSet(1 .. Files)
    BY FS_Interval, SyncAssumption DEF FilesOf
  <2> QED BY <2>1, FS_Subset, FS_CardinalityType
<1>3. ASSUME NEW c \in Counters, NEW d \in Counters, c # d, NEW f \in FilesOf(c) \cap FilesOf(d)
      PROVE  FALSE
  <2>1. PICK e \in events : e[2] = f /\ CounterOf(e[1]) = c
    BY <1>3 DEF FilesOf
  <2>2. PICK g \in events : g[2] = f /\ CounterOf(g[1]) = d
    BY <1>3 DEF FilesOf
  <2>3. e = g
    BY <2>1, <2>2 DEF IInv, OneEvent, Made
  <2> QED BY <1>3, <2>1, <2>2, <2>3
<1>4. ASSUME NEW t \in {"skip", "error"}, NEW c, t = "skip" => c = "skipped",
             t = "error" => c = "errors"
      PROVE  Received({t}) = FilesOf(c)
  <2>1. \A e \in events : CounterOf(e[1]) = c <=> e[1] = t
    BY <1>1, <1>4, CounterOfAny
  <2>2. \A f \in 1 .. Files : (\E u \in {t} : <<u, f>> \in events)
                              <=> \E e \in events : e[2] = f /\ CounterOf(e[1]) = c
    <3> SUFFICES ASSUME NEW f \in 1 .. Files
                 PROVE  <<t, f>> \in events <=> \E e \in events : e[2] = f /\ e[1] = t
      BY <2>1
    <3> QED BY <1>1
  <2> QED BY <2>2 DEF Received, FilesOf
<1>5. Received({"skip"}) = FilesOf("skipped") /\ Received({"error"}) = FilesOf("errors")
  BY <1>4
<1> QED BY <1>2, <1>3, <1>5

(* The files with a change counted have changed, and a file that changed   *)
(* is one of them or one of those with an error.                           *)
LEMMA ChangesAreDone ==
  ASSUME IInv, Over, ~request.dryRun
  PROVE  /\ FilesOf("uploaded") \cup FilesOf("downloaded") \cup FilesOf("deleted") \subseteq done
         /\ done \subseteq FilesOf("uploaded") \cup FilesOf("downloaded") \cup FilesOf("deleted")
                           \cup FilesOf("errors")
<1>1. Made = events
  BY DEF Over, IInv, Stages, Drained, Made
<1>2. ASSUME NEW f \in done
      PROVE  f \in FilesOf("uploaded") \cup FilesOf("downloaded") \cup FilesOf("deleted")
                    \cup FilesOf("errors")
  <2>1. /\ f \in 1 .. Files /\ plan[f] # "skip"
        /\ <<EventType(f), f>> \in events \/ <<"error", f>> \in events
    BY <1>1 DEF IInv, Types, Truthful
  <2>2. PICK t \in {EventType(f), "error"} : <<t, f>> \in events
    BY <2>1
  <2>3. t \in EventTypes \ {"skip"}
    BY <2>1, EventTypeOfFile DEF IInv, EventTypes
  <2>4. CounterOf(t) \in {"uploaded", "downloaded", "deleted", "errors"}
    BY <2>3, CounterOfTypes DEF EventTypes
  <2>5. \E e \in events : e[2] = f /\ CounterOf(e[1]) = CounterOf(t)
    BY <2>2
  <2> QED BY <2>1, <2>4, <2>5 DEF FilesOf
<1>3. ASSUME NEW c \in {"uploaded", "downloaded", "deleted"}, NEW f \in FilesOf(c)
      PROVE  f \in done
  <2>1. PICK e \in events : e[2] = f /\ CounterOf(e[1]) = c
    BY DEF FilesOf
  <2>2. e[1] \in EventTypes /\ f \in 1 .. Files
    BY <1>3 DEF IInv, Types, FilesOf
  <2>3. e[1] # "error" /\ e[1] # "skip"
    BY <2>1, <2>2, CounterOfAny
  <2>4. e[1] = EventType(f)
    BY <1>1, <2>1, <2>3 DEF IInv, Truthful
  <2>5. plan[f] # "skip"
    BY <2>2, <2>3, <2>4, EventTypeOfFile DEF IInv
  <2> QED BY <1>1, <2>1, <2>3, <2>5 DEF IInv, Truthful
<1> QED BY <1>2, <1>3

(* The counters a sync reports are those of files with an event each: those *)
(* counted as changed did change, no other file did but for some of those  *)
(* with an error, and those counted as skipped were.                       *)
THEOREM CountersAreTrue == Spec => []CountsAreTrue
<1>1. ASSUME IInv PROVE CountsAreTrue
  <2> DEFINE U == FilesOf("uploaded")
             D == FilesOf("downloaded")
             X == FilesOf("deleted")
             S == FilesOf("skipped")
             E == FilesOf("errors")
             changes == counters["uploaded"] + counters["downloaded"] + counters["deleted"]
  <2> SUFFICES ASSUME Over
               PROVE  /\ ~request.dryRun =>
                           /\ changes <= Cardinality(done)
                           /\ Cardinality(done) <= changes + Cardinality(Received({"error"}))
                      /\ counters["uploaded"] # 0 => direction = "local-to-b2"
                      /\ counters["downloaded"] # 0 => direction = "b2-to-local"
                      /\ counters["skipped"] = Cardinality(Received({"skip"}))
                      /\ changes + counters["skipped"] + Cardinality(Received({"error"})) <= Files
    BY DEF CountsAreTrue, Over
  <2>1. /\ counters["uploaded"] = Cardinality(U) /\ counters["downloaded"] = Cardinality(D)
        /\ counters["deleted"] = Cardinality(X) /\ counters["skipped"] = Cardinality(S)
    BY <1>1 DEF IInv, Counted, Counters
  <2>2. /\ U \cap D = {} /\ (U \cup D) \cap X = {} /\ (U \cup D \cup X) \cap S = {}
        /\ (U \cup D \cup X \cup S) \cap E = {}
        /\ U \cup D \cup X \cup S \cup E \subseteq 1 .. Files
        /\ IsFiniteSet(U) /\ IsFiniteSet(D) /\ IsFiniteSet(X) /\ IsFiniteSet(S) /\ IsFiniteSet(E)
        /\ Received({"skip"}) = S /\ Received({"error"}) = E
    <3>1. {"uploaded", "downloaded", "deleted", "skipped", "errors"} = Counters
      BY DEF Counters
    <3> HIDE DEF U, D, X, S, E
    <3>2. /\ U \cap D = {} /\ U \cap X = {} /\ D \cap X = {} /\ U \cap S = {} /\ D \cap S = {}
          /\ X \cap S = {} /\ U \cap E = {} /\ D \cap E = {} /\ X \cap E = {} /\ S \cap E = {}
      BY <1>1, <3>1, CountedOnce DEF U, D, X, S, E
    <3>3. /\ U \subseteq 1 .. Files /\ D \subseteq 1 .. Files /\ X \subseteq 1 .. Files
          /\ S \subseteq 1 .. Files /\ E \subseteq 1 .. Files
          /\ IsFiniteSet(U) /\ IsFiniteSet(D) /\ IsFiniteSet(X) /\ IsFiniteSet(S) /\ IsFiniteSet(E)
      BY <1>1, <3>1, CountedOnce DEF U, D, X, S, E
    <3>4. Received({"skip"}) = S /\ Received({"error"}) = E
      BY <1>1, CountedOnce DEF S, E
    <3> QED BY <3>2, <3>3, <3>4
  <2>3. ~request.dryRun => U \cup D \cup X \subseteq done /\ done \subseteq U \cup D \cup X \cup E
    BY <1>1, ChangesAreDone
  <2>4. /\ U # {} => direction = "local-to-b2"
        /\ D # {} => direction = "b2-to-local"
    <3>0. Made = events /\ direction \in {"local-to-b2", "b2-to-local"}
      BY <1>1 DEF Over, IInv, Stages, Drained, Made, Types
    <3>1. ASSUME NEW c \in {"uploaded", "downloaded"}, NEW f \in FilesOf(c)
          PROVE  /\ f \in 1 .. Files
                 /\ EventType(f) = IF c = "uploaded" THEN "upload-done" ELSE "download-done"
      <4>1. PICK e \in events : e[2] = f /\ CounterOf(e[1]) = c
        BY DEF FilesOf
      <4>2. e[1] \in EventTypes /\ f \in 1 .. Files
        BY <1>1, <3>1 DEF IInv, Types, FilesOf
      <4>3. e[1] = IF c = "uploaded" THEN "upload-done" ELSE "download-done"
        BY <4>1, <4>2, CounterOfTypes DEF EventTypes
      <4>4. e[1] = EventType(f)
        BY <1>1, <3>0, <4>1, <4>3 DEF IInv, Truthful
      <4> QED BY <4>2, <4>3, <4>4
    <3>2. U # {} => direction = "local-to-b2"
      BY <1>1, <3>1, EventTypeOfFile DEF IInv
    <3>3. D # {} => direction = "b2-to-local"
      BY <1>1, <3>0, <3>1, EventTypeOfFile DEF IInv
    <3> QED BY <3>2, <3>3
  <2> HIDE DEF U, D, X, S, E
  <2>5. Cardinality(U \cup D) = Cardinality(U) + Cardinality(D) /\ IsFiniteSet(U \cup D)
    BY <2>2, DisjointUnion
  <2>6. /\ Cardinality(U \cup D \cup X) = Cardinality(U \cup D) + Cardinality(X)
        /\ IsFiniteSet(U \cup D \cup X)
    BY <2>2, <2>5, DisjointUnion
  <2>7. /\ Cardinality(U \cup D \cup X \cup S) = Cardinality(U \cup D \cup X) + Cardinality(S)
        /\ IsFiniteSet(U \cup D \cup X \cup S)
    BY <2>2, <2>6, DisjointUnion
  <2>8. Cardinality(U \cup D \cup X \cup S \cup E) = Cardinality(U \cup D \cup X \cup S) + Cardinality(E)
    BY <2>2, <2>7, DisjointUnion
  <2>9. Cardinality(U \cup D \cup X \cup S \cup E) <= Files
    <3>1. IsFiniteSet(1 .. Files) /\ Cardinality(1 .. Files) = Files
      BY FS_Interval, SyncAssumption
    <3>2. U \cup D \cup X \cup S \cup E \in SUBSET (1 .. Files)
      BY <2>2
    <3> QED BY <3>1, <3>2, FS_Subset
  <2>10. /\ U = {} => Cardinality(U) = 0
         /\ D = {} => Cardinality(D) = 0
    BY FS_EmptySet
  <2>11. changes = Cardinality(U \cup D \cup X)
    BY <2>1, <2>5, <2>6
  <2>12. changes + counters["skipped"] + Cardinality(Received({"error"})) <= Files
    BY <2>1, <2>2, <2>7, <2>8, <2>9, <2>11
  <2>13. ASSUME ~request.dryRun
         PROVE  /\ changes <= Cardinality(done)
                /\ Cardinality(done) <= changes + Cardinality(Received({"error"}))
    <3>1. IsFiniteSet(done)
      <4>1. done \in SUBSET (1 .. Files) /\ IsFiniteSet(1 .. Files)
        BY <1>1, FS_Interval, SyncAssumption DEF IInv, Types
      <4> QED BY <4>1, FS_Subset
    <3>2. U \cup D \cup X \in SUBSET done
      BY <2>3, <2>13
    <3>3. Cardinality(U \cup D \cup X) <= Cardinality(done)
      BY <3>1, <3>2, FS_Subset
    <3>4. done \in SUBSET (U \cup D \cup X \cup E)
      BY <2>3, <2>13
    <3>5. /\ IsFiniteSet(U \cup D \cup X \cup E)
          /\ Cardinality(U \cup D \cup X \cup E) = Cardinality(U \cup D \cup X) + Cardinality(E)
      <4>1. (U \cup D \cup X) \cap E = {}
        BY <2>2
      <4> QED BY <4>1, <2>2, <2>6, DisjointUnion
    <3>6. Cardinality(done) <= Cardinality(U \cup D \cup X \cup E)
      BY <3>4, <3>5, FS_Subset
    <3> QED BY <2>2, <2>11, <3>3, <3>5, <3>6
  <2> QED BY <2>1, <2>2, <2>4, <2>10, <2>12, <2>13
<1> QED BY <1>1, Invariance, PTL

(* A sync that succeeds failed on no file and left none out.               *)
THEOREM SuccessLeavesNothing == Spec => []SuccessIsComplete
<1>1. ASSUME IInv PROVE SuccessIsComplete
  <2> SUFFICES ASSUME pc = "succeeded"
               PROVE  /\ errorCount = 0
                      /\ \/ aborted
                         \/ \A f \in 1 .. Files :
                              f \in done \cup Received({"skip"}) \/ request.dryRun
    BY DEF SuccessIsComplete
  <2>1. Made = events /\ running = {} /\ counters["errors"] = 0
    BY <1>1 DEF IInv, Stages, Drained, Made
  <2>2. \A e \in Made : e[1] # "error"
    BY <1>1, <2>1 DEF IInv, Counted
  <2>3. errorCount = 0
    BY <1>1, <2>2 DEF IInv, Truthful
  <2>4. ASSUME ~aborted, NEW f \in 1 .. Files, ~request.dryRun
        PROVE  f \in done \cup Received({"skip"})
    <3>1. closing \in {"scanned", "aggregated"} \/ next > Files
      BY <1>1, <2>4 DEF IInv, Stages, Types
    <3>2. next > Files
      BY <1>1, <2>3, <2>4, <3>1 DEF IInv, Stages
    <3>3. PICK e \in events : e[2] = f
      <4>1. f < next
        BY <1>1, <3>2, SyncAssumption DEF IInv, Types
      <4> QED BY <1>1, <2>1, <4>1 DEF IInv, OneEvent
    <3>4. e = <<EventType(f), f>>
      BY <1>1, <2>1, <2>2, <3>3 DEF IInv, Truthful, Types
    <3>5. CASE plan[f] = "skip"
      BY <1>1, <3>3, <3>4, <3>5, EventTypeOfFile DEF IInv, Received
    <3>6. CASE plan[f] # "skip"
      BY <1>1, <2>1, <2>2, <2>4, <3>3, <3>6 DEF IInv, Truthful
    <3> QED BY <3>5, <3>6
  <2> QED BY <2>3, <2>4
<1> QED BY <1>1, Invariance, PTL
=============================================================================
