---------------------------- MODULE UploadProofs ----------------------------
(* Proofs about the upload verb, for any number of files, any concurrency  *)
(* and any keys.                                                           *)
EXTENDS Upload, FiniteSetTheorems, FunctionTheorems, TLAPS

(* Between the pool and the mappers: a worker holds a position exactly     *)
(* while its mapper runs, and no two hold the same one.                    *)
Holding ==
  /\ \A w \in Workers : slot[w] # 0 => slot[w] <= count /\ task[slot[w]] \in Taken
  /\ \A v, w \in Workers : slot[v] = slot[w] /\ v # w => slot[v] = 0
  /\ \A i \in Positions : task[i] \in Taken => \E w \in Workers : slot[w] = i

(* The positions before `next`, and only those, were handed out. *)
HandedOut ==
  \A i \in Positions : task[i] = "todo" <=> i > count \/ i >= next

(* Requests belong to a mapper that runs, on a permit of its file. *)
Budget ==
  \A i \in Positions, p \in Permits :
    <<i, p>> \in requests => task[i] = "uploading" /\ p <= PartConcurrency

(* What the pool records is what became of the tasks. *)
Recorded ==
  /\ results = {i \in Positions : task[i] = "ok"}
  /\ (\E i \in Positions : task[i] = "err") => failed
  /\ failed => phase \in {"upload", "rejected"}
  /\ \A i \in Positions : task[i] \in {"stored", "ok"} => <<key[i], i>> \in stored
  /\ \A k \in Keys, i \in Positions :
       <<k, i>> \in stored => k = key[i] /\ i <= count /\ Collisions = {}

(* Before the workers start nothing has happened, while they run each has  *)
(* a position unless the list is used up, and in the end none has.         *)
Phases ==
  /\ phase \in {"resolve", "plan"} =>
       /\ next = 1 /\ stored = {}
       /\ \A w \in Workers : slot[w] = 0
       /\ \A i \in Positions : task[i] = "todo"
  /\ phase \in {"plan", "upload"} => count > 0
  /\ single => count = 1
  /\ phase = "upload" =>
       /\ Collisions = {}
       /\ \A w \in 1 .. WorkerCount : slot[w] = 0 /\ ~failed => next > count
  /\ phase \in Settled => \A w \in Workers : slot[w] = 0
  /\ phase = "resolved" => ~failed /\ (count = 0 \/ next > count)

IInv == TypeOK /\ Holding /\ HandedOut /\ Budget /\ Recorded /\ Phases

(* There are at most as many workers as files and as the input allows.     *)
LEMMA WorkerCounts ==
  ASSUME TypeOK
  PROVE  /\ WorkerCount \in Nat /\ WorkerCount <= count /\ WorkerCount <= Concurrency
         /\ count > 0 => WorkerCount > 0
  BY UploadAssumption DEF TypeOK, WorkerCount, FileConcurrency

(* What TypeOK says of one worker and of one position. *)
LEMMA SlotType ==
  ASSUME TypeOK, NEW w \in Workers
  PROVE  /\ slot[w] \in 0 .. MaxFiles
         /\ slot[w] # 0 => slot[w] \in Positions
  BY UploadAssumption DEF TypeOK, Positions

(* The list's bounds, and `next` within them.                              *)
LEMMA NextType ==
  ASSUME TypeOK
  PROVE  /\ next \in Nat /\ next + 1 \in Nat
         /\ count \in Nat /\ count <= MaxFiles
         /\ next <= count => next \in 0 .. MaxFiles
  BY UploadAssumption DEF TypeOK

TaskStates == {"todo", "ok", "err"} \cup Taken

(* A worker that goes on takes a position of the list or none.             *)
LEMMA TakeNextType ==
  ASSUME TypeOK, NEW w \in Workers, NEW t \in [Positions -> TaskStates], TakeNext(w, t)
  PROVE  /\ next' \in Nat
         /\ slot' \in [Workers -> 0 .. MaxFiles]
         /\ task' \in [Positions -> TaskStates]
<1>1. slot \in [Workers -> 0 .. MaxFiles] /\ 0 \in 0 .. MaxFiles
  BY UploadAssumption DEF TypeOK
<1>2. {"uploading", "cancelled"} \subseteq TaskStates
  BY DEF TaskStates, Taken
<1>3. next' \in Nat
  BY NextType DEF TakeNext, Takes
<1>4. slot' \in [Workers -> 0 .. MaxFiles]
  BY NextType, <1>1 DEF TakeNext, Takes
<1>5. task' \in [Positions -> TaskStates]
  BY <1>2 DEF TakeNext, Takes
<1> QED BY <1>3, <1>4, <1>5

(* Every step keeps the types.                                             *)
LEMMA TypeStep == TypeOK /\ [Next]_vars => TypeOK'
<1> SUFFICES ASSUME TypeOK, [Next]_vars PROVE TypeOK'
  OBVIOUS
<1>t. task \in [Positions -> TaskStates] /\ slot \in [Workers -> 0 .. MaxFiles]
  BY DEF TypeOK, TaskStates
<1>s. {"todo", "ok", "err", "uploading", "stored", "failing", "cancelled"} \subseteq TaskStates
  BY DEF TaskStates, Taken
<1>1. CASE Resolve
  <2>1. phase' \in {"resolve", "plan", "upload"} \cup Settled
    BY <1>1 DEF Resolve, Settled
  <2> QED BY <1>1, <2>1 DEF Resolve, pool, wire, TypeOK
<1>2. CASE Settle
  BY <1>2 DEF Settle, AllReturned, Settled, input, pool, wire, TypeOK
<1>3. ASSUME NEW valid \in BOOLEAN, PlanRejects(valid) \/ StartWorkers(valid) PROVE TypeOK'
  <2>1. CASE PlanRejects(valid)
    BY <2>1 DEF PlanRejects, Settled, input, pool, wire, TypeOK
  <2>2. CASE StartWorkers(valid)
    <3>1. \A w \in Workers : w <= WorkerCount => w \in 0 .. MaxFiles
      BY WorkerCounts, NextType, UploadAssumption DEF Workers
    <3>2. slot' \in [Workers -> 0 .. MaxFiles]
      <4>1. 0 \in 0 .. MaxFiles
        BY UploadAssumption
      <4> QED BY <2>2, <3>1, <4>1 DEF StartWorkers
    <3>3. task' \in [Positions -> TaskStates]
      BY <2>2, <1>s DEF StartWorkers
    <3>4. next' \in Nat
      BY <2>2, WorkerCounts DEF StartWorkers
    <3> QED BY <2>2, <3>2, <3>3, <3>4 DEF StartWorkers, input, wire, TypeOK, TaskStates
  <2> QED BY <1>3, <2>1, <2>2
<1>4. ASSUME NEW w \in Workers, Worker(w) PROVE TypeOK'
  <2>1. CASE MapperReturns(w)
    <3>1. [task EXCEPT ![slot[w]] = "ok"] \in [Positions -> TaskStates]
      BY <1>t, <1>s
    <3>2. results' \subseteq Positions
      BY <2>1, SlotType DEF MapperReturns, TypeOK
    <3>3. /\ next' \in Nat
          /\ slot' \in [Workers -> 0 .. MaxFiles]
          /\ task' \in [Positions -> TaskStates]
      BY <2>1, <3>1, TakeNextType DEF MapperReturns
    <3> QED BY <2>1, <3>2, <3>3 DEF MapperReturns, input, wire, TypeOK, TaskStates
  <2>2. CASE MapperRejects(w)
    <3>1. firstError' \in 0 .. MaxFiles
      BY <2>2, SlotType DEF MapperRejects, FirstError, TypeOK
    <3>2. slot' \in [Workers -> 0 .. MaxFiles]
      <4>1. 0 \in 0 .. MaxFiles
        BY UploadAssumption
      <4> QED BY <2>2, <1>t, <4>1 DEF MapperRejects
    <3>3. task' \in [Positions -> TaskStates]
      BY <2>2, <1>t, <1>s DEF MapperRejects
    <3> QED BY <2>2, <3>1, <3>2, <3>3 DEF MapperRejects, input, wire, TypeOK, TaskStates
  <2> QED BY <1>4, <2>1, <2>2 DEF Worker
<1>5. ASSUME NEW i \in Positions, Sdk(i) \/ ChangeFile(i) PROVE TypeOK'
  <2>1. ASSUME NEW p \in Permits, StartRequest(i, p) PROVE TypeOK'
    <3>1. requests' \subseteq Positions \X Permits
      BY <2>1 DEF StartRequest, TypeOK
    <3>2. left[i] \in 0 .. Parts /\ left[i] > 0 => left[i] - 1 \in 0 .. Parts
      BY UploadAssumption
    <3>3. left' \in [Positions -> 0 .. Parts]
      BY <2>1, <3>2 DEF StartRequest, TypeOK
    <3> QED BY <2>1, <3>1, <3>3 DEF StartRequest, input, pool, TypeOK
  <2>2. ASSUME NEW p \in Permits, EndRequest(i, p) PROVE TypeOK'
    <3>1. requests' \subseteq Positions \X Permits
      BY <2>2 DEF EndRequest, TypeOK
    <3> QED BY <2>2, <3>1 DEF EndRequest, input, pool, TypeOK
  <2>3. CASE Commit(i)
    <3>1. stored' \subseteq Keys \X Positions
      BY <2>3 DEF Commit, TypeOK
    <3>2. task' \in [Positions -> TaskStates]
      BY <2>3, <1>t, <1>s DEF Commit
    <3> QED BY <2>3, <3>1, <3>2 DEF Commit, input, TypeOK, TaskStates
  <2>4. CASE FailUpload(i)
    <3>1. requests' \subseteq Positions \X Permits
      BY <2>4 DEF FailUpload, TypeOK
    <3>2. task' \in [Positions -> TaskStates]
      BY <2>4, <1>t, <1>s DEF FailUpload
    <3> QED BY <2>4, <3>1, <3>2 DEF FailUpload, input, TypeOK, TaskStates
  <2>5. CASE ChangeFile(i)
    BY <2>5 DEF ChangeFile, input, pool, wire, TypeOK
  <2> QED BY <1>5, <2>1, <2>2, <2>3, <2>4, <2>5 DEF Sdk
<1>6. CASE Abort
  BY <1>6 DEF Abort, input, pool, wire, TypeOK
<1>7. CASE Terminated \/ UNCHANGED vars
  BY <1>7 DEF Terminated, vars, input, pool, wire, TypeOK
<1> QED BY <1>1, <1>2, <1>3, <1>4, <1>5, <1>6, <1>7 DEF Next, Main

(* The initial state has the types.                                        *)
LEMMA InitType == Init => TypeOK
<1>1. AnyKey \in Keys /\ 0 \in 0 .. MaxFiles /\ 1 \in Nat /\ Parts \in 0 .. Parts
  BY UploadAssumption DEF AnyKey
<1> QED BY <1>1 DEF Init, TypeOK

(* The variables keep to their types, for every size of the instance. *)
THEOREM TypeCorrect == Spec => []TypeOK
  BY InitType, TypeStep, PTL DEF Spec

(* What was resolved and planned decides the budgets and the collisions.   *)
LEMMA InputKept ==
  ASSUME UNCHANGED input
  PROVE  /\ PartConcurrency' = PartConcurrency
         /\ WorkerCount' = WorkerCount
         /\ Collisions' = Collisions
         /\ UNCHANGED <<single, count, key>>
  BY DEF input, PartConcurrency, WorkerCount, FileConcurrency, Collisions

(* Resolving the source hands nothing out.                                 *)
LEMMA InvResolve ==
  ASSUME IInv, TypeOK', Resolve
  PROVE  IInv'
<1> USE DEF Resolve, pool, wire
<1>1. Holding' /\ Budget'
  BY DEF IInv, Holding, Budget, Phases, Taken
<1>2. HandedOut'
  BY DEF IInv, HandedOut, Phases, TypeOK, Positions
<1>3. Recorded'
  BY DEF IInv, Recorded, Phases
<1>4. Phases'
  BY DEF IInv, Recorded, Phases, Settled, TypeOK
<1> QED BY <1>1, <1>2, <1>3, <1>4 DEF IInv

(* Starting the workers hands out the first positions, one each.           *)
LEMMA InvStart ==
  ASSUME IInv, TypeOK', NEW valid \in BOOLEAN, StartWorkers(valid)
  PROVE  IInv'
<1> USE DEF StartWorkers, input, wire
<1>0. UNCHANGED input
  OBVIOUS
<1>u. /\ PartConcurrency' = PartConcurrency /\ WorkerCount' = WorkerCount
      /\ Collisions' = Collisions
  BY <1>0, InputKept
<1>w. /\ WorkerCount \in Nat /\ WorkerCount <= count /\ WorkerCount <= Concurrency
      /\ WorkerCount > 0 /\ count \in Nat /\ count <= MaxFiles
  BY WorkerCounts, NextType DEF IInv, Phases
<1>1. Holding'
  BY <1>w, UploadAssumption DEF Holding, Workers, Positions, Taken
<1>2. HandedOut'
  BY <1>w DEF HandedOut, Positions
<1>3. Budget'
  BY <1>u DEF IInv, Budget, Phases
<1>4. Recorded'
  BY <1>u DEF IInv, Recorded, Phases
<1>5. Phases'
  <2>1. \A w \in 1 .. WorkerCount : slot'[w] # 0
    BY <1>w, UploadAssumption DEF Workers
  <2> QED BY <2>1, <1>u, <1>w DEF IInv, Phases, Settled
<1> QED BY <1>1, <1>2, <1>3, <1>4, <1>5 DEF IInv

(* How the states of a task fall into Taken. *)
LEMMA TakenStates ==
  /\ {"uploading", "stored", "failing", "cancelled"} = Taken
  /\ "todo" \notin Taken /\ "ok" \notin Taken /\ "err" \notin Taken
  BY DEF Taken

(* A worker hands back its position i for good, in state s, and takes none *)
(* or the next one.                                                        *)
PassesOn(w, s, n, x) ==
  /\ slot[w] # 0 /\ s \in {"ok", "err"} /\ n \in 0 .. MaxFiles /\ x \in Taken
  /\ slot' = [slot EXCEPT ![w] = n]
  /\ n # 0 => n = next /\ next <= count
  /\ \A j \in Positions : task'[j] = IF j = n THEN x
                                     ELSE IF j = slot[w] THEN s ELSE task[j]

(* A worker that passes on still holds what its mapper runs on.            *)
LEMMA HoldingPassedOn ==
  ASSUME IInv, UNCHANGED count, NEW w \in Workers, NEW s, NEW n, NEW x,
         PassesOn(w, s, n, x)
  PROVE  Holding'
<1> USE DEF PassesOn
<1>1. slot \in [Workers -> 0 .. MaxFiles]
  BY DEF IInv, TypeOK
<1>2. \A v \in Workers : slot[v] # 0 => slot[v] \in Positions
  BY SlotType DEF IInv
<1>3. n # 0 => n \in Positions /\ task[n] = "todo"
  BY NextType DEF IInv, HandedOut, Positions
<1>4. \A v \in Workers : slot[v] # 0 => slot[v] # n /\ task[slot[v]] \in Taken
  BY <1>2, <1>3, TakenStates DEF IInv, Holding
<1>5. s \notin Taken
  BY TakenStates
<1>6. \A v \in Workers : slot'[v] = IF v = w THEN n ELSE slot[v]
  BY <1>1
<1>7. \A v \in Workers : v # w /\ slot[v] # 0 => slot[v] # slot[w]
  BY DEF IInv, Holding
<1>8. \A v \in Workers : slot'[v] # 0 => slot'[v] <= count' /\ task'[slot'[v]] \in Taken
  <2> SUFFICES ASSUME NEW v \in Workers, slot'[v] # 0
               PROVE  slot'[v] <= count /\ task'[slot'[v]] \in Taken
    OBVIOUS
  <2>1. CASE v = w
    BY <2>1, <1>3, <1>6
  <2>2. CASE v # w
    BY <2>2, <1>2, <1>4, <1>6, <1>7 DEF IInv, Holding
  <2> QED BY <2>1, <2>2
<1>9. \A u, v \in Workers : slot'[u] = slot'[v] /\ u # v => slot'[u] = 0
  BY <1>4, <1>6 DEF IInv, Holding
<1>10. ASSUME NEW j \in Positions, task'[j] \in Taken PROVE \E v \in Workers : slot'[v] = j
  <2>1. CASE j = n
    BY <2>1, <1>6
  <2>2. CASE j # n
    <3>1. j # slot[w] /\ task[j] \in Taken
      BY <2>2, <1>10, <1>5
    <3>2. PICK v \in Workers : slot[v] = j
      BY <3>1 DEF IInv, Holding
    <3> QED BY <3>1, <3>2, <1>6
  <2> QED BY <2>1, <2>2
<1> QED BY <1>8, <1>9, <1>10 DEF Holding

(* A mapper that returns passes its worker on to the next position.        *)
LEMMA InvReturns ==
  ASSUME IInv, TypeOK', NEW w \in Workers, MapperReturns(w)
  PROVE  IInv'
<1> DEFINE i    == slot[w]
           take == ~failed /\ next <= count
           n    == IF take THEN next ELSE 0
           x    == IF aborted THEN "cancelled" ELSE "uploading"
<1>1. /\ i \in Positions /\ i # 0 /\ i <= count /\ task[i] = "stored"
      /\ UNCHANGED <<phase, input, failed, aborted, wire>>
      /\ results' = results \cup {i}
      /\ next' = IF failed THEN next ELSE next + 1
      /\ slot' = [slot EXCEPT ![w] = n]
  BY SlotType DEF IInv, Holding, MapperReturns, TakeNext, Takes
<1>2. /\ PartConcurrency' = PartConcurrency /\ WorkerCount' = WorkerCount
      /\ Collisions' = Collisions /\ UNCHANGED <<single, count, key>>
  BY <1>1, InputKept
<1>3. /\ next \in Nat /\ count \in Nat /\ n \in 0 .. MaxFiles
      /\ take => next \in Positions /\ task[next] = "todo"
  BY NextType, UploadAssumption, <1>1 DEF IInv, HandedOut, Positions, Phases
<1>4. \A j \in Positions : task'[j] = IF j = n THEN x ELSE IF j = i THEN "ok" ELSE task[j]
  <2>1. task \in [Positions -> TaskStates]
    BY DEF IInv, TypeOK, TaskStates
  <2>2. 0 \notin Positions
    BY DEF Positions
  <2>3. task' = IF take THEN [[task EXCEPT ![i] = "ok"] EXCEPT ![next] = x]
                        ELSE [task EXCEPT ![i] = "ok"]
    BY DEF MapperReturns, TakeNext, Takes
  <2> QED BY <2>1, <2>2, <2>3, <1>1
<1> HIDE DEF i, n, take, x
<1>x. x \in Taken
  BY TakenStates DEF x
<1>5. Holding'
  <2>1. PassesOn(w, "ok", n, x)
    BY <1>1, <1>3, <1>4, <1>x DEF i, n, take, PassesOn
  <2> QED BY <2>1, <1>2, HoldingPassedOn
<1>6. HandedOut'
  <2> SUFFICES ASSUME NEW j \in Positions
               PROVE  task'[j] = "todo" <=> j > count \/ j >= next'
    BY <1>2 DEF HandedOut
  <2>1. task[j] = "todo" <=> j > count \/ j >= next
    BY DEF IInv, HandedOut
  <2>2. x # "todo"
    BY DEF x
  <2>3. CASE take
    BY <2>1, <2>2, <2>3, <1>1, <1>3, <1>4 DEF Positions, n, take
  <2>4. CASE ~take
    BY <2>1, <2>4, <1>1, <1>3, <1>4 DEF Positions, n, take
  <2> QED BY <2>3, <2>4
<1>7. Budget'
  <2>1. \A j \in Positions : task[j] = "uploading" => task'[j] = "uploading"
    BY <1>1, <1>3, <1>4 DEF n, Positions
  <2> QED BY <2>1, <1>1, <1>2 DEF IInv, Budget, wire
<1>8. Recorded'
  <2>1. x \notin {"ok", "err", "stored"}
    BY DEF x
  <2>2. results' = {j \in Positions : task'[j] = "ok"}
    BY <2>1, <1>1, <1>3, <1>4 DEF IInv, Recorded, n, Positions
  <2>3. \A j \in Positions : task'[j] = "err" => task[j] = "err"
    BY <2>1, <1>4
  <2>4. \A j \in Positions : task'[j] \in {"stored", "ok"} => task[j] \in {"stored", "ok"}
    BY <2>1, <1>1, <1>4
  <2> QED BY <2>2, <2>3, <2>4, <1>1, <1>2 DEF IInv, Recorded, wire
<1>9. Phases'
  <2>1. phase = "upload"
    BY <1>1, TakenStates DEF IInv, Phases, TypeOK, Settled, i
  <2>2. ASSUME NEW v \in 1 .. WorkerCount, slot'[v] = 0, ~failed PROVE next' > count
    <3>1. v \in Workers /\ slot \in [Workers -> 0 .. MaxFiles]
      <4>1. WorkerCount \in Nat /\ WorkerCount <= Concurrency
        BY WorkerCounts DEF IInv
      <4>2. v \in Workers
        BY <4>1, UploadAssumption DEF Workers
      <4> QED BY <4>2 DEF IInv, TypeOK
    <3>2. CASE v = w
      BY <3>1, <3>2, <2>2, <1>1, <1>3 DEF n, take, Positions
    <3>3. CASE v # w
      BY <3>1, <3>3, <2>1, <2>2, <1>1, <1>3 DEF IInv, Phases
    <3> QED BY <3>2, <3>3
  <2> QED BY <2>1, <2>2, <1>1, <1>2 DEF IInv, Phases, Settled
<1> QED BY <1>5, <1>6, <1>7, <1>8, <1>9 DEF IInv

(* A mapper that rejects ends its worker.                                  *)
LEMMA InvRejects ==
  ASSUME IInv, TypeOK', NEW w \in Workers, MapperRejects(w)
  PROVE  IInv'
<1> DEFINE i == slot[w]
<1>1. /\ i \in Positions /\ i # 0 /\ i <= count /\ task[i] \in {"failing", "cancelled"}
      /\ UNCHANGED <<phase, input, aborted, next, results, wire>>
      /\ failed' = TRUE
      /\ slot' = [slot EXCEPT ![w] = 0]
  BY SlotType DEF IInv, Holding, MapperRejects
<1>2. /\ PartConcurrency' = PartConcurrency /\ WorkerCount' = WorkerCount
      /\ Collisions' = Collisions /\ UNCHANGED <<single, count, key>>
  BY <1>1, InputKept
<1>3. \A j \in Positions : task'[j] = IF j = i THEN "err" ELSE task[j]
  BY DEF MapperRejects, IInv, TypeOK
<1>4. phase = "upload"
  BY <1>1, TakenStates DEF IInv, Phases, TypeOK, Settled
<1>5. Holding'
  <2>1. 0 \in 0 .. MaxFiles /\ 0 \notin Positions /\ "uploading" \in Taken
    BY UploadAssumption, TakenStates DEF Positions
  <2>2. \A j \in Positions : task'[j] = IF j = 0 THEN "uploading"
                                        ELSE IF j = slot[w] THEN "err" ELSE task[j]
    BY <1>3, <2>1
  <2>3. PassesOn(w, "err", 0, "uploading")
    BY <2>1, <2>2, <1>1 DEF PassesOn
  <2> QED BY <2>3, <1>2, HoldingPassedOn
<1>6. HandedOut'
  BY <1>1, <1>2, <1>3, TakenStates DEF IInv, HandedOut
<1>7. Budget'
  BY <1>1, <1>2, <1>3 DEF IInv, Budget, wire
<1>8. Recorded'
  BY <1>1, <1>2, <1>3, <1>4 DEF IInv, Recorded, wire
<1>9. Phases'
  BY <1>1, <1>2, <1>4 DEF IInv, Phases, Settled
<1> QED BY <1>5, <1>6, <1>7, <1>8, <1>9 DEF IInv

(* Requests come and go on the permits of an uploading file.               *)
LEMMA InvRequests ==
  ASSUME IInv, TypeOK', NEW i \in Positions, NEW p \in Permits,
         StartRequest(i, p) \/ EndRequest(i, p)
  PROVE  IInv'
<1>1. UNCHANGED <<phase, input, changed, aborted, pool, stored>>
  BY DEF StartRequest, EndRequest
<1>2. /\ PartConcurrency' = PartConcurrency /\ WorkerCount' = WorkerCount
      /\ Collisions' = Collisions /\ UNCHANGED <<single, count, key>>
  BY <1>1, InputKept
<1>3. Budget'
  BY <1>1, <1>2 DEF IInv, Budget, pool, StartRequest, EndRequest
<1>4. Holding' /\ HandedOut' /\ Recorded' /\ Phases'
  BY <1>1, <1>2 DEF IInv, Holding, HandedOut, Recorded, Phases, pool
<1> QED BY <1>3, <1>4 DEF IInv

(* The mapper of a position moves on, from one state of Taken to another.  *)
LEMMA InvMapper ==
  ASSUME IInv, TypeOK', NEW i \in Positions, Commit(i) \/ FailUpload(i)
  PROVE  IInv'
<1>1. /\ UNCHANGED <<phase, input, changed, aborted, next, failed, firstError, results, slot>>
      /\ task[i] \in Taken \ {"cancelled"}
  BY TakenStates DEF Commit, FailUpload
<1>2. /\ PartConcurrency' = PartConcurrency /\ WorkerCount' = WorkerCount
      /\ Collisions' = Collisions /\ UNCHANGED <<single, count, key>>
  BY <1>1, InputKept
<1>3. \E s \in {"stored", "failing"} :
        \A j \in Positions : task'[j] = IF j = i THEN s ELSE task[j]
  BY DEF Commit, FailUpload, IInv, TypeOK
<1>4. Holding'
  <2>1. \A j \in Positions : task'[j] \in Taken <=> task[j] \in Taken
    BY <1>1, <1>3, TakenStates
  <2> QED BY <2>1, <1>1, <1>2, SlotType DEF IInv, Holding
<1>5. HandedOut'
  BY <1>1, <1>2, <1>3, TakenStates DEF IInv, HandedOut
<1>6. Budget'
  <2>1. CASE Commit(i)
    <3>1. \A j \in Positions, p \in Permits :
            <<j, p>> \in requests => j # i /\ task'[j] = task[j]
      BY <2>1 DEF Commit, IInv, TypeOK
    <3> QED BY <3>1, <2>1, <1>2 DEF IInv, Budget, Commit
  <2>2. CASE FailUpload(i)
    <3>1. \A j \in Positions, p \in Permits :
            <<j, p>> \in requests' => <<j, p>> \in requests /\ j # i
      BY <2>2 DEF FailUpload
    <3> QED BY <3>1, <1>2, <1>3 DEF IInv, Budget
  <2> QED BY <2>1, <2>2
<1>7. Recorded'
  <2>1. i <= count
    BY <1>1, TakenStates, NextType DEF IInv, HandedOut, Positions
  <2>2. /\ results' = {j \in Positions : task'[j] = "ok"}
        /\ \A j \in Positions : task'[j] = "err" <=> task[j] = "err"
    BY <1>1, <1>3, TakenStates DEF IInv, Recorded
  <2>3. CASE Commit(i)
    <3>1. /\ stored' = stored \cup {<<key[i], i>>}
          /\ \A j \in Positions :
               task'[j] \in {"stored", "ok"} => j = i \/ task[j] \in {"stored", "ok"}
      BY <2>3 DEF Commit, IInv, TypeOK
    <3>2. Collisions = {}
      BY <1>1, TakenStates DEF IInv, Phases, Holding, TypeOK, Settled, Positions
    <3> QED BY <3>1, <3>2, <2>1, <2>2, <1>1, <1>2 DEF IInv, Recorded
  <2>4. CASE FailUpload(i)
    <3>1. /\ stored' = stored
          /\ \A j \in Positions :
               task'[j] \in {"stored", "ok"} => task[j] \in {"stored", "ok"}
      BY <2>4 DEF FailUpload, IInv, TypeOK
    <3> QED BY <3>1, <2>2, <1>1, <1>2 DEF IInv, Recorded
  <2> QED BY <2>3, <2>4
<1>8. Phases'
  <2>1. phase \notin {"resolve", "plan"}
    BY <1>1, TakenStates DEF IInv, Phases
  <2> QED BY <2>1, <1>1, <1>2 DEF IInv, Phases
<1> QED BY <1>4, <1>5, <1>6, <1>7, <1>8 DEF IInv

(* The command settles with no worker left, and as the pool ended.         *)
LEMMA InvPhase ==
  ASSUME IInv, TypeOK', NEW valid \in BOOLEAN, PlanRejects(valid) \/ Settle
  PROVE  IInv'
<1>1. /\ UNCHANGED <<input, changed, aborted, pool, wire>>
      /\ phase \in {"plan", "upload"} /\ phase' \in Settled
  BY DEF PlanRejects, Settle, AllReturned, Settled
<1>2. /\ PartConcurrency' = PartConcurrency /\ WorkerCount' = WorkerCount
      /\ Collisions' = Collisions /\ UNCHANGED <<single, count, key>>
  BY <1>1, InputKept
<1>3. Holding' /\ HandedOut' /\ Budget'
  BY <1>1, <1>2 DEF IInv, Holding, HandedOut, Budget, pool, wire
<1>4. Recorded' /\ Phases'
  <2>1. CASE PlanRejects(valid)
    BY <2>1, <1>1, <1>2 DEF IInv, Recorded, Phases, pool, wire, PlanRejects, Settled
  <2>2. CASE Settle
    <3>1. WorkerCount > 0 /\ \A w \in 1 .. WorkerCount : slot[w] = 0
      BY <2>2, WorkerCounts, NextType, UploadAssumption DEF IInv, Settle, AllReturned, Phases, Workers
    <3>2. ~failed => next > count
      BY <3>1, <2>2, WorkerCounts DEF IInv, Settle, AllReturned, Phases
    <3>3. Phases'
      BY <3>2, <2>2, <1>1, <1>2 DEF IInv, Phases, Settle, AllReturned, Settled, pool
    <3>4. Recorded'
      BY <2>2, <1>1, <1>2 DEF IInv, Recorded, Settle, AllReturned, pool, wire
    <3> QED BY <3>3, <3>4
  <2> QED BY <2>1, <2>2
<1> QED BY <1>3, <1>4 DEF IInv

(* The signal and other writers leave the pool alone.                      *)
LEMMA InvSurroundings ==
  ASSUME IInv, TypeOK', UNCHANGED <<phase, input, pool, wire>>
  PROVE  IInv'
<1>1. /\ PartConcurrency' = PartConcurrency /\ WorkerCount' = WorkerCount
      /\ Collisions' = Collisions /\ UNCHANGED <<single, count, key>>
  BY InputKept
<1> QED BY <1>1 DEF IInv, Holding, HandedOut, Budget, Recorded, Phases, pool, wire

(* Every step keeps the inductive invariant.                               *)
LEMMA InvStep == IInv /\ [Next]_vars => IInv'
<1> SUFFICES ASSUME IInv, [Next]_vars PROVE IInv'
  OBVIOUS
<1>0. TypeOK'
  BY TypeStep DEF IInv
<1>1. CASE Main
  BY <1>0, <1>1, InvResolve, InvStart, InvPhase DEF Main
<1>2. ASSUME NEW w \in Workers, Worker(w) PROVE IInv'
  BY <1>0, <1>2, InvReturns, InvRejects DEF Worker
<1>3. ASSUME NEW i \in Positions, Sdk(i) PROVE IInv'
  BY <1>0, <1>3, InvRequests, InvMapper DEF Sdk
<1>4. CASE Abort \/ Terminated \/ UNCHANGED vars \/ \E i \in Positions : ChangeFile(i)
  BY <1>0, <1>4, InvSurroundings DEF Abort, Terminated, ChangeFile, vars
<1> QED BY <1>1, <1>2, <1>3, <1>4 DEF Next

(* What the pool, the tasks and the bucket know of each other is kept by    *)
(* every step of the command and of its surroundings.                      *)
THEOREM Invariance == Spec => []IInv
<1>1. Init => IInv
  <2> SUFFICES ASSUME Init PROVE IInv
    OBVIOUS
  <2>1. TypeOK
    BY InitType
  <2>2. Holding /\ Budget /\ Phases
    BY DEF Init, Holding, Budget, Phases, Taken, Settled
  <2>3. HandedOut /\ Recorded
    BY DEF Init, HandedOut, Recorded, Positions
  <2> QED BY <2>1, <2>2, <2>3 DEF IInv
<1> QED BY <1>1, InvStep, PTL DEF Spec

-----------------------------------------------------------------------------
(* Requests in flight inject into the budget: when files share it, each    *)
(* has one request and a worker of its own, else one file has all permits. *)
LEMMA Bounded == IInv => InFlightBound
<1> SUFFICES ASSUME IInv PROVE InFlightBound
  OBVIOUS
<1> DEFINE HolderOf(i) == CHOOSE w \in Workers : slot[w] = i
           Charge == [r \in requests |-> IF PartConcurrency = 1 THEN HolderOf(r[1]) ELSE r[2]]
<1>1. ASSUME NEW r \in requests
      PROVE  /\ r = <<r[1], r[2]>> /\ r[1] \in Positions /\ r[2] \in Permits
             /\ task[r[1]] = "uploading" /\ r[2] <= PartConcurrency
             /\ HolderOf(r[1]) \in Workers /\ slot[HolderOf(r[1])] = r[1]
  <2>1. r = <<r[1], r[2]>> /\ r[1] \in Positions /\ r[2] \in Permits
    BY DEF IInv, TypeOK
  <2>2. task[r[1]] = "uploading" /\ r[2] <= PartConcurrency
    BY <2>1 DEF IInv, Budget
  <2>3. \E w \in Workers : slot[w] = r[1]
    BY <2>1, <2>2, TakenStates DEF IInv, Holding
  <2> QED BY <2>1, <2>2, <2>3
<1>2. Charge \in [requests -> Workers]
  BY <1>1 DEF Permits, Workers
<1>3. ASSUME NEW r \in requests, NEW q \in requests, Charge[r] = Charge[q]
      PROVE  r = q
  <2>1. CASE PartConcurrency = 1
    <3>1. r[1] = q[1]
      BY <2>1, <1>1, <1>3
    <3>2. r[2] = 1 /\ q[2] = 1
      BY <2>1, <1>1 DEF Permits
    <3> QED BY <3>1, <3>2, <1>1
  <2>2. CASE PartConcurrency # 1
    <3>1. single \/ count = 1
      BY <2>2 DEF PartConcurrency
    <3>2. count = 1
      BY <3>1 DEF IInv, Phases
    <3>3. r[1] = 1 /\ q[1] = 1
      BY <3>2, <1>1, TakenStates DEF IInv, Holding, Positions
    <3>4. r[2] = q[2]
      BY <2>2, <1>3
    <3> QED BY <3>3, <3>4, <1>1
  <2> QED BY <2>1, <2>2
<1> HIDE DEF Charge
<1>4. Charge \in Injection(requests, Workers)
  BY <1>2, <1>3, Fun_IsInj
<1>5. IsFiniteSet(Workers) /\ Cardinality(Workers) = Concurrency
  BY FS_Interval, UploadAssumption DEF Workers
<1> QED BY <1>4, <1>5, FS_Injection DEF InFlightBound

(* At no time are more requests in flight than the concurrency input says. *)
THEOREM InFlightBounded == Spec => []InFlightBound
  BY Invariance, Bounded, PTL

(* A command that succeeds stored and reports every file.                  *)
THEOREM SuccessIsComplete == Spec => []ResolvedMeansAllStored
<1>1. ASSUME IInv PROVE ResolvedMeansAllStored
  <2> SUFFICES ASSUME phase = "resolved"
               PROVE  /\ results = 1 .. count
                      /\ \A i \in 1 .. count : <<key[i], i>> \in stored
    BY DEF ResolvedMeansAllStored
  <2>1. 1 .. count \subseteq Positions
    BY <1>1, NextType, UploadAssumption DEF IInv, Positions
  <2>2. \A i \in Positions : task[i] \notin Taken
    BY <1>1 DEF IInv, Holding, Phases, Settled, Positions
  <2>3. \A i \in Positions : task[i] # "err"
    BY <1>1 DEF IInv, Recorded, Phases
  <2>4. \A i \in Positions : task[i] = "todo" <=> i > count
    BY <1>1, NextType DEF IInv, HandedOut, Phases, Positions
  <2>5. \A i \in Positions : task[i] = "ok" <=> i <= count
    BY <1>1, <2>2, <2>3, <2>4, NextType DEF IInv, TypeOK, Positions
  <2>6. results = 1 .. count
    BY <1>1, <2>1, <2>5, NextType DEF IInv, Recorded, Positions
  <2> QED BY <1>1, <2>1, <2>5, <2>6 DEF IInv, Recorded
<1> QED BY <1>1, Invariance, PTL

(* Nothing of a settled command is still running.                          *)
THEOREM SettledQuietly == Spec => []SettledIsQuiet
<1>1. ASSUME IInv PROVE SettledIsQuiet
  <2> SUFFICES ASSUME phase \in Settled
               PROVE  requests = {} /\ \A i \in Positions : task[i] \notin Taken
    BY DEF SettledIsQuiet
  <2>1. \A i \in Positions : task[i] \notin Taken
    BY <1>1 DEF IInv, Holding, Phases, Positions
  <2>2. ASSUME NEW r \in requests PROVE FALSE
    BY <1>1, <2>1, <2>2, TakenStates DEF IInv, TypeOK, Budget
  <2> QED BY <2>1, <2>2
<1> QED BY <1>1, Invariance, PTL

(* No two files are stored under one key.                                  *)
THEOREM KeysAreUnique == Spec => []OneFilePerKey
<1>1. ASSUME IInv PROVE OneFilePerKey
  <2> SUFFICES ASSUME NEW i \in Positions, NEW j \in Positions, NEW k \in Keys,
                      <<k, i>> \in stored, <<k, j>> \in stored, i # j
               PROVE  FALSE
    BY DEF OneFilePerKey
  <2>1. k = key[i] /\ k = key[j] /\ i <= count /\ j <= count /\ Collisions = {}
    BY <1>1 DEF IInv, Recorded
  <2>2. i \in 1 .. count /\ j \in 1 .. count
    BY <1>1, <2>1, NextType DEF IInv, Positions
  <2> QED BY <2>1, <2>2 DEF Collisions
<1> QED BY <1>1, Invariance, PTL

(* While nothing failed and files remain, every worker has one.            *)
THEOREM NoWorkerIdles == Spec => []NoIdleWorker
<1>1. ASSUME IInv PROVE NoIdleWorker
  BY <1>1, NextType DEF IInv, NoIdleWorker, Phases
<1> QED BY <1>1, Invariance, PTL

(* A failure, or the signal, keeps every further file from being begun.    *)
THEOREM StopsAtFailure == Spec => NoStartAfterStop
<1>1. ASSUME IInv, [Next]_vars
      PROVE  [failed \/ aborted => \A i \in Positions : ~BeginsFile(i)]_vars
  <2> SUFFICES ASSUME Next, failed \/ aborted, NEW i \in Positions,
                      task[i] = "todo", task'[i] = "uploading"
               PROVE  FALSE
    BY <1>1 DEF BeginsFile
  <2>1. task \in [Positions -> TaskStates]
    BY <1>1 DEF IInv, TypeOK, TaskStates
  <2>2. ASSUME NEW w \in Workers, Worker(w) PROVE FALSE
    BY <2>1, <2>2 DEF Worker, MapperReturns, MapperRejects, TakeNext, Takes
  <2>3. ASSUME NEW j \in Positions, Sdk(j) \/ ChangeFile(j) PROVE FALSE
    BY <2>1, <2>3 DEF Sdk, StartRequest, EndRequest, Commit, FailUpload, ChangeFile, pool
  <2>4. CASE Main
    BY <1>1, <2>4 DEF Main, Resolve, PlanRejects, StartWorkers, Settle, AllReturned, pool,
                      IInv, Recorded
  <2>5. CASE Abort \/ Terminated
    BY <2>5 DEF Abort, Terminated, vars, pool
  <2> QED BY <2>2, <2>3, <2>4, <2>5 DEF Next
<1> QED BY <1>1, Invariance, PTL DEF Spec, NoStartAfterStop

-----------------------------------------------------------------------------
(* The refinement of ConcurrentMap.                                        *)

(* A first error is on record exactly when some mapper failed, and the     *)
(* pool has run exactly when a position was handed out.                    *)
Caused == firstError # 0 <=> failed
Begun  ==
  /\ phase = "upload" => next > 1
  /\ next > 0 /\ (next > 1 => count > 0)

RInv == IInv /\ Caused /\ Begun

(* Every step keeps what the refinement adds to the invariant.             *)
LEMMA RefineStep == RInv /\ [Next]_vars => RInv'
<1> SUFFICES ASSUME RInv, [Next]_vars PROVE RInv'
  OBVIOUS
<1>0. IInv /\ IInv' /\ Caused /\ Begun
  BY InvStep DEF RInv
<1>t. next \in Nat /\ WorkerCount \in Nat /\ (count > 0 => WorkerCount > 0)
  BY <1>0, NextType, WorkerCounts DEF IInv
<1>1. CASE Main
  <2>1. CASE Resolve
    BY <1>0, <1>t, <2>1 DEF Resolve, pool, Caused, Begun, RInv, IInv, Phases
  <2>2. CASE Settle
    BY <1>0, <2>2 DEF Settle, AllReturned, input, pool, Caused, Begun, RInv, Settled
  <2>3. ASSUME NEW valid \in BOOLEAN, PlanRejects(valid) PROVE RInv'
    BY <1>0, <2>3 DEF PlanRejects, input, pool, Caused, Begun, RInv
  <2>4. ASSUME NEW valid \in BOOLEAN, StartWorkers(valid) PROVE RInv'
    BY <1>0, <1>t, <2>4 DEF StartWorkers, input, Caused, Begun, RInv, IInv, Phases
  <2> QED BY <1>1, <2>1, <2>2, <2>3, <2>4 DEF Main
<1>2. ASSUME NEW w \in Workers, Worker(w) PROVE RInv'
  <2>1. CASE MapperReturns(w)
    <3>1. count > 0 /\ count \in Nat
      BY <1>0, <2>1, SlotType, NextType DEF MapperReturns, IInv, Holding, Positions
    <3>2. /\ UNCHANGED <<phase, input, failed, firstError>>
          /\ next' = next \/ next' = next + 1
      BY <2>1 DEF MapperReturns, TakeNext
    <3> QED BY <1>0, <1>t, <3>1, <3>2 DEF input, Caused, Begun, RInv
  <2>2. CASE MapperRejects(w)
    BY <1>0, <2>2 DEF MapperRejects, FirstError, input, Caused, Begun, RInv
  <2> QED BY <1>2, <2>1, <2>2 DEF Worker
<1>3. ASSUME NEW i \in Positions, Sdk(i) \/ ChangeFile(i) PROVE RInv'
  <2>1. UNCHANGED <<phase, input, next, failed, firstError>>
    BY <1>3 DEF Sdk, StartRequest, EndRequest, Commit, FailUpload, ChangeFile, pool
  <2> QED BY <1>0, <2>1 DEF input, Caused, Begun, RInv
<1>4. CASE Abort \/ Terminated \/ UNCHANGED vars
  BY <1>0, <1>4 DEF Abort, Terminated, vars, input, pool, Caused, Begun, RInv
<1> QED BY <1>1, <1>2, <1>3, <1>4 DEF Next

(* What the refinement needs of the reachable states.                      *)
LEMMA RefineInvariance == Spec => []RInv
<1>1. Init => Caused /\ Begun
  BY DEF Init, Caused, Begun
<1> QED BY <1>1, Invariance, RefineStep, PTL DEF Spec, RInv

(* The mapped status of a position, without a choice of guards.            *)
StatusOf(i) ==
  IF next = 1 \/ i > count THEN "absent"
  ELSE IF task[i] \in Taken THEN "running" ELSE task[i]
StatusNow == [i \in Positions |-> StatusOf(i)]
OutcomeNow ==
  IF next = 1 \/ phase \notin Settled THEN "pending"
  ELSE IF phase = "resolved" THEN "value" ELSE "error"

(* The mapping of Upload says the same in the states the pool reaches.      *)
LEMMA Mapped ==
  RInv => /\ MapStatus = StatusNow
          /\ MapOutcome = OutcomeNow
<1> SUFFICES ASSUME RInv
             PROVE  /\ MapStatus = StatusNow
                    /\ MapOutcome = OutcomeNow
  OBVIOUS
<1>1. next \in Nat /\ next > 0 /\ count \in Nat /\ (Started <=> next # 1)
  BY NextType DEF RInv, IInv, Begun, Started
<1>2. ASSUME NEW i \in Positions
      PROVE  (CASE ~Started \/ i > count -> "absent"
                [] task[i] \in Taken     -> "running"
                [] OTHER                 -> task[i]) = StatusOf(i)
  <2>1. task[i] \in Taken => Started /\ ~(i > count)
    BY <1>1, TakenStates DEF RInv, IInv, HandedOut, Positions
  <2>2. CASE ~Started \/ i > count
    BY <2>1, <2>2, <1>1 DEF StatusOf
  <2>3. CASE task[i] \in Taken
    BY <2>1, <2>3, <1>1 DEF StatusOf
  <2>4. CASE ~(~Started \/ i > count) /\ task[i] \notin Taken
    BY <2>4, <1>1 DEF StatusOf
  <2> QED BY <2>2, <2>3, <2>4
<1>3. MapOutcome = OutcomeNow
  <2>1. CASE Started /\ phase = "resolved"
    BY <2>1, <1>1 DEF MapOutcome, OutcomeNow, Settled
  <2>2. CASE Started /\ phase = "rejected"
    BY <2>2, <1>1 DEF MapOutcome, OutcomeNow, Settled
  <2>3. CASE ~Started \/ phase \notin Settled
    BY <2>3, <1>1 DEF MapOutcome, OutcomeNow, Settled
  <2> QED BY <2>1, <2>2, <2>3 DEF Settled
<1> QED BY <1>2, <1>3 DEF MapStatus, StatusNow

(* The same of the next state.                                             *)
LEMMA MappedNext ==
  RInv' => (MapStatus = StatusNow)' /\ (MapOutcome = OutcomeNow)'
  BY Mapped, PTL

(* A step that moves no task across a status of the map's is a stutter.    *)
LEMMA MapStutters ==
  ASSUME RInv, RInv', UNCHANGED <<count, next, firstError>>,
         \A i \in Positions : task'[i] = task[i] \/ (task[i] \in Taken /\ task'[i] \in Taken),
         OutcomeNow' = OutcomeNow
  PROVE  UNCHANGED Map!vars
<1>1. \A i \in Positions : StatusOf(i)' = StatusOf(i)
  BY DEF StatusOf
<1>2. StatusNow' = StatusNow
  BY <1>1 DEF StatusNow
<1> QED BY <1>2, Mapped, MappedNext DEF Map!vars

(* The cardinality of ConcurrentMap is that of this module.                *)
LEMMA SameCardinality == \A S : Map!Cardinality(S) = Cardinality(S)
  BY DEF Map!Cardinality, Cardinality

(* Starting the workers is the call.                                       *)
LEMMA MapCalls ==
  ASSUME RInv, RInv', NEW valid \in BOOLEAN, StartWorkers(valid)
  PROVE  Map!Call
<1>1. /\ WorkerCount \in Nat /\ WorkerCount <= count /\ WorkerCount <= Concurrency
      /\ WorkerCount > 0 /\ count \in Nat /\ count <= MaxFiles /\ count \in Positions
  BY WorkerCounts, NextType DEF RInv, IInv, Phases, StartWorkers, Positions
<1>2. phase = "plan" /\ next = 1 /\ phase' = "upload" /\ next' = WorkerCount + 1 /\ next' # 1
  BY <1>1 DEF StartWorkers, RInv, IInv, Phases
<1>3. UNCHANGED <<count, firstError>>
  BY DEF StartWorkers, input
<1>4. /\ MapStatus = [i \in Positions |-> "absent"] /\ MapOutcome = "pending"
  BY <1>2, Mapped DEF StatusNow, StatusOf, OutcomeNow
<1>5. MapOutcome' = "pending"
  BY <1>2, MappedNext DEF OutcomeNow, Settled
<1>6. \A i \in Positions :
        StatusOf(i)' = IF i > count THEN "absent"
                       ELSE IF i <= WorkerCount THEN "running" ELSE "todo"
  <2> SUFFICES ASSUME NEW i \in Positions
               PROVE  StatusOf(i)' = IF i > count THEN "absent"
                                     ELSE IF i <= WorkerCount THEN "running" ELSE "todo"
    OBVIOUS
  <2>1. task'[i] = IF i <= WorkerCount THEN "uploading" ELSE "todo"
    BY DEF StartWorkers
  <2> QED BY <2>1, <1>2, <1>3, TakenStates DEF StatusOf
<1> DEFINE R == 1 .. WorkerCount
<1>7. /\ R \in SUBSET (1 .. count) /\ R # {}
      /\ \A i \in R, j \in (1 .. count) \ R : i < j
  BY <1>1
<1>8. Map!Cardinality(R) <= Concurrency
  BY <1>1, FS_Interval, SameCardinality
<1>9. MapStatus' = [i \in Positions |-> CASE i \in R -> "running"
                                          [] i \in (1 .. count) \ R -> "todo"
                                          [] OTHER -> "absent"]
  <2>1. MapStatus' = [i \in Positions |-> StatusOf(i)']
    BY MappedNext DEF StatusNow
  <2>2. ASSUME NEW i \in Positions
        PROVE  StatusOf(i)' = CASE i \in R -> "running"
                                [] i \in (1 .. count) \ R -> "todo"
                                [] OTHER -> "absent"
    <3>1. i \in Nat /\ i >= 1
      BY DEF Positions
    <3>2. CASE i \in R
      BY <3>1, <3>2, <1>1, <1>6
    <3>3. CASE i \in (1 .. count) \ R
      BY <3>1, <3>3, <1>1, <1>6
    <3>4. CASE i \notin 1 .. count
      BY <3>1, <3>4, <1>1, <1>6
    <3> QED BY <3>2, <3>3, <3>4
  <2> QED BY <2>1, <2>2
<1>10. Map!With("absent") = Map!Positions /\ Map!Positions = Positions
  BY <1>4 DEF Map!With, Map!Positions, Positions
<1> HIDE DEF R
<1>11. Map!Next_in(R, 1 .. count)
  BY <1>7 DEF Map!Next_in
<1>12. UNCHANGED <<firstError, MapOutcome>>
  BY <1>3, <1>4, <1>5
<1> QED BY <1>1, <1>4, <1>7, <1>8, <1>9, <1>10, <1>11, <1>12 DEF Map!Call

(* A mapper that returns, and the position its worker takes next.          *)
LEMMA MapReturns ==
  ASSUME RInv, RInv', NEW w \in Workers, MapperReturns(w)
  PROVE  Map!Return(slot[w]) /\ slot[w] \in Map!Positions
<1> DEFINE i == slot[w]
           R == IF Takes THEN {next} ELSE {}
           x == IF aborted THEN "cancelled" ELSE "uploading"
<1>1. /\ i \in Positions /\ i <= count /\ task[i] = "stored"
      /\ UNCHANGED <<phase, count, failed, firstError>>
      /\ next' = IF failed THEN next ELSE next + 1
  BY SlotType DEF RInv, IInv, Holding, MapperReturns, TakeNext, input
<1>2. /\ next \in Nat /\ next > 1 /\ next' \in Nat /\ next' > 1 /\ count \in Nat
      /\ phase = "upload" /\ (Takes => next \in Positions)
  <2>1. phase = "upload"
    BY <1>1, TakenStates DEF RInv, IInv, Phases, TypeOK, Settled, Positions
  <2> QED BY <2>1, <1>1, NextType DEF RInv, IInv, Begun, Takes, Positions
<1>3. \A j \in Positions : task'[j] = IF j \in R THEN x ELSE IF j = i THEN "ok" ELSE task[j]
  BY <1>2 DEF MapperReturns, TakeNext, RInv, IInv, TypeOK
<1>4. x \in Taken
  BY TakenStates
<1>5. Map!With("todo") = {j \in Positions : j <= count /\ j >= next}
  <2>1. Map!With("todo") = {j \in Positions : StatusOf(j) = "todo"}
    BY Mapped DEF Map!With, Map!Positions, Positions, StatusNow
  <2>2. \A j \in Positions : StatusOf(j) = "todo" <=> j <= count /\ j >= next
    BY <1>2, TakenStates DEF StatusOf, RInv, IInv, HandedOut, Positions
  <2> QED BY <2>1, <2>2
<1>6. /\ R \in SUBSET Map!With("todo")
      /\ \A j \in R, k \in Map!With("todo") \ R : j < k
      /\ R # {} => firstError = 0
  BY <1>2, <1>5 DEF Takes, RInv, Caused, Positions
<1>7. Map!Cardinality(R) <= 1
  <2>1. CASE R = {}
    BY <2>1, FS_EmptySet, SameCardinality
  <2>2. CASE R = {next}
    <3>1. Cardinality({next}) = 1
      BY FS_Singleton
    <3> HIDE DEF R
    <3> QED BY <2>2, <3>1, SameCardinality
  <2> QED BY <2>1, <2>2
<1> HIDE DEF x
<1>8. i \notin R
  BY <1>1, <1>2, <1>5, <1>6 DEF RInv, IInv, HandedOut, Positions
<1>9. \A j \in Positions :
        StatusOf(j)' = CASE j = i -> "ok" [] j \in R -> "running" [] OTHER -> StatusOf(j)
  <2> SUFFICES ASSUME NEW j \in Positions
               PROVE  StatusOf(j)' = CASE j = i -> "ok" [] j \in R -> "running"
                                       [] OTHER -> StatusOf(j)
    OBVIOUS
  <2>1. CASE j = i
    BY <2>1, <1>1, <1>2, <1>3, <1>8, TakenStates DEF StatusOf, Positions
  <2>2. CASE j \in R
    BY <2>2, <1>1, <1>2, <1>3, <1>4, <1>5, <1>6, <1>8 DEF StatusOf
  <2>3. CASE j # i /\ j \notin R
    BY <2>3, <1>1, <1>2, <1>3 DEF StatusOf
  <2> QED BY <2>1, <2>2, <2>3
<1>10. MapStatus' = [j \in Positions |-> CASE j = i -> "ok" [] j \in R -> "running"
                                           [] OTHER -> MapStatus[j]]
  BY <1>9, Mapped, MappedNext DEF StatusNow
<1>11. MapOutcome' = MapOutcome
  BY <1>1, <1>2, Mapped, MappedNext DEF OutcomeNow, Settled
<1>12. MapStatus[i] = "running"
  BY <1>1, <1>2, Mapped, TakenStates DEF StatusNow, StatusOf, Positions
<1>13. Map!Positions = Positions
  BY DEF Map!Positions, Positions
<1> HIDE DEF R
<1>14. Map!Next_in(R, Map!With("todo"))
  BY <1>6 DEF Map!Next_in
<1>15. UNCHANGED <<firstError, MapOutcome>>
  BY <1>1, <1>11
<1>16. Map!Return(i)
  BY <1>6, <1>7, <1>10, <1>12, <1>13, <1>14, <1>15 DEF Map!Return
<1> QED BY <1>1, <1>13, <1>16

(* A mapper that rejects, and the first to do so as the cause.             *)
LEMMA MapRejects ==
  ASSUME RInv, RInv', NEW w \in Workers, MapperRejects(w)
  PROVE  Map!Reject(slot[w]) /\ slot[w] \in Map!Positions
<1> DEFINE i == slot[w]
<1>1. /\ i \in Positions /\ i <= count /\ task[i] \in Taken
      /\ UNCHANGED <<phase, count, next>>
  BY SlotType, TakenStates DEF RInv, IInv, Holding, MapperRejects, input
<1>2. next \in Nat /\ next > 1 /\ count \in Nat /\ phase = "upload"
  <2>1. phase = "upload"
    BY <1>1, TakenStates DEF RInv, IInv, Phases, TypeOK, Settled, Positions
  <2> QED BY <2>1, NextType DEF RInv, IInv, Begun
<1>3. \A j \in Positions : task'[j] = IF j = i THEN "err" ELSE task[j]
  BY DEF MapperRejects, RInv, IInv, TypeOK
<1>4. \A j \in Positions : StatusOf(j)' = IF j = i THEN "err" ELSE StatusOf(j)
  BY <1>1, <1>2, <1>3, TakenStates DEF StatusOf, Positions
<1>5. MapStatus' = [MapStatus EXCEPT ![i] = "err"] /\ MapStatus[i] = "running"
  BY <1>1, <1>2, <1>4, Mapped, MappedNext, TakenStates DEF StatusNow, StatusOf, Positions
<1>6. firstError' = IF firstError = 0 THEN i ELSE firstError
  BY DEF MapperRejects, FirstError, RInv, Caused
<1>7. MapOutcome' = MapOutcome
  BY <1>1, <1>2, Mapped, MappedNext DEF OutcomeNow, Settled
<1> QED BY <1>1, <1>5, <1>6, <1>7 DEF Map!Reject, Map!Positions, Positions

(* Settling, with no mapper left and everything mapped or a first error.   *)
LEMMA MapSettles ==
  ASSUME RInv, RInv', Settle
  PROVE  Map!Settle
<1>1. /\ phase = "upload" /\ next \in Nat /\ next > 1 /\ count \in Nat /\ count > 0
      /\ count <= MaxFiles /\ phase' = IF failed THEN "rejected" ELSE "resolved"
      /\ UNCHANGED <<count, next, firstError, task>>
  BY NextType DEF Settle, RInv, IInv, Phases, Begun, input, pool
<1>2. \A j \in Positions : task[j] \notin Taken
  BY DEF Settle, AllReturned, RInv, IInv, Holding, Positions
<1>3. ~failed => next > count
  BY <1>1 DEF RInv, IInv, Phases, Settled
<1>4. MapStatus = StatusNow /\ MapStatus' = StatusNow
  <2>1. \A j \in Positions : StatusOf(j)' = StatusOf(j)
    BY <1>1 DEF StatusOf
  <2> QED BY <2>1, Mapped, MappedNext DEF StatusNow
<1>5. MapOutcome = "pending" /\ MapOutcome' = IF firstError = 0 THEN "value" ELSE "error"
  BY <1>1, Mapped, MappedNext DEF OutcomeNow, Settled, RInv, Caused
<1>6. Map!With("absent") # Map!Positions
  <2>1. 1 \in Positions /\ StatusOf(1) # "absent"
    <3>1. 1 \in Positions /\ ~(1 > count) /\ next # 1
      BY <1>1, UploadAssumption DEF Positions
    <3>2. task[1] # "absent"
      BY <3>1 DEF RInv, IInv, TypeOK, Taken
    <3> QED BY <3>1, <3>2 DEF StatusOf
  <2> QED BY <2>1, <1>4 DEF Map!With, Map!Positions, StatusNow, Positions
<1>7. Map!With("running") = {}
  BY <1>2, <1>4, TakenStates DEF Map!With, Map!Positions, StatusNow, StatusOf, Positions,
                                 RInv, IInv, TypeOK
<1>8. firstError = 0 => Map!With("todo") = {}
  <2>1. ASSUME firstError = 0, NEW j \in Positions PROVE StatusOf(j) # "todo"
    <3>1. next > count
      BY <2>1, <1>3 DEF RInv, Caused
    <3> QED BY <3>1, <1>1, TakenStates DEF StatusOf, RInv, IInv, HandedOut, Positions
  <2> QED BY <2>1, <1>4 DEF Map!With, Map!Positions, StatusNow, Positions
<1> QED BY <1>1, <1>4, <1>5, <1>6, <1>7, <1>8 DEF Map!Settle

(* Everything else leaves the map as it is.                                *)
LEMMA MapOthers ==
  ASSUME RInv, RInv', NEW valid \in BOOLEAN, NEW i \in Positions,
         \/ Resolve \/ PlanRejects(valid) \/ Sdk(i) \/ ChangeFile(i)
         \/ Abort \/ Terminated \/ UNCHANGED vars
  PROVE  UNCHANGED Map!vars
<1>t. task \in [Positions -> TaskStates]
  BY DEF RInv, IInv, TypeOK, TaskStates
<1>1. CASE Resolve
  <2>1. next = 1 /\ next' = 1 /\ firstError' = firstError
    BY <1>1 DEF Resolve, pool, RInv, IInv, Phases
  <2>2. MapStatus' = MapStatus /\ MapOutcome' = MapOutcome
    BY <2>1, Mapped, MappedNext DEF StatusNow, StatusOf, OutcomeNow
  <2> QED BY <2>1, <2>2 DEF Map!vars
<1>2. CASE PlanRejects(valid)
  <2>1. next = 1 /\ next' = 1 /\ firstError' = firstError
    BY <1>2 DEF PlanRejects, pool, RInv, IInv, Phases
  <2>2. MapStatus' = MapStatus /\ MapOutcome' = MapOutcome
    BY <2>1, Mapped, MappedNext DEF StatusNow, StatusOf, OutcomeNow
  <2> QED BY <2>1, <2>2 DEF Map!vars
<1>3. CASE Commit(i) \/ FailUpload(i)
  <2>1. UNCHANGED <<phase, count, next, firstError>>
    BY <1>3 DEF Commit, FailUpload, input
  <2>2. \A j \in Positions : task'[j] = task[j] \/ (task[j] \in Taken /\ task'[j] \in Taken)
    BY <1>3, <1>t, TakenStates DEF Commit, FailUpload
  <2> QED BY <2>1, <2>2, MapStutters DEF OutcomeNow
<1>4. CASE \E p \in Permits : StartRequest(i, p) \/ EndRequest(i, p)
  <2>1. UNCHANGED <<phase, count, next, firstError, task>>
    BY <1>4 DEF StartRequest, EndRequest, input, pool
  <2> QED BY <2>1, MapStutters DEF OutcomeNow
<1>5. CASE ChangeFile(i) \/ Abort \/ Terminated \/ UNCHANGED vars
  <2>1. UNCHANGED <<phase, count, next, firstError, task>>
    BY <1>5 DEF ChangeFile, Abort, Terminated, vars, input, pool
  <2> QED BY <2>1, MapStutters DEF OutcomeNow
<1> QED BY <1>1, <1>2, <1>3, <1>4, <1>5 DEF Sdk

(* The upload phase implements ConcurrentMap: it calls the mapper on the   *)
(* files in order, at most `concurrency` at a time and each at most once,  *)
(* stops at the first failure, and settles on it when all have ended.      *)
THEOREM ImplementsConcurrentMap == Spec => ImplementsMap
<1>1. Init => Map!Init
  <2> SUFFICES ASSUME Init PROVE Map!Init
    OBVIOUS
  <2>1. ~Started /\ firstError = 0 /\ phase = "resolve"
    BY DEF Init, Started
  <2>2. MapStatus = [i \in Positions |-> "absent"]
    <3>1. \A i \in Positions : task[i] \notin Taken
      BY TakenStates DEF Init
    <3> QED BY <2>1, <3>1 DEF MapStatus
  <2>3. MapOutcome = "pending"
    BY <2>1 DEF MapOutcome
  <2> QED BY <2>1, <2>2, <2>3 DEF Map!Init, Map!Positions, Positions
<1>2. RInv /\ RInv' /\ [Next]_vars => [Map!Next]_(Map!vars)
  <2> SUFFICES ASSUME RInv, RInv', [Next]_vars PROVE [Map!Next]_(Map!vars)
    OBVIOUS
  <2>1. ASSUME NEW valid \in BOOLEAN, StartWorkers(valid) PROVE Map!Next
    BY <2>1, MapCalls DEF Map!Next
  <2>2. ASSUME NEW w \in Workers, Worker(w) PROVE Map!Next
    BY <2>2, MapReturns, MapRejects DEF Worker, Map!Next
  <2>3. CASE Settle
    BY <2>3, MapSettles DEF Map!Next
  <2>4. PICK one \in Positions : TRUE
    BY UploadAssumption DEF Positions
  <2>5. CASE Resolve \/ (\E valid \in BOOLEAN : PlanRejects(valid)) \/ Abort \/ Terminated
             \/ UNCHANGED vars
    BY <2>4, <2>5, MapOthers
  <2>6. ASSUME NEW i \in Positions, Sdk(i) \/ ChangeFile(i) PROVE UNCHANGED Map!vars
    BY <2>6, MapOthers
  <2> QED BY <2>1, <2>2, <2>3, <2>5, <2>6 DEF Next, Main
<1> QED BY <1>1, <1>2, RefineInvariance, PTL DEF Spec, ImplementsMap, Map!Spec
=============================================================================
