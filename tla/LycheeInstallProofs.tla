------------------------ MODULE LycheeInstallProofs ------------------------
(* Proofs about the installation of the link checker: any number of        *)
(* processes, any of which may be killed at any point.                     *)
EXTENDS LycheeInstall, FiniteSetTheorems, TLAPS

Places == {"idle", "wait", "confirm", "run"} \cup Locked \cup Over

Types ==
  /\ pc \in [Procs -> Places]
  /\ binary \in {"none", "bad", "good"} /\ download \in {"none", "bad", "good"}
  /\ lock \in Procs \cup {Nobody}

(* Only the maker of the lock is in the section that it guards.            *)
OneInstaller == \A p \in Procs : pc[p] \in Locked => lock = p

(* Who installs found no good binary, and puts only a verified one in.     *)
Installing == {"fetch", "pause", "verify", "unpack", "unlink", "rename"}
NothingToLose == \A p \in Procs : pc[p] \in Installing => binary # "good"
Checked == \A p \in Procs : pc[p] \in {"unpack", "unlink", "rename"} => download = "good"

IInv == Types /\ OneInstaller /\ NothingToLose /\ Checked /\ RunsOnlyVerified

-----------------------------------------------------------------------------
(* A process moves on without touching the binary, the lock or the         *)
(* download: what has to hold where it arrives.                            *)
LEMMA MoveKeeps ==
  ASSUME IInv, NEW p \in Procs, NEW l \in Places, Goto(p, l),
         UNCHANGED <<binary, lock, download>>,
         l \in Locked => pc[p] \in Locked,
         l \in Installing => binary # "good",
         l \in {"unpack", "unlink", "rename"} => download = "good",
         l = "run" => binary = "good"
  PROVE  IInv'
<1>1. \A q \in Procs : pc'[q] = IF q = p THEN l ELSE pc[q]
  BY DEF Goto, IInv, Types
<1>2. Types'
  BY DEF Goto, IInv, Types
<1>3. OneInstaller'
  BY <1>1 DEF IInv, OneInstaller
<1>4. NothingToLose' /\ Checked'
  BY <1>1 DEF IInv, NothingToLose, Checked
<1>5. RunsOnlyVerified'
  BY <1>1 DEF IInv, RunsOnlyVerified
<1> QED BY <1>2, <1>3, <1>4, <1>5 DEF IInv

(* The lock is taken when there was none, or given back.                   *)
LEMMA TakeLockKeeps == ASSUME IInv, NEW p \in Procs, TakeLock(p) PROVE IInv'
<1>1. /\ lock = Nobody /\ lock' = p /\ Goto(p, "recheck")
      /\ download' = "none" /\ UNCHANGED binary
  BY DEF TakeLock
<1>2. \A q \in Procs : pc'[q] = IF q = p THEN "recheck" ELSE pc[q]
  BY <1>1 DEF Goto, IInv, Types
<1>3. \A q \in Procs : pc[q] \notin Locked
  BY <1>1, LycheeAssumption DEF IInv, OneInstaller
<1>4. Types'
  BY <1>1 DEF Goto, IInv, Types, Places, Locked
<1>5. OneInstaller'
  BY <1>1, <1>2, <1>3 DEF OneInstaller
<1>6. NothingToLose' /\ Checked'
  BY <1>2, <1>3 DEF NothingToLose, Checked, Installing, Locked
<1>7. RunsOnlyVerified'
  BY <1>1, <1>2 DEF IInv, RunsOnlyVerified
<1> QED BY <1>4, <1>5, <1>6, <1>7 DEF IInv

LEMMA ReleaseLockKeeps == ASSUME IInv, NEW p \in Procs, ReleaseLock(p) PROVE IInv'
<1>1. PICK l \in {"failed", "confirm"} : Goto(p, l)
  BY DEF ReleaseLock
<1>2. pc[p] = "release" /\ lock' = Nobody /\ UNCHANGED <<binary, download>>
  BY DEF ReleaseLock, install
<1>3. \A q \in Procs : pc'[q] = IF q = p THEN l ELSE pc[q]
  BY <1>1 DEF Goto, IInv, Types
<1>4. \A q \in Procs : q # p => pc[q] \notin Locked
  BY <1>2 DEF IInv, OneInstaller, Locked
<1>5. Types'
  BY <1>1, <1>2 DEF Goto, IInv, Types, Places, Over
<1>6. OneInstaller'
  BY <1>3, <1>4 DEF OneInstaller, Locked
<1>7. NothingToLose' /\ Checked'
  BY <1>3, <1>4 DEF NothingToLose, Checked, Installing, Locked
<1>8. RunsOnlyVerified'
  BY <1>2, <1>3 DEF IInv, RunsOnlyVerified
<1> QED BY <1>5, <1>6, <1>7, <1>8 DEF IInv

-----------------------------------------------------------------------------
(* What is downloaded concerns nobody but the installer.                   *)
LEMMA DownloadSucceedsKeeps == ASSUME IInv, NEW p \in Procs, DownloadSucceeds(p) PROVE IInv'
<1>1. /\ pc[p] = "fetch" /\ Goto(p, "verify") /\ download' \in {"good", "bad"}
      /\ UNCHANGED <<binary, lock>>
  BY DEF DownloadSucceeds
<1>2. \A q \in Procs : pc'[q] = IF q = p THEN "verify" ELSE pc[q]
  BY <1>1 DEF Goto, IInv, Types
<1>3. \A q \in Procs : q # p => pc[q] \notin Locked
  BY <1>1 DEF IInv, OneInstaller, Locked
<1>4. Types' /\ OneInstaller'
  BY <1>1, <1>2 DEF Goto, IInv, Types, Places, OneInstaller, Locked
<1>5. NothingToLose' /\ Checked'
  BY <1>1, <1>2, <1>3 DEF IInv, NothingToLose, Checked, Installing, Locked
<1>6. RunsOnlyVerified'
  BY <1>1, <1>2 DEF IInv, RunsOnlyVerified
<1> QED BY <1>4, <1>5, <1>6 DEF IInv

LEMMA CleanupKeeps == ASSUME IInv, NEW p \in Procs, Cleanup(p) PROVE IInv'
<1>1. /\ pc[p] = "cleanup" /\ Goto(p, "release") /\ download' = "none"
      /\ UNCHANGED <<binary, lock>>
  BY DEF Cleanup
<1>2. \A q \in Procs : pc'[q] = IF q = p THEN "release" ELSE pc[q]
  BY <1>1 DEF Goto, IInv, Types
<1>3. \A q \in Procs : q # p => pc[q] \notin Locked
  BY <1>1 DEF IInv, OneInstaller, Locked
<1>4. Types' /\ OneInstaller'
  BY <1>1, <1>2 DEF Goto, IInv, Types, Places, OneInstaller, Locked
<1>5. NothingToLose' /\ Checked'
  BY <1>2, <1>3 DEF NothingToLose, Checked, Installing, Locked
<1>6. RunsOnlyVerified'
  BY <1>1, <1>2 DEF IInv, RunsOnlyVerified
<1> QED BY <1>4, <1>5, <1>6 DEF IInv

(* The binary is only ever replaced by the installer, when none is good    *)
(* and so nobody is about to run it.                                       *)
LEMMA UnlinkOldKeeps == ASSUME IInv, NEW p \in Procs, UnlinkOld(p) PROVE IInv'
<1>1. CASE binary' = "none" /\ Goto(p, "rename") /\ UNCHANGED <<lock, download>>
  <2>1. pc[p] = "unlink" /\ binary # "good" /\ download = "good"
    BY DEF UnlinkOld, IInv, NothingToLose, Checked, Installing
  <2>2. \A q \in Procs : pc'[q] = IF q = p THEN "rename" ELSE pc[q]
    BY <1>1 DEF Goto, IInv, Types
  <2>3. Types' /\ OneInstaller'
    BY <1>1, <2>1, <2>2 DEF Goto, IInv, Types, Places, OneInstaller, Locked
  <2>4. NothingToLose' /\ Checked'
    BY <1>1, <2>1 DEF IInv, NothingToLose, Checked
  <2>5. RunsOnlyVerified'
    BY <2>1, <2>2 DEF IInv, RunsOnlyVerified
  <2> QED BY <2>3, <2>4, <2>5 DEF IInv
<1>2. CASE Goto(p, "cleanup") /\ UNCHANGED <<binary, lock, download>>
  BY <1>2, MoveKeeps DEF UnlinkOld, Places, Locked, Installing
<1> QED BY <1>1, <1>2 DEF UnlinkOld, Throws

LEMMA RenameNewKeeps == ASSUME IInv, NEW p \in Procs, RenameNew(p) PROVE IInv'
<1>1. CASE binary' = download /\ Goto(p, "cleanup") /\ UNCHANGED <<lock, download>>
  <2>1. pc[p] = "rename" /\ download = "good"
    BY DEF RenameNew, IInv, Checked
  <2>2. \A q \in Procs : pc'[q] = IF q = p THEN "cleanup" ELSE pc[q]
    BY <1>1 DEF Goto, IInv, Types
  <2>3. \A q \in Procs : q # p => pc[q] \notin Locked
    BY <2>1 DEF IInv, OneInstaller, Locked
  <2>4. Types' /\ OneInstaller'
    BY <1>1, <2>1, <2>2 DEF Goto, IInv, Types, Places, OneInstaller, Locked
  <2>5. NothingToLose' /\ Checked'
    BY <2>2, <2>3 DEF NothingToLose, Checked, Installing, Locked
  <2>6. RunsOnlyVerified'
    BY <1>1, <2>1 DEF RunsOnlyVerified
  <2> QED BY <2>4, <2>5, <2>6 DEF IInv
<1>2. CASE Goto(p, "cleanup") /\ UNCHANGED <<binary, lock, download>>
  BY <1>2, MoveKeeps DEF RenameNew, Places, Locked, Installing
<1> QED BY <1>1, <1>2 DEF RenameNew, Throws

-----------------------------------------------------------------------------
(* The other steps of a process are moves. *)
LEMMA WaitStepsKeep ==
  ASSUME IInv, NEW p \in Procs, Start(p) \/ GiveUp(p) \/ CannotLock(p) \/ Die(p)
  PROVE  IInv'
<1>1. CASE Start(p)
  <2>1. PICK l \in {"run", "wait"} : Goto(p, l) /\ (l = "run" => binary = "good")
    BY <1>1 DEF Start
  <2>2. UNCHANGED <<binary, lock, download>>
    BY <1>1 DEF Start, install
  <2> QED BY <2>1, <2>2, MoveKeeps DEF Places, Locked, Installing
<1>2. ASSUME NEW l \in {"failed", "dead"}, StopsWaiting(p, l) PROVE IInv'
  <2>1. Goto(p, l) /\ UNCHANGED <<binary, lock, download>>
    BY <1>2 DEF StopsWaiting, install
  <2> QED BY <2>1, MoveKeeps DEF Places, Over, Locked, Installing
<1> QED BY <1>1, <1>2 DEF GiveUp, CannotLock, Die

LEMMA InstallStepsKeep ==
  ASSUME IInv, NEW p \in Procs,
         Recheck(p) \/ DownloadFails(p) \/ RetryDownload(p) \/ VerifyDownload(p) \/ Unpack(p)
  PROVE  IInv'
<1>1. CASE Recheck(p)
  <2>1. PICK l \in {"release", "fetch"} : Goto(p, l) /\ (l = "fetch" => binary # "good")
    BY <1>1 DEF Recheck, AfterRecheck
  <2>2. pc[p] = "recheck" /\ UNCHANGED <<binary, lock, download>>
    BY <1>1 DEF Recheck
  <2> QED BY <2>1, <2>2, MoveKeeps DEF Places, Locked, Installing
<1>2. CASE DownloadFails(p) \/ RetryDownload(p) \/ VerifyDownload(p) \/ Unpack(p)
  <2>1. pc[p] \in Installing /\ UNCHANGED <<binary, lock, download>>
    BY <1>2 DEF DownloadFails, RetryDownload, VerifyDownload, Unpack, Installing
  <2>2. PICK l \in {"pause", "cleanup", "fetch", "unpack", "unlink"} :
          Goto(p, l) /\ (l \in {"unpack", "unlink"} => download = "good")
    BY <1>2 DEF DownloadFails, RetryDownload, VerifyDownload, Unpack, Throws, IInv, Checked
  <2>3. binary # "good"
    BY <2>1 DEF IInv, NothingToLose
  <2> QED BY <2>1, <2>2, <2>3, MoveKeeps DEF Places, Locked, Installing
<1> QED BY <1>1, <1>2

LEMMA RunStepsKeep == ASSUME IInv, NEW p \in Procs, Confirm(p) \/ Spawn(p) PROVE IInv'
<1>1. PICK l \in {"run", "failed", "done"} : Goto(p, l) /\ (l = "run" => binary = "good")
  BY DEF Confirm, Spawn
<1>2. UNCHANGED <<binary, lock, download>>
  BY DEF Confirm, Spawn, install
<1> QED BY <1>1, <1>2, MoveKeeps DEF Places, Over, Locked, Installing

LEMMA StepKeeps == IInv /\ [Next]_vars => IInv'
<1> SUFFICES ASSUME IInv, [Next]_vars PROVE IInv'
  OBVIOUS
<1>1. ASSUME NEW p \in Procs, Start(p) \/ Step(p) \/ CannotLock(p) \/ Die(p) PROVE IInv'
  BY <1>1, TakeLockKeeps, ReleaseLockKeeps, DownloadSucceedsKeeps, CleanupKeeps,
     UnlinkOldKeeps, RenameNewKeeps, WaitStepsKeep, InstallStepsKeep, RunStepsKeep DEF Step
<1>2. CASE RemoveStaleLock
  <2>1. /\ UNCHANGED <<pc, binary, download>> /\ lock' = Nobody
        /\ \A p \in Procs : pc[p] \in Over \cup {"idle"}
    BY <1>2 DEF RemoveStaleLock, install
  <2>2. OneInstaller'
    BY <2>1 DEF OneInstaller, Over, Locked
  <2> QED BY <2>1, <2>2 DEF IInv, Types, NothingToLose, Checked, RunsOnlyVerified
<1>3. CASE UNCHANGED <<pc, binary, lock, download>>
  BY <1>3 DEF IInv, Types, OneInstaller, NothingToLose, Checked, RunsOnlyVerified
<1>4. Tick \/ UNCHANGED vars => UNCHANGED <<pc, binary, lock, download>>
  BY DEF Tick, vars, install
<1> QED BY <1>1, <1>2, <1>3, <1>4 DEF Next, Terminated

(* The invariant holds in every reachable state. *)
THEOREM LycheeInvariance == Spec => []IInv
<1>1. Init => IInv
  BY DEF Init, IInv, Types, Places, OneInstaller, NothingToLose, Checked, RunsOnlyVerified,
         Installing, Locked
<1> QED BY <1>1, StepKeeps, PTL DEF Spec

(* Two processes are never in the section that the lock guards, whoever    *)
(* was killed in it before.                                                *)
THEOREM InstallsAlone ==
  Spec => [](\A p, q \in Procs : pc[p] \in Locked /\ pc[q] \in Locked => p = q)
<1>1. IInv => \A p, q \in Procs : pc[p] \in Locked /\ pc[q] \in Locked => p = q
  BY DEF IInv, OneInstaller
<1> QED BY <1>1, LycheeInvariance, PTL

(* The binary that a process is about to run has the pinned digest, though *)
(* others install and die at the same time.                                *)
THEOREM RunsVerified == Spec => []RunsOnlyVerified
<1>1. IInv => RunsOnlyVerified
  BY DEF IInv
<1> QED BY <1>1, LycheeInvariance, PTL

-----------------------------------------------------------------------------
(* How long a live installation can take.  Times are doubled, for the      *)
(* pauses of a attempts are a * (a - 1) / 2 of the first.                  *)
Tries(a)  == 2 * (a * Timeout)
Pauses(a) == (a * (a - 1)) * Delay

LEMMA ProductGrows ==
  ASSUME NEW x \in Nat, NEW y \in Nat, NEW z \in Nat, x <= y
  PROVE  x * z \in Nat /\ x * z <= y * z
<1> DEFINE d == y - x
<1>1. d \in Nat /\ y = x + d
  OBVIOUS
<1> HIDE DEF d
<1>2. y * z = x * z + d * z /\ d * z \in Nat /\ x * z \in Nat
  BY <1>1
<1> QED BY <1>2

LEMMA TriesGrow ==
  /\ \A a \in Nat : Tries(a) \in Nat /\ Tries(a + 1) = Tries(a) + 2 * Timeout
  /\ \A a, b \in Nat : a <= b => Tries(a) <= Tries(b)
<1>0. Timeout \in Nat
  BY LycheeAssumption
<1>1. ASSUME NEW a \in Nat PROVE Tries(a) \in Nat /\ Tries(a + 1) = Tries(a) + 2 * Timeout
  <2>1. (a + 1) * Timeout = a * Timeout + Timeout /\ a * Timeout \in Nat
    BY <1>0
  <2> QED BY <1>0, <2>1 DEF Tries
<1>2. ASSUME NEW a \in Nat, NEW b \in Nat, a <= b PROVE Tries(a) <= Tries(b)
  <2>1. a * Timeout \in Nat /\ b * Timeout \in Nat /\ a * Timeout <= b * Timeout
    BY <1>0, <1>2, ProductGrows
  <2> QED BY <2>1 DEF Tries
<1> QED BY <1>1, <1>2

LEMMA PausesGrow ==
  /\ Pauses(1) = 0
  /\ \A a \in Nat : a > 0 => /\ Pauses(a) \in Nat /\ a * Delay \in Nat
                            /\ Pauses(a + 1) = Pauses(a) + 2 * (a * Delay)
  /\ \A a, b \in Nat : 0 < a /\ a <= b => Pauses(a) <= Pauses(b)
<1>0. Delay \in Nat
  BY LycheeAssumption
<1>1. Pauses(1) = 0
  BY <1>0 DEF Pauses
<1>2. ASSUME NEW a \in Nat, a > 0
      PROVE  /\ Pauses(a) \in Nat /\ a * Delay \in Nat /\ a * (a - 1) \in Nat
             /\ Pauses(a + 1) = Pauses(a) + 2 * (a * Delay)
  <2>1. a * (a - 1) \in Nat /\ (a + 1) * a = a * (a - 1) + 2 * a
    BY <1>2
  <2>2. (a + 1) * ((a + 1) - 1) = (a + 1) * a
    OBVIOUS
  <2> DEFINE m == a * (a - 1)
  <2>3. m \in Nat /\ Pauses(a) = m * Delay /\ Pauses(a + 1) = (m + 2 * a) * Delay
    BY <2>1, <2>2 DEF Pauses
  <2> HIDE DEF m
  <2>4. (m + 2 * a) * Delay = m * Delay + 2 * (a * Delay) /\ m * Delay \in Nat /\ a * Delay \in Nat
    BY <1>0, <2>3
  <2> QED BY <2>1, <2>3, <2>4
<1>3. ASSUME NEW a \in Nat, NEW b \in Nat, 0 < a, a <= b PROVE Pauses(a) <= Pauses(b)
  <2>1. a * (a - 1) \in Nat /\ b * (b - 1) \in Nat
    BY <1>2, <1>3
  <2>2. a * (a - 1) <= b * (b - 1)
    <3>1. a - 1 \in Nat /\ b - 1 \in Nat /\ a - 1 <= b - 1
      BY <1>3
    <3> DEFINE c == a - 1
               d == b - 1
    <3>2. c \in Nat /\ d \in Nat /\ c <= d
      BY <3>1
    <3>3. a * c = c * a /\ b * c = c * b /\ b * d = d * b
      BY <3>1
    <3> HIDE DEF c, d
    <3>4. a * c <= b * c /\ c * b <= d * b /\ a * c \in Nat /\ b * c \in Nat /\ d * b \in Nat
      BY <1>3, <3>2, ProductGrows
    <3>5. a * c <= b * d
      BY <3>3, <3>4
    <3> QED BY <3>5 DEF c, d
  <2> QED BY <1>0, <2>1, <2>2, ProductGrows DEF Pauses
<1> QED BY <1>1, <1>2, <1>3

(* The deadline of the lock covers all attempts, all pauses and the rest.  *)
LEMMA DeadlineCovers ==
  ASSUME NEW w \in Nat, 2 * w <= Tries(Attempts) + Pauses(Attempts) + 2 * Grace
  PROVE  w <= LockTimeout
<1> DEFINE m == Pauses(Attempts)
           k == Attempts * Timeout
<1>1. m \in Nat /\ k \in Nat /\ Grace \in Nat
  BY PausesGrow, LycheeAssumption
<1>2. LockTimeout = k + m \div 2 + Grace /\ 2 * w <= 2 * k + m + 2 * Grace
  BY LycheeAssumption DEF LockTimeout, Pauses, Tries
<1> HIDE DEF m, k
<1> QED BY <1>1, <1>2

(* The times are numbers, and those of an installation stay within what    *)
(* they are for.                                                           *)
Times ==
  /\ attempt \in Nat /\ spent \in Nat /\ worked \in Nat
  /\ waited \in [Procs -> Nat] /\ holders \in [Procs -> SUBSET Procs]
  /\ worked <= Grace

(* The maker of the lock installs or is dead.                              *)
Installer ==
  lock # Nobody =>
    /\ pc[lock] \in Locked \cup {"dead"}
    /\ pc[lock] = "recheck" => spent = 0
    /\ pc[lock] = "fetch" => attempt > 0 /\ attempt <= Attempts /\ spent <= Timeout
    /\ pc[lock] = "pause" => attempt > 0 /\ attempt < Attempts /\ spent <= attempt * Delay

(* What a waiting process knows: who has held the lock is no longer, and   *)
(* was not, waiting itself, and is the present one if there is one.        *)
Witnessed ==
  /\ \A p \in Procs : pc[p] = "idle" => waited[p] = 0
  /\ \A p \in Waiting :
       /\ IsFiniteSet(holders[p])
       /\ lock # Nobody => lock \in holders[p]
       /\ holders[p] = {} => waited[p] = 0
       /\ \A q \in holders[p] : pc[q] \notin {"idle", "wait"}

(* The time that the installation can have taken by now.                   *)
Elapsed ==
  2 * worked +
    (IF pc[lock] = "recheck" THEN 0
     ELSE IF pc[lock] = "fetch" THEN Tries(attempt - 1) + Pauses(attempt) + 2 * spent
     ELSE IF pc[lock] = "pause" THEN Tries(attempt) + Pauses(attempt) + 2 * spent
     ELSE Tries(Attempts) + Pauses(Attempts))

(* Who has waited for one live installation has not waited longer.         *)
Patient ==
  lock # Nobody /\ pc[lock] # "dead" =>
    \A p \in Waiting : holders[p] = {lock} => 2 * waited[p] <= Elapsed

TInv == Times /\ Installer /\ Witnessed /\ Patient

(* It is within what the deadline was derived from.                        *)
LEMMA ElapsedBounded ==
  ASSUME Times, Installer, lock # Nobody, pc[lock] \in Locked
  PROVE  /\ Elapsed \in Nat
         /\ Elapsed <= Tries(Attempts) + Pauses(Attempts) + 2 * worked
<1>1. /\ attempt \in Nat /\ spent \in Nat /\ worked \in Nat /\ Attempts \in Nat /\ Attempts > 0
      /\ Timeout \in Nat /\ Tries(Attempts) \in Nat /\ Pauses(Attempts) \in Nat
  <2>1. Attempts \in Nat /\ Attempts > 0 /\ Timeout \in Nat
    BY LycheeAssumption
  <2> QED BY <2>1, TriesGrow, PausesGrow DEF Times
<1>2. CASE pc[lock] = "recheck"
  BY <1>1, <1>2 DEF Elapsed
<1>3. CASE pc[lock] = "fetch"
  <2>1. attempt - 1 \in Nat /\ attempt = (attempt - 1) + 1 /\ attempt <= Attempts /\ spent <= Timeout
    BY <1>1, <1>3 DEF Installer
  <2>2. /\ Tries(attempt - 1) \in Nat /\ Tries(attempt) = Tries(attempt - 1) + 2 * Timeout
        /\ Tries(attempt) <= Tries(Attempts)
    BY <1>1, <2>1, TriesGrow
  <2>3. Pauses(attempt) \in Nat /\ Pauses(attempt) <= Pauses(Attempts)
    BY <1>1, <2>1, PausesGrow
  <2>4. Elapsed = 2 * worked + (Tries(attempt - 1) + Pauses(attempt) + 2 * spent)
    BY <1>3 DEF Elapsed
  <2> QED BY <1>1, <2>1, <2>2, <2>3, <2>4
<1>4. CASE pc[lock] = "pause"
  <2>1. attempt > 0 /\ attempt + 1 \in Nat /\ attempt + 1 <= Attempts /\ spent <= attempt * Delay
    BY <1>1, <1>4 DEF Installer
  <2>2. Tries(attempt) \in Nat /\ Tries(attempt) <= Tries(Attempts)
    BY <1>1, <2>1, TriesGrow
  <2>3. /\ Pauses(attempt) \in Nat /\ attempt * Delay \in Nat
        /\ Pauses(attempt + 1) = Pauses(attempt) + 2 * (attempt * Delay)
        /\ Pauses(attempt + 1) <= Pauses(Attempts)
    BY <1>1, <2>1, PausesGrow
  <2>4. Elapsed = 2 * worked + (Tries(attempt) + Pauses(attempt) + 2 * spent)
    BY <1>4 DEF Elapsed
  <2> QED BY <1>1, <2>1, <2>2, <2>3, <2>4
<1>5. CASE pc[lock] \notin {"recheck", "fetch", "pause"}
  BY <1>1, <1>5 DEF Elapsed
<1> QED BY <1>2, <1>3, <1>4, <1>5

(* The same of the next state.                                             *)
LEMMA ElapsedNumber ==
  Times /\ Installer /\ lock # Nobody /\ pc[lock] \in Locked => Elapsed \in Nat
  BY ElapsedBounded
LEMMA ElapsedNext ==
  (Times /\ Installer /\ lock # Nobody /\ pc[lock] \in Locked => Elapsed \in Nat)'
  BY ElapsedNumber, PTL

(* A process moves on, no longer idle or waiting: the others wait for the   *)
(* same installation, which has taken no less.                             *)
LEMMA MoveInTime ==
  ASSUME IInv, TInv, Times', Installer',
         NEW p \in Procs, NEW l \in Places \ {"idle", "wait"}, Goto(p, l), pc[p] # "dead",
         lock' = lock, lock # Nobody /\ pc'[lock] # "dead" => Elapsed <= Elapsed',
         \A q \in Procs \ {p} : waited'[q] = waited[q] /\ holders'[q] = holders[q]
  PROVE  TInv'
<1>1. /\ \A q \in Procs : pc'[q] = IF q = p THEN l ELSE pc[q]
      /\ Waiting' = Waiting \ {p}
  BY DEF Goto, IInv, Types, Waiting
<1>2. Witnessed'
  <2>1. \A q \in Procs : pc'[q] = "idle" => waited'[q] = 0
    BY <1>1 DEF TInv, Witnessed
  <2>2. ASSUME NEW q \in Waiting'
        PROVE  /\ q \in Waiting /\ waited'[q] = waited[q] /\ holders'[q] = holders[q]
               /\ holders[q] \subseteq Procs
    BY <1>1, <2>2 DEF TInv, Times, Waiting
  <2>3. \A q \in Waiting' : \A r \in holders'[q] : pc'[r] \notin {"idle", "wait"}
    BY <1>1, <2>2 DEF TInv, Witnessed
  <2>4. \A q \in Waiting' : /\ IsFiniteSet(holders'[q])
                            /\ lock' # Nobody => lock' \in holders'[q]
                            /\ holders'[q] = {} => waited'[q] = 0
    BY <2>2 DEF TInv, Witnessed
  <2> QED BY <2>1, <2>3, <2>4 DEF Witnessed
<1>3. Patient'
  <2> SUFFICES ASSUME lock # Nobody, pc'[lock] # "dead",
                      NEW q \in Waiting', holders'[q] = {lock}
               PROVE  2 * waited'[q] <= Elapsed'
    BY DEF Patient
  <2>0. lock \in Procs
    BY DEF IInv, Types
  <2>1. q \in Waiting /\ waited'[q] = waited[q] /\ holders[q] = {lock}
    BY <1>1 DEF Waiting
  <2>2. pc[lock] # "dead"
    BY <1>1, <2>0
  <2>3. 2 * waited[q] <= Elapsed
    BY <2>1, <2>2 DEF TInv, Patient
  <2>4. pc'[lock] \in Locked /\ pc[lock] \in Locked
    BY <2>2, <2>0 DEF TInv, Installer
  <2>5. Elapsed \in Nat
    BY <2>4, ElapsedBounded DEF TInv
  <2>6. Elapsed' \in Nat
    BY <2>4, ElapsedNext
  <2>7. waited[q] \in Nat
    BY <2>1 DEF TInv, Times, Waiting
  <2> QED BY <2>1, <2>3, <2>5, <2>6, <2>7
<1> QED BY <1>2, <1>3 DEF TInv

(* Steps of a process that does not install, or that dies.                 *)
LEMMA OthersInTime ==
  ASSUME IInv, TInv, NEW p \in Procs,
         \/ Start(p) /\ pc'[p] # "wait"
         \/ GiveUp(p) \/ CannotLock(p) \/ Confirm(p) \/ Spawn(p) \/ Die(p)
  PROVE  TInv'
<1>1. PICK l \in Places \ {"idle", "wait"} : Goto(p, l) /\ (Die(p) => l = "dead")
  <2>1. CASE Start(p) /\ pc'[p] # "wait"
    BY <2>1 DEF Start, Goto, IInv, Types, Places, Die, StopsWaiting, Over
  <2>2. CASE GiveUp(p) \/ CannotLock(p) \/ Die(p)
    BY <2>2 DEF GiveUp, CannotLock, Die, StopsWaiting, Places, Over
  <2>3. CASE Confirm(p) \/ Spawn(p)
    BY <2>3 DEF Confirm, Spawn, Die, Places, Over, StopsWaiting, Goto, IInv, Types
  <2> QED BY <2>1, <2>2, <2>3
<1>2. /\ UNCHANGED <<lock, attempt, spent, worked>> /\ pc[p] # "dead"
      /\ waited' = waited \/ waited' = [waited EXCEPT ![p] = 0]
      /\ \/ holders' = holders
         \/ \E H \in {{}, {lock} \ {Nobody}} : holders' = [holders EXCEPT ![p] = H]
  BY DEF Start, GiveUp, CannotLock, Confirm, Spawn, Die, StopsWaiting, install, Over
<1>3. Times'
  BY <1>2 DEF TInv, Times, IInv, Types
<1>4. lock = p => l = "dead"
  BY <1>1, LycheeAssumption DEF TInv, Installer, Start, GiveUp, CannotLock, Confirm, Spawn, Locked
<1>5. lock # Nobody => pc'[lock] = "dead" \/ pc'[lock] = pc[lock]
  BY <1>1, <1>4 DEF Goto, IInv, Types
<1>6. Installer'
  BY <1>2, <1>5 DEF TInv, Installer
<1>7. lock # Nobody /\ pc'[lock] # "dead" => Elapsed' = Elapsed
  BY <1>2, <1>5 DEF Elapsed
<1>8. lock # Nobody /\ pc'[lock] # "dead" => Elapsed \in Nat
  BY <1>5, ElapsedNumber DEF TInv, Installer
<1>9. \A q \in Procs \ {p} : waited'[q] = waited[q] /\ holders'[q] = holders[q]
  BY <1>2 DEF TInv, Times
<1> QED BY <1>1, <1>2, <1>3, <1>6, <1>7, <1>8, <1>9, MoveInTime

(* Steps of the installation: what they may have taken adds up.            *)
LEMMA InstallInTime ==
  ASSUME IInv, TInv, NEW p \in Procs,
         \/ Recheck(p) \/ DownloadSucceeds(p) \/ DownloadFails(p) \/ RetryDownload(p)
         \/ VerifyDownload(p) \/ Unpack(p) \/ UnlinkOld(p) \/ RenameNew(p) \/ Cleanup(p)
  PROVE  TInv'
<1>1. pc[p] \in Locked /\ UNCHANGED <<lock, worked, waited, holders>>
  BY DEF Recheck, DownloadSucceeds, DownloadFails, RetryDownload, VerifyDownload, Unpack,
         UnlinkOld, RenameNew, Cleanup, Locked
<1>2. lock = p /\ lock # Nobody
  BY <1>1, LycheeAssumption DEF IInv, OneInstaller
<1>3. /\ attempt \in Nat /\ spent \in Nat /\ worked \in Nat /\ Attempts \in Nat /\ Attempts > 0
      /\ Timeout \in Nat /\ Delay \in Nat
  BY LycheeAssumption DEF TInv, Times
<1>4. /\ Elapsed \in Nat /\ Elapsed <= Tries(Attempts) + Pauses(Attempts) + 2 * worked
      /\ Tries(Attempts) \in Nat /\ Pauses(Attempts) \in Nat
  BY <1>1, <1>2, <1>3, ElapsedBounded, TriesGrow, PausesGrow DEF TInv
<1>5. ASSUME NEW l \in Locked, Goto(p, l), attempt' \in Nat, spent' \in Nat, l # "recheck",
             l = "fetch" => attempt' > 0 /\ attempt' <= Attempts /\ spent' <= Timeout,
             l = "pause" => attempt' > 0 /\ attempt' < Attempts /\ spent' <= attempt' * Delay,
             l \in {"fetch", "pause"} => Elapsed <= Elapsed'
      PROVE  TInv'
  <2>1. pc'[lock] = l
    BY <1>2, <1>5 DEF Goto, IInv, Types
  <2>2. Times' /\ Installer'
    BY <1>1, <1>5, <2>1 DEF TInv, Times, Installer
  <2>3. Elapsed <= Elapsed'
    <3>1. CASE l \in {"fetch", "pause"}
      BY <3>1, <1>5
    <3>2. CASE l \notin {"fetch", "pause"}
      <4>1. Elapsed' = 2 * worked + (Tries(Attempts) + Pauses(Attempts))
        BY <3>2, <2>1, <1>1, <1>5 DEF Elapsed, Tries, Pauses
      <4> QED BY <4>1, <1>3, <1>4
    <3> QED BY <3>1, <3>2
  <2>4. l \in Places \ {"idle", "wait"} /\ pc[p] # "dead"
    BY <1>1 DEF Places, Locked
  <2> QED BY <1>1, <1>5, <2>2, <2>3, <2>4, MoveInTime
<1>6. CASE Recheck(p)
  <2>1. PICK l \in {"release", "fetch"} : Goto(p, l)
    BY <1>6 DEF Recheck, AfterRecheck
  <2>2. /\ pc[lock] = "recheck" /\ attempt' = 1 /\ spent' = spent /\ spent = 0
    BY <1>2, <1>6 DEF Recheck, TInv, Installer
  <2>3. l = "fetch" => Elapsed <= Elapsed'
    <3>1. Elapsed = 2 * worked
      BY <2>2, <1>3 DEF Elapsed
    <3>2. Tries(0) \in Nat /\ Pauses(1) = 0
      BY TriesGrow, PausesGrow
    <3>3. ASSUME l = "fetch" PROVE Elapsed' = 2 * worked + (Tries(0) + Pauses(1) + 0)
      <4>1. pc'[lock'] = "fetch"
        BY <3>3, <2>1, <1>1, <1>2 DEF Goto, IInv, Types
      <4>2. Tries(attempt - 1)' = Tries(0) /\ Pauses(attempt)' = Pauses(1)
        BY <2>2 DEF Tries, Pauses
      <4> QED BY <4>1, <4>2, <2>2, <1>1 DEF Elapsed
    <3> QED BY <3>1, <3>2, <3>3, <1>3
  <2> QED BY <2>1, <2>2, <2>3, <1>3, <1>5 DEF Locked
<1>7. CASE DownloadFails(p) /\ pc'[p] = "pause"
  <2>1. /\ pc[lock] = "fetch" /\ attempt' = attempt /\ spent' = 0 /\ Goto(p, "pause")
        /\ attempt < Attempts /\ attempt > 0 /\ spent <= Timeout
    BY <1>2, <1>7 DEF DownloadFails, Throws, Goto, IInv, Types, TInv, Installer
  <2>2. /\ attempt - 1 \in Nat /\ Tries(attempt - 1) \in Nat
        /\ Tries(attempt) = Tries(attempt - 1) + 2 * Timeout
        /\ Pauses(attempt) \in Nat /\ attempt * Delay \in Nat
    <3>1. attempt - 1 \in Nat /\ (attempt - 1) + 1 = attempt
      BY <1>3, <2>1
    <3> QED BY <3>1, <1>3, <2>1, TriesGrow, PausesGrow
  <2>3. Elapsed = 2 * worked + (Tries(attempt - 1) + Pauses(attempt) + 2 * spent)
    BY <2>1 DEF Elapsed
  <2>4. Elapsed' = 2 * worked + (Tries(attempt) + Pauses(attempt) + 0)
    <3>1. pc'[lock'] = "pause"
      BY <1>1, <1>2, <1>7
    <3>2. Tries(attempt)' = Tries(attempt) /\ Pauses(attempt)' = Pauses(attempt)
      BY <2>1 DEF Tries, Pauses
    <3> QED BY <3>1, <3>2, <2>1, <1>1 DEF Elapsed
  <2>5. Elapsed <= Elapsed'
    BY <2>1, <2>2, <2>3, <2>4, <1>3
  <2> QED BY <2>1, <2>2, <2>5, <1>3, <1>5 DEF Locked
<1>8. CASE RetryDownload(p)
  <2>1. /\ pc[lock] = "pause" /\ attempt' = attempt + 1 /\ spent' = 0 /\ Goto(p, "fetch")
        /\ spent = attempt * Delay /\ attempt > 0 /\ attempt < Attempts
    BY <1>2, <1>8 DEF RetryDownload, TInv, Installer
  <2>2. /\ Tries(attempt) \in Nat /\ Pauses(attempt) \in Nat /\ attempt * Delay \in Nat
        /\ Pauses(attempt + 1) = Pauses(attempt) + 2 * (attempt * Delay)
    BY <1>3, <2>1, TriesGrow, PausesGrow
  <2>3. Elapsed = 2 * worked + (Tries(attempt) + Pauses(attempt) + 2 * spent)
    BY <2>1 DEF Elapsed
  <2>4. Elapsed' = 2 * worked + (Tries(attempt) + Pauses(attempt + 1) + 0)
    <3>1. pc'[lock'] = "fetch"
      BY <2>1, <1>1, <1>2 DEF Goto, IInv, Types
    <3>2. Tries(attempt - 1)' = Tries(attempt) /\ Pauses(attempt)' = Pauses(attempt + 1)
      <4>1. attempt' - 1 = attempt
        BY <2>1, <1>3
      <4> QED BY <4>1, <2>1 DEF Tries, Pauses
    <3> QED BY <3>1, <3>2, <2>1, <1>1 DEF Elapsed
  <2>5. Elapsed <= Elapsed'
    BY <2>1, <2>2, <2>3, <2>4, <1>3
  <2> QED BY <2>1, <2>5, <1>3, <1>5 DEF Locked
<1>9. CASE \/ DownloadSucceeds(p) \/ (DownloadFails(p) /\ pc'[p] # "pause") \/ VerifyDownload(p)
           \/ Unpack(p) \/ UnlinkOld(p) \/ RenameNew(p) \/ Cleanup(p)
  <2>1. /\ \E l \in {"verify", "unpack", "unlink", "rename", "cleanup", "release"} : Goto(p, l)
        /\ UNCHANGED <<attempt, spent>>
    <3>1. CASE DownloadFails(p) /\ pc'[p] # "pause"
      BY <3>1 DEF DownloadFails, Throws, Goto, IInv, Types
    <3>2. CASE \/ DownloadSucceeds(p) \/ VerifyDownload(p) \/ Unpack(p) \/ UnlinkOld(p)
               \/ RenameNew(p) \/ Cleanup(p)
      BY <3>2 DEF DownloadSucceeds, VerifyDownload, Unpack, UnlinkOld, RenameNew, Cleanup, Throws
    <3> QED BY <1>9, <3>1, <3>2
  <2> QED BY <2>1, <1>3, <1>5 DEF Locked
<1> QED BY <1>6, <1>7, <1>8, <1>9

(* Who begins to wait has waited for no time, for the present holder.      *)
LEMMA StartInTime ==
  ASSUME IInv, TInv, NEW p \in Procs, Start(p), pc'[p] = "wait"
  PROVE  TInv'
<1>1. /\ pc[p] = "idle" /\ Goto(p, "wait")
      /\ UNCHANGED <<lock, attempt, spent, worked, waited>>
      /\ holders' = [holders EXCEPT ![p] = {lock} \ {Nobody}]
  BY DEF Start, Goto, install, IInv, Types
<1>2. /\ \A q \in Procs : pc'[q] = IF q = p THEN "wait" ELSE pc[q]
      /\ \A q \in Procs : holders'[q] = IF q = p THEN {lock} \ {Nobody} ELSE holders[q]
      /\ waited[p] = 0 /\ waited \in [Procs -> Nat] /\ lock \in Procs \cup {Nobody}
  BY <1>1 DEF Goto, IInv, Types, TInv, Times, Witnessed
<1>3. Times'
  BY <1>1, <1>2 DEF TInv, Times
<1>4. lock # Nobody => lock # p /\ pc'[lock] = pc[lock] /\ pc[lock] \in Locked \cup {"dead"}
  BY <1>1, <1>2 DEF TInv, Installer, Locked
<1>5. Installer'
  BY <1>1, <1>4 DEF TInv, Installer
<1>6. Witnessed'
  <2>1. \A q \in Procs : pc'[q] = "idle" => waited'[q] = 0
    BY <1>1, <1>2 DEF TInv, Witnessed
  <2>2. /\ IsFiniteSet(holders'[p])
        /\ lock' # Nobody => lock' \in holders'[p]
        /\ holders'[p] = {} => waited'[p] = 0
        /\ \A r \in holders'[p] : pc'[r] \notin {"idle", "wait"}
    <3>1. IsFiniteSet({lock} \ {Nobody})
      <4>1. IsFiniteSet({lock}) /\ {lock} \ {Nobody} \in SUBSET {lock}
        BY FS_Singleton
      <4> QED BY <4>1, FS_Subset
    <3>2. \A r \in holders'[p] : r = lock /\ lock # Nobody
      BY <1>2
    <3> QED BY <3>1, <3>2, <1>1, <1>2, <1>4 DEF Locked
  <2>3. ASSUME NEW q \in Waiting', q # p
        PROVE  /\ IsFiniteSet(holders'[q])
               /\ lock' # Nobody => lock' \in holders'[q]
               /\ holders'[q] = {} => waited'[q] = 0
               /\ \A r \in holders'[q] : pc'[r] \notin {"idle", "wait"}
    <3>1. q \in Waiting /\ holders'[q] = holders[q] /\ holders[q] \subseteq Procs
      BY <2>3, <1>2 DEF Waiting, TInv, Times
    <3> QED BY <3>1, <1>1, <1>2 DEF TInv, Witnessed
  <2> QED BY <2>1, <2>2, <2>3 DEF Witnessed
<1>7. Patient'
  <2> SUFFICES ASSUME lock # Nobody, pc'[lock] # "dead",
                      NEW q \in Waiting', holders'[q] = {lock}
               PROVE  2 * waited'[q] <= Elapsed'
    BY <1>1 DEF Patient
  <2>1. Elapsed' = Elapsed /\ Elapsed \in Nat /\ pc[lock] # "dead"
    BY <1>1, <1>4, ElapsedNumber DEF Elapsed, TInv
  <2>2. CASE q = p
    BY <2>1, <2>2, <1>1, <1>2
  <2>3. CASE q # p
    BY <2>1, <2>3, <1>1, <1>2 DEF Waiting, TInv, Patient
  <2> QED BY <2>2, <2>3
<1> QED BY <1>3, <1>5, <1>6, <1>7 DEF TInv

(* Who takes the lock is one holder more for all that go on waiting.       *)
LEMMA TakeLockInTime ==
  ASSUME IInv, TInv, NEW p \in Procs, TakeLock(p)
  PROVE  TInv'
<1>1. /\ pc[p] = "wait" /\ lock = Nobody /\ lock' = p /\ Goto(p, "recheck")
      /\ attempt' = 0 /\ spent' = 0 /\ worked' = 0
      /\ waited' = [waited EXCEPT ![p] = 0]
      /\ holders' = [q \in Procs |-> IF q \in Waiting \ {p} THEN holders[q] \cup {p} ELSE {}]
  BY DEF TakeLock
<1>2. /\ \A q \in Procs : pc'[q] = IF q = p THEN "recheck" ELSE pc[q]
      /\ Waiting' = Waiting \ {p}
  BY <1>1 DEF Goto, IInv, Types, Waiting
<1>3. Times'
  <2>1. holders' \in [Procs -> SUBSET Procs]
    BY <1>1 DEF TInv, Times
  <2> QED BY <2>1, <1>1, LycheeAssumption DEF TInv, Times
<1>4. Installer'
  BY <1>1, <1>2, LycheeAssumption DEF Installer, Locked
<1>5. ASSUME NEW q \in Waiting'
      PROVE  /\ q \in Waiting /\ q # p /\ waited'[q] = waited[q] /\ waited[q] \in Nat
             /\ holders'[q] = holders[q] \cup {p} /\ holders[q] \subseteq Procs
             /\ p \notin holders[q]
  <2>1. q \in Procs /\ q \in Waiting /\ q # p
    BY <1>2, <1>5 DEF Waiting
  <2>2. p \notin holders[q]
    BY <2>1, <1>1 DEF TInv, Witnessed
  <2> QED BY <2>1, <2>2, <1>1 DEF TInv, Times
<1>6. Witnessed'
  <2>1. \A q \in Procs : pc'[q] = "idle" => waited'[q] = 0
    BY <1>1, <1>2 DEF TInv, Witnessed, Times
  <2>2. \A q \in Waiting' : IsFiniteSet(holders'[q])
    <3> SUFFICES ASSUME NEW q \in Waiting' PROVE IsFiniteSet(holders'[q])
      OBVIOUS
    <3>1. IsFiniteSet(holders[q]) /\ holders'[q] = holders[q] \cup {p}
      BY <1>5 DEF TInv, Witnessed
    <3> QED BY <3>1, FS_AddElement
  <2>3. \A q \in Waiting' : \A r \in holders'[q] : pc'[r] \notin {"idle", "wait"}
    BY <1>2, <1>5 DEF TInv, Witnessed
  <2> QED BY <2>1, <2>2, <2>3, <1>1, <1>5 DEF Witnessed
<1>7. Patient'
  <2> SUFFICES ASSUME NEW q \in Waiting', holders'[q] = {p}
               PROVE  2 * waited'[q] <= Elapsed'
    BY <1>1 DEF Patient
  <2>1. holders[q] = {}
    BY <1>5
  <2>2. waited'[q] = 0
    BY <2>1, <1>5 DEF TInv, Witnessed
  <2>3. Elapsed' = 0
    BY <1>1, <1>2 DEF Elapsed
  <2> QED BY <2>2, <2>3
<1> QED BY <1>3, <1>4, <1>6, <1>7 DEF TInv

(* Giving the lock back, and removing it by hand, only ends an             *)
(* installation.                                                           *)
LEMMA UnlockInTime ==
  ASSUME IInv, TInv, RemoveStaleLock \/ \E p \in Procs : ReleaseLock(p)
  PROVE  TInv'
<1>1. lock' = Nobody /\ UNCHANGED <<attempt, spent, worked, waited, holders>>
  BY DEF RemoveStaleLock, ReleaseLock, install
<1>2. Times' /\ Installer' /\ Patient'
  BY <1>1 DEF TInv, Times, Installer, Patient
<1>3. \A q \in Procs : pc'[q] = pc[q] \/ pc'[q] \in {"failed", "confirm"}
  BY DEF RemoveStaleLock, ReleaseLock, Goto, IInv, Types
<1>4. Witnessed'
  <2>1. \A q \in Procs : pc'[q] = "idle" => waited'[q] = 0
    BY <1>1, <1>3 DEF TInv, Witnessed
  <2>2. \A q \in Waiting' : q \in Waiting /\ holders[q] \subseteq Procs
    BY <1>3 DEF Waiting, TInv, Times
  <2> QED BY <2>1, <2>2, <1>1, <1>3 DEF TInv, Witnessed
<1> QED BY <1>2, <1>4 DEF TInv

(* A tick is a tick of the installation too.                               *)
LEMMA TickInTime ==
  ASSUME IInv, TInv, Tick
  PROVE  TInv'
<1>1. /\ lock # Nobody /\ UNCHANGED <<pc, lock, attempt, holders>>
      /\ waited' = [p \in Procs |-> IF p \in Waiting THEN waited[p] + 1 ELSE waited[p]]
  BY DEF Tick
<1>2. /\ attempt \in Nat /\ spent \in Nat /\ worked \in Nat /\ waited \in [Procs -> Nat]
      /\ pc[lock] \in Locked \cup {"dead"}
  BY <1>1 DEF TInv, Times, Installer
<1>3. /\ pc[lock] = "fetch" => spent < Timeout /\ spent' = spent + 1 /\ worked' = worked
      /\ pc[lock] = "pause" => spent < attempt * Delay /\ spent' = spent + 1 /\ worked' = worked
      /\ pc[lock] \in Locked \ {"fetch", "pause"} =>
           worked < Grace /\ worked' = worked + 1 /\ spent' = spent
      /\ pc[lock] = "dead" => worked' = worked /\ spent' = spent
  <2>1. CASE pc[lock] = "fetch"
    BY <2>1 DEF Tick
  <2>2. CASE pc[lock] = "pause"
    BY <2>2 DEF Tick
  <2>3. CASE pc[lock] \in Locked \ {"fetch", "pause"}
    BY <2>3 DEF Tick, Locked
  <2>4. CASE pc[lock] = "dead"
    BY <2>4 DEF Tick, Locked
  <2> QED BY <1>2, <2>1, <2>2, <2>3, <2>4
<1>4. Times'
  <2>1. worked' \in Nat /\ spent' \in Nat /\ worked' <= Grace
    BY <1>2, <1>3, LycheeAssumption DEF TInv, Times
  <2>2. waited' \in [Procs -> Nat]
    BY <1>1, <1>2
  <2> QED BY <2>1, <2>2, <1>1 DEF TInv, Times
<1>5. Installer'
  <2>1. attempt * Delay \in Nat /\ Timeout \in Nat
    BY <1>2, LycheeAssumption
  <2>2. pc[lock] = "recheck" => spent' = spent
    BY <1>3 DEF Locked
  <2>3. pc[lock] = "fetch" => spent' <= Timeout
    BY <2>1, <1>2, <1>3
  <2>4. pc[lock] = "pause" => spent' <= attempt * Delay
    BY <2>1, <1>2, <1>3
  <2> QED BY <2>2, <2>3, <2>4, <1>1 DEF TInv, Installer
<1>6. Witnessed'
  <2>1. Waiting' = Waiting
    BY <1>1 DEF Waiting
  <2>2. \A q \in Waiting : holders[q] # {}
    BY <1>1 DEF TInv, Witnessed
  <2>3. \A q \in Procs : pc[q] = "idle" => waited'[q] = waited[q]
    BY <1>1 DEF Waiting
  <2> QED BY <2>1, <2>2, <2>3, <1>1 DEF TInv, Witnessed
<1>7. Patient'
  <2> SUFFICES ASSUME pc[lock] # "dead", NEW q \in Waiting, holders[q] = {lock}
               PROVE  2 * waited'[q] <= Elapsed'
    BY <1>1 DEF Patient, Waiting
  <2>1. 2 * waited[q] <= Elapsed
    BY <1>1 DEF TInv, Patient
  <2>2. waited'[q] = waited[q] + 1 /\ waited[q] \in Nat
    BY <1>1, <1>2 DEF Waiting
  <2>3. Elapsed \in Nat
    BY <1>1, <1>2, ElapsedNumber DEF TInv
  <2>4. Elapsed' = Elapsed + 2
    <3>1. /\ Tries(attempt - 1)' = Tries(attempt - 1) /\ Tries(attempt)' = Tries(attempt)
          /\ Pauses(attempt)' = Pauses(attempt)
      BY <1>1 DEF Tries, Pauses
    <3>2. CASE pc[lock] = "fetch"
      <4>1. attempt - 1 \in Nat /\ attempt > 0
        BY <3>2, <1>1, <1>2 DEF TInv, Installer
      <4>2. Tries(attempt - 1) \in Nat /\ Pauses(attempt) \in Nat
        BY <4>1, <1>2, TriesGrow, PausesGrow
      <4> QED BY <3>1, <3>2, <4>2, <1>1, <1>2, <1>3 DEF Elapsed
    <3>3. CASE pc[lock] = "pause"
      <4>1. attempt > 0
        BY <3>3, <1>1 DEF TInv, Installer
      <4>2. Tries(attempt) \in Nat /\ Pauses(attempt) \in Nat
        BY <4>1, <1>2, TriesGrow, PausesGrow
      <4> QED BY <3>1, <3>3, <4>2, <1>1, <1>2, <1>3 DEF Elapsed
    <3>4. CASE pc[lock] \in Locked \ {"fetch", "pause"}
      <4>1. Tries(Attempts) \in Nat /\ Pauses(Attempts) \in Nat
        <5>1. Attempts \in Nat /\ Attempts > 0
          BY LycheeAssumption
        <5> QED BY <5>1, TriesGrow, PausesGrow
      <4>2. Tries(Attempts)' = Tries(Attempts) /\ Pauses(Attempts)' = Pauses(Attempts)
        BY DEF Tries, Pauses
      <4> QED BY <3>4, <4>1, <4>2, <1>1, <1>2, <1>3 DEF Elapsed
    <3> QED BY <1>2, <3>2, <3>3, <3>4
  <2> QED BY <2>1, <2>2, <2>3, <2>4
<1> QED BY <1>4, <1>5, <1>6, <1>7 DEF TInv

(* No step lets a waiting process run ahead of the installation.           *)
LEMMA StepInTime == IInv /\ TInv /\ [Next]_vars => TInv'
<1> SUFFICES ASSUME IInv, TInv, [Next]_vars PROVE TInv'
  OBVIOUS
<1>1. ASSUME NEW p \in Procs, Start(p) \/ Step(p) \/ CannotLock(p) \/ Die(p) PROVE TInv'
  BY <1>1, OthersInTime, StartInTime, InstallInTime, TakeLockInTime, UnlockInTime DEF Step
<1>2. CASE RemoveStaleLock
  BY <1>2, UnlockInTime
<1>3. CASE Tick
  BY <1>3, TickInTime
<1>4. CASE UNCHANGED vars
  <2>1. Elapsed' = Elapsed /\ Waiting' = Waiting
    BY <1>4 DEF vars, install, Elapsed, Tries, Pauses, Waiting
  <2> QED BY <2>1, <1>4 DEF vars, install, TInv, Times, Installer, Witnessed, Patient
<1> QED BY <1>1, <1>2, <1>3, <1>4 DEF Next, Terminated

(* In every reachable state, who waits for one live installation has        *)
(* waited no longer than it can have taken.                                *)
THEOREM TimeInvariance == Spec => [](IInv /\ TInv)
<1>1. Init => TInv
  <2> SUFFICES ASSUME Init PROVE TInv
    OBVIOUS
  <2>1. Waiting = {} /\ lock = Nobody
    BY DEF Init, Waiting
  <2> QED BY <2>1, LycheeAssumption DEF Init, TInv, Times, Installer, Witnessed, Patient
<1> QED BY <1>1, StepInTime, LycheeInvariance, PTL DEF Spec

(* Nobody gives up on the lock of one live installation, whatever the       *)
(* number of attempts, their timeout, the pauses between them and the      *)
(* grace: installLockTimeoutMs is long enough.                             *)
THEOREM GivesUpLate == Spec => []GivesUpOnlyInQueue
<1>1. ASSUME IInv, TInv PROVE GivesUpOnlyInQueue
  <2> SUFFICES ASSUME NEW p \in Waiting, lock # Nobody, GivesUp(p), pc[lock] # "dead"
               PROVE  Cardinality(holders[p]) > 1
    BY DEF GivesUpOnlyInQueue
  <2>1. /\ waited[p] \in Nat /\ worked \in Nat /\ worked <= Grace /\ Grace \in Nat
        /\ pc[lock] \in Locked
    BY <1>1, LycheeAssumption DEF TInv, Times, Installer, Waiting
  <2>2. /\ Elapsed \in Nat /\ Tries(Attempts) \in Nat /\ Pauses(Attempts) \in Nat
        /\ Elapsed <= Tries(Attempts) + Pauses(Attempts) + 2 * worked
    BY <1>1, <2>1, ElapsedBounded, TriesGrow, PausesGrow, LycheeAssumption DEF TInv
  <2>3. LockTimeout \in Nat
    <3> DEFINE m == Attempts * (Attempts - 1) * Delay
               k == Attempts * Timeout
    <3>1. m \in Nat /\ k \in Nat /\ Grace \in Nat
      BY PausesGrow, LycheeAssumption DEF Pauses
    <3>2. LockTimeout = k + m \div 2 + Grace
      BY DEF LockTimeout
    <3> HIDE DEF m, k
    <3> QED BY <3>1, <3>2
  <2>4. holders[p] # {lock}
    <3>1. SUFFICES ASSUME holders[p] = {lock} PROVE FALSE
      OBVIOUS
    <3>2. 2 * waited[p] <= Elapsed
      BY <1>1, <3>1 DEF TInv, Patient
    <3>3. 2 * waited[p] <= Tries(Attempts) + Pauses(Attempts) + 2 * Grace
      BY <2>1, <2>2, <3>2
    <3>4. waited[p] <= LockTimeout
      BY <2>1, <3>3, DeadlineCovers
    <3> QED BY <2>1, <2>3, <3>4 DEF GivesUp
  <2>5. IsFiniteSet(holders[p]) /\ lock \in holders[p]
    BY <1>1 DEF TInv, Witnessed
  <2>6. PICK q \in holders[p] : q # lock
    BY <2>4, <2>5
  <2>7. /\ IsFiniteSet(holders[p] \ {lock}) /\ q \in holders[p] \ {lock}
        /\ Cardinality(holders[p] \ {lock}) = Cardinality(holders[p]) - 1
    BY <2>5, <2>6, FS_RemoveElement
  <2>8. Cardinality(holders[p] \ {lock}) \in Nat /\ Cardinality(holders[p] \ {lock}) # 0
    BY <2>7, FS_CardinalityType, FS_EmptySet
  <2>9. Cardinality(holders[p]) \in Nat
    BY <2>5, FS_CardinalityType
  <2> QED BY <2>7, <2>8, <2>9
<1> QED BY <1>1, TimeInvariance, PTL
=============================================================================
