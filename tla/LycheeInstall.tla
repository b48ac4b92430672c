--------------------------- MODULE LycheeInstall ---------------------------
(***************************************************************************)
(* scripts/run-lychee-lib.mjs: several `pnpm docs:links` processes share a *)
(* cache directory.  A process whose cached binary does not have the       *)
(* pinned digest takes the install lock, which is a directory, downloads   *)
(* with retries, verifies, and replaces the binary.  A killed process      *)
(* leaves its lock behind; who waits for a lock gives up after a time that *)
(* is derived from the times of one installation.  A tick is longer than   *)
(* the pause between two looks at the lock.                                *)
(***************************************************************************)
EXTENDS Naturals, FiniteSets

CONSTANTS
  Procs,      (* processes *)
  Nobody,     (* no process *)
  Attempts,   (* DOWNLOAD_ATTEMPTS *)
  Timeout,    (* DOWNLOAD_TIMEOUT_MS, in ticks *)
  Delay,      (* the 500 ms of the first pause, in ticks *)
  Grace       (* INSTALL_LOCK_GRACE_MS, in ticks: an installation takes no
                 more than that beside its attempts and pauses *)

ASSUME LycheeAssumption ==
  /\ Nobody \notin Procs
  /\ Attempts \in Nat \ {0} /\ Timeout \in Nat \ {0} /\ Delay \in Nat /\ Grace \in Nat

VARIABLES
  pc,          (* where each process is *)
  binary,      (* what is at the path of the binary: none, bad or good *)
  lock,        (* who made the lock directory that exists *)
  attempt,     (* of the process that installs: its current attempt, *)
  spent,       (* the ticks of this attempt or pause, *)
  worked,      (* the ticks of everything else under the lock, *)
  download,    (* what it has downloaded or unpacked, *)
  broken,      (* and whether its installation has thrown *)
  waited,      (* the ticks since each process began to wait *)
  holders      (* history: who has held the lock since *)

install == <<attempt, spent, worked, download, broken>>
vars == <<pc, binary, lock, install, waited, holders>>

Over == {"done", "failed", "dead"}
Locked == {"recheck", "fetch", "pause", "verify", "unpack", "unlink", "rename", "cleanup", "release"}
Waiting == {p \in Procs : pc[p] = "wait"}

Init ==
  /\ pc = [p \in Procs |-> "idle"]
  /\ binary \in {"none", "bad", "good"}
  /\ lock = Nobody
  /\ attempt = 0 /\ spent = 0 /\ worked = 0 /\ download = "none" /\ broken = FALSE
  /\ waited = [p \in Procs |-> 0] /\ holders = [p \in Procs |-> {}]

Goto(p, l) == pc' = [pc EXCEPT ![p] = l]

(* ensureLychee, the first look at the binary. *)
Start(p) ==
  /\ pc[p] = "idle"
  /\ Goto(p, IF binary = "good" THEN "run" ELSE "wait")
  /\ holders' = [holders EXCEPT ![p] = IF binary = "good" THEN {} ELSE {lock} \ {Nobody}]
  /\ UNCHANGED <<binary, lock, install, waited>>

-----------------------------------------------------------------------------
(* withInstallLock.                                                        *)

TimeoutOfAttempts == Attempts * Timeout + Grace
(* installLockTimeoutMs: all attempts, all pauses between them, and more.  *)
LockTimeout == Attempts * Timeout + (Attempts * (Attempts - 1) * Delay) \div 2 + Grace

(* mkdir succeeds. *)
TakeLock(p) ==
  /\ pc[p] = "wait" /\ lock = Nobody
  /\ lock' = p /\ Goto(p, "recheck")
  /\ attempt' = 0 /\ spent' = 0 /\ worked' = 0 /\ download' = "none" /\ broken' = FALSE
  /\ waited' = [waited EXCEPT ![p] = 0]
  /\ holders' = [q \in Procs |-> IF q \in Waiting \ {p} THEN holders[q] \cup {p} ELSE {}]
  /\ UNCHANGED binary

StopsWaiting(p, l) ==
  /\ Goto(p, l)
  /\ waited' = [waited EXCEPT ![p] = 0] /\ holders' = [holders EXCEPT ![p] = {}]
  /\ UNCHANGED <<binary, lock, install>>

GivesUpNever(p) == FALSE
GivesUp(p) == waited[p] > LockTimeout

(* mkdir fails with EEXIST after too long. *)
GiveUp(p) ==
  /\ pc[p] = "wait" /\ lock # Nobody /\ GivesUp(p)
  /\ StopsWaiting(p, "failed")

(* The cache directory or the lock cannot be made. *)
CannotLock(p) ==
  /\ pc[p] = "wait"
  /\ StopsWaiting(p, "failed")

NoRecheck(p) == Goto(p, "fetch")
AfterRecheck(p) == Goto(p, IF binary = "good" THEN "release" ELSE "fetch")

(* The second look at the binary, under the lock. *)
Recheck(p) ==
  /\ pc[p] = "recheck"
  /\ AfterRecheck(p)
  /\ attempt' = 1
  /\ UNCHANGED <<binary, lock, spent, worked, download, broken, waited, holders>>

-----------------------------------------------------------------------------
(* downloadWithRetries and downloadOnce.                                   *)

(* The asset has arrived, whether or not it is the right one. *)
DownloadSucceeds(p) ==
  /\ pc[p] = "fetch"
  /\ download' \in {"good", "bad"}
  /\ Goto(p, "verify")
  /\ UNCHANGED <<binary, lock, attempt, spent, worked, broken, waited, holders>>

Throws(p) == Goto(p, "cleanup") /\ broken' = TRUE

(* An attempt fails or is timed out; what cannot get better, such as an    *)
(* HTTP status or an asset that is too large, is not tried again.          *)
DownloadFails(p) ==
  /\ pc[p] = "fetch"
  /\ \/ attempt < Attempts /\ Goto(p, "pause") /\ spent' = 0 /\ UNCHANGED broken
     \/ Throws(p) /\ UNCHANGED spent
  /\ UNCHANGED <<binary, lock, attempt, worked, download, waited, holders>>

RetryDownload(p) ==
  /\ pc[p] = "pause" /\ spent = attempt * Delay
  /\ attempt' = attempt + 1 /\ spent' = 0
  /\ Goto(p, "fetch")
  /\ UNCHANGED <<binary, lock, worked, download, broken, waited, holders>>

-----------------------------------------------------------------------------
(* installDownloadedAsset: the digest of the download, extractLycheeArchive *)
(* or a copy, and the digest of what comes out.                            *)
VerifyDownload(p) ==
  /\ pc[p] = "verify"
  /\ IF download = "good" THEN Goto(p, "unpack") /\ UNCHANGED broken ELSE Throws(p)
  /\ UNCHANGED <<binary, lock, attempt, spent, worked, download, waited, holders>>

Unpack(p) ==
  /\ pc[p] = "unpack"
  /\ \/ Goto(p, "unlink") /\ UNCHANGED broken
     \/ Throws(p)
  /\ UNCHANGED <<binary, lock, attempt, spent, worked, download, waited, holders>>

(* installLychee puts the verified file in the place of the old one.       *)
UnlinkOld(p) ==
  /\ pc[p] = "unlink"
  /\ \/ binary' = "none" /\ Goto(p, "rename") /\ UNCHANGED broken
     \/ Throws(p) /\ UNCHANGED binary
  /\ UNCHANGED <<lock, attempt, spent, worked, download, waited, holders>>

RenameNew(p) ==
  /\ pc[p] = "rename"
  /\ \/ binary' = download /\ Goto(p, "cleanup") /\ UNCHANGED broken
     \/ Throws(p) /\ UNCHANGED binary
  /\ UNCHANGED <<lock, attempt, spent, worked, download, waited, holders>>

(* The finally of installLychee. *)
Cleanup(p) ==
  /\ pc[p] = "cleanup"
  /\ Goto(p, "release") /\ download' = "none"
  /\ UNCHANGED <<binary, lock, attempt, spent, worked, broken, waited, holders>>

(* The finally of withInstallLock, whatever is at the path of the lock. *)
ReleaseLock(p) ==
  /\ pc[p] = "release"
  /\ lock' = Nobody
  /\ Goto(p, IF broken THEN "failed" ELSE "confirm")
  /\ UNCHANGED <<binary, install, waited, holders>>

-----------------------------------------------------------------------------
(* ensureLychee, the last look at the binary. *)
Confirm(p) ==
  /\ pc[p] = "confirm"
  /\ Goto(p, IF binary = "good" THEN "run" ELSE "failed")
  /\ UNCHANGED <<binary, lock, install, waited, holders>>

(* main: lychee is spawned, and its status is that of the process. *)
Spawn(p) ==
  /\ pc[p] = "run"
  /\ Goto(p, "done")
  /\ UNCHANGED <<binary, lock, install, waited, holders>>

Die(p) ==
  /\ pc[p] \notin Over \cup {"idle"}
  /\ StopsWaiting(p, "dead")

(* A developer removes the stale lock directory, as the message says, when *)
(* no process is running.                                                  *)
RemoveStaleLock ==
  /\ lock # Nobody /\ \A p \in Procs : pc[p] \in Over \cup {"idle"}
  /\ lock' = Nobody
  /\ UNCHANGED <<pc, binary, install, waited, holders>>

(* A tick goes by for whoever waits and for whoever installs: an attempt   *)
(* is ended by its timeout, a pause takes as long as it does, and all the  *)
(* rest takes Grace at most.                                               *)
Tick ==
  /\ lock # Nobody /\ (Waiting # {} \/ pc[lock] = "pause")
  /\ \A p \in Waiting : waited[p] <= LockTimeout
  /\ CASE pc[lock] = "fetch" -> spent < Timeout /\ spent' = spent + 1 /\ UNCHANGED worked
       [] pc[lock] = "pause" -> spent < attempt * Delay /\ spent' = spent + 1 /\ UNCHANGED worked
       [] pc[lock] \in Locked \ {"fetch", "pause"} ->
            worked < Grace /\ worked' = worked + 1 /\ UNCHANGED spent
       [] OTHER -> UNCHANGED <<spent, worked>>
  /\ waited' = [p \in Procs |-> IF p \in Waiting THEN waited[p] + 1 ELSE waited[p]]
  /\ UNCHANGED <<pc, binary, lock, attempt, download, broken, holders>>

(* What a process does of itself. *)
Step(p) ==
  \/ TakeLock(p) \/ GiveUp(p) \/ Recheck(p) \/ DownloadSucceeds(p)
  \/ DownloadFails(p) \/ RetryDownload(p) \/ VerifyDownload(p) \/ Unpack(p) \/ UnlinkOld(p)
  \/ RenameNew(p) \/ Cleanup(p) \/ ReleaseLock(p) \/ Confirm(p) \/ Spawn(p)

Terminated == (\A p \in Procs : pc[p] \in Over) /\ UNCHANGED vars

Next ==
  \/ \E p \in Procs : Start(p) \/ Step(p) \/ CannotLock(p) \/ Die(p)
  \/ RemoveStaleLock \/ Tick \/ Terminated

Spec == Init /\ [][Next]_vars

(* A process goes on as long as there is something for it to do, and time  *)
(* goes by; that it is started, killed or kept from the lock is not assumed. *)
FairSpec == Spec /\ WF_vars(Tick) /\ \A p \in Procs : WF_vars(Step(p))

-----------------------------------------------------------------------------
(* The binary that a process runs has the pinned digest, though others may *)
(* be about to replace it and any of them may die on the way.              *)
RunsOnlyVerified == \A p \in Procs : pc[p] = "run" => binary = "good"

(* A process gives up on the lock only if its maker is dead, or if more    *)
(* than one process has had it in the meantime: one live installation,     *)
(* however slow its attempts and with all its pauses, is waited for.       *)
GivesUpOnlyInQueue ==
  \A p \in Waiting : lock # Nobody /\ GivesUp(p) =>
    pc[lock] = "dead" \/ Cardinality(holders[p]) > 1

(* A process that has started comes to its end, also behind a stale lock.  *)
EveryProcessEnds == \A p \in Procs : pc[p] # "idle" ~> pc[p] \in Over
=============================================================================
