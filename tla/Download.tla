------------------------------ MODULE Download ------------------------------
(***************************************************************************)
(* The download verb for a prefix (src/commands/download.ts,               *)
(* downloadPrefix): all pages of the listing are planned onto local paths, *)
(* two files that need one path are refused, then the files are fetched    *)
(* one after another through a temporary file.  Other clients change the   *)
(* bucket meanwhile, the signal can come at any await and the process can  *)
(* be killed.  Links in the destination are left out.                      *)
(***************************************************************************)
EXTENDS Naturals, FiniteSets

CONSTANTS
  N,          (* how many file names lie under the prefix; listed as 1..N *)
  Paths,      (* local paths strictly below the destination *)
  PathOf,     (* the path of each name, Unmappable if no segment may say so *)
  Unmappable,
  Above,      (* the directories between the destination and each path *)
  Fold,       (* the lower-case form of each path *)
  Existing,   (* bound: paths where a local file may stand at the start *)
  PageSize    (* names a listing request returns *)

Files == 1 .. N

(* What is at a path when it is not the file downloaded for a name. *)
None == 0
Old  == N + 1
Dir  == N + 2

ASSUME DownloadAssumption ==
  /\ N \in Nat \ {0} /\ PageSize \in Nat \ {0}
  /\ Unmappable \notin Paths
  /\ PathOf \in [Files -> Paths \cup {Unmappable}]
  /\ Above \in [Paths -> SUBSET Paths]
  /\ Fold \in [Paths -> Paths] /\ Existing \subseteq Paths
  /\ \A p \in Paths : Fold[Fold[p]] = Fold[p]
  /\ \A p \in Paths : {Fold[q] : q \in Above[p]} = {Fold[q] : q \in Above[Fold[p]]}

VARIABLES
  pc,          (* where the command is, or how it ended *)
  windows,     (* process.platform is win32 *)
  insensitive, (* the file system takes paths that differ in case as one *)
  folding,     (* caseInsensitivePaths: what the probe made of that *)
  remote,      (* names that have a visible file *)
  steady,      (* those that had one ever since the command started *)
  cursor,      (* startFileName of the next page, 0 after the last *)
  page,        (* names of the last page that have yet to be planned *)
  owner,       (* localPathOwners: the file at each collision key, 0 for none *)
  descendant,  (* localPathAncestorOwners: some file below each collision key *)
  planned,     (* names planned, in listing order *)
  done,        (* files: names downloaded *)
  current,     (* the name that downloadOne is about, 0 for none *)
  disk,        (* what is at each path: None, Old, Dir, or a name's file *)
  temp,        (* the temporary file: none, partial, whole *)
  aborted      (* signal.aborted *)

platform == <<windows, insensitive>>
bucket   == <<remote, steady>>
plan     == <<folding, cursor, page, owner, descendant, planned>>
local    == <<done, current, disk, temp>>
vars     == <<pc, platform, bucket, plan, local, aborted>>

Ended == {"resolved", "rejected", "killed"}

Phys(p) == IF insensitive THEN Fold[p] ELSE p

(* localPathCollisionKey *)
KeyIsPath(p) == p
Key(p) == IF folding THEN Fold[p] ELSE p

IsFirst(f, S) == f \in S /\ \A g \in S : f <= g

-----------------------------------------------------------------------------
Init ==
  /\ pc = "prepare"
  /\ windows \in BOOLEAN /\ insensitive \in BOOLEAN
  /\ folding = FALSE
  /\ remote \in SUBSET Files /\ steady = remote
  /\ cursor = 1 /\ page = {}
  /\ owner = [p \in Paths |-> 0] /\ descendant = [p \in Paths |-> 0]
  /\ planned = {} /\ done = {} /\ current = 0
  /\ \E old \in SUBSET {p \in Existing : Phys(p) = p} :
       LET dirs == {Phys(q) : q \in UNION {Above[p] : p \in old}}
       IN  /\ old \cap dirs = {}
           /\ disk = [p \in Paths |-> IF p \in old THEN Old ELSE IF p \in dirs THEN Dir ELSE None]
  /\ temp = "none" /\ aborted = FALSE

(* The destination is made and probed; a probe that cannot write takes it  *)
(* to tell cases apart.                                                    *)
Prepare(probed) ==
  /\ pc = "prepare"
  /\ pc' = "list" /\ folding' = (insensitive /\ probed)
  /\ UNCHANGED <<platform, bucket, cursor, page, owner, descendant, planned, local, aborted>>

(* Making the directory, a listing request or downloadOne throws, or the   *)
(* signal was seen.                                                        *)
Reject ==
  /\ pc' = "rejected"
  /\ UNCHANGED <<platform, bucket, plan, local, aborted>>

PrepareFails == pc = "prepare" /\ Reject

(* After a page, with `rest` yet to list, nextFileName is c; null, which is *)
(* 0 here, ends the listing.                                               *)
NoFurtherPage(rest, c) == c = 0
PastTheLast(rest, c) == IF rest = {} THEN c = N + 1 ELSE IsFirst(c, rest)
FollowingPage(rest, c) == IF rest = {} THEN c = 0 ELSE IsFirst(c, rest)

Listing == {f \in remote : f >= cursor}

ListPage ==
  \E P \in SUBSET Listing, c \in 0 .. N + 1 :
    /\ pc = "list" /\ page = {} /\ cursor # 0 /\ ~aborted
    /\ Cardinality(P) = PageSize \/ (P = Listing /\ Cardinality(P) < PageSize)
    /\ \A f \in P, g \in Listing \ P : f < g
    /\ FollowingPage(Listing \ P, c)
    /\ page' = P /\ cursor' = c
    /\ UNCHANGED <<pc, platform, bucket, folding, owner, descendant, planned, local, aborted>>

(* The request fails, or the signal is seen before it. *)
ListFails == pc = "list" /\ page = {} /\ cursor # 0 /\ Reject

(* recordPlannedLocalPath: the path is another file's, a directory that    *)
(* one needs, or below one.                                                *)
CollidesUpward(p) == \E q \in Above[p] \cup {p} : owner[Key(q)] # 0
Collides(p) ==
  \/ owner[Key(p)] # 0
  \/ descendant[Key(p)] # 0
  \/ \E q \in Above[p] : owner[Key(q)] # 0

Plannable(f) == ~aborted /\ PathOf[f] # Unmappable /\ ~Collides(PathOf[f])

Plan ==
  \E f \in page :
    LET p == PathOf[f]
    IN  /\ pc = "list" /\ IsFirst(f, page) /\ Plannable(f)
        /\ page' = page \ {f} /\ planned' = planned \cup {f}
        /\ owner' = [owner EXCEPT ![Key(p)] = f]
        /\ descendant' = [k \in Paths |->
             IF descendant[k] = 0 /\ k \in {Key(q) : q \in Above[p]} THEN f ELSE descendant[k]]
        /\ UNCHANGED <<pc, platform, bucket, folding, cursor, local, aborted>>

PlanFails ==
  \E f \in page : pc = "list" /\ IsFirst(f, page) /\ ~Plannable(f) /\ Reject

PlanComplete ==
  /\ pc = "list" /\ page = {} /\ cursor = 0
  /\ pc' = "next"
  /\ UNCHANGED <<platform, bucket, plan, local, aborted>>

-----------------------------------------------------------------------------
(* downloadOne, one file after another. *)

Todo == planned \ done

AFile(x) == x \in Files \cup {Old}

StartFile ==
  \E f \in Todo :
    LET dirs == {Phys(q) : q \in Above[PathOf[f]]}
    IN  /\ pc = "next" /\ IsFirst(f, Todo) /\ ~aborted
        /\ \A q \in dirs : ~AFile(disk[q])
        /\ pc' = "request" /\ current' = f
        /\ disk' = [q \in Paths |-> IF q \in dirs THEN Dir ELSE disk[q]]
        /\ UNCHANGED <<platform, bucket, plan, done, temp, aborted>>

(* The signal, or mkdir: a file of another job step is in the way.         *)
StartFails == pc = "next" /\ Todo # {} /\ Reject

Resolve ==
  /\ pc = "next" /\ Todo = {}
  /\ pc' = "resolved"
  /\ UNCHANGED <<platform, bucket, plan, local, aborted>>

(* B2 answers with the headers of a file that is still visible. *)
OpenBody ==
  /\ pc = "request" /\ current \in remote /\ ~aborted
  /\ pc' = "body" /\ temp' = "partial"
  /\ UNCHANGED <<platform, bucket, plan, done, current, disk, aborted>>

RequestFails == pc = "request" /\ Reject

(* pipeline: the bytes are counted through into the temporary file.        *)
BodyComplete ==
  /\ pc = "body"
  /\ pc' = "replace" /\ temp' = "whole"
  /\ UNCHANGED <<platform, bucket, plan, done, current, disk, aborted>>

(* To the handler that removes the temporary file. *)
Fail ==
  /\ pc' = "cleanup"
  /\ UNCHANGED <<platform, bucket, plan, local, aborted>>

BodyFails == pc = "body" /\ Fail

Target == Phys(PathOf[current])

MoveIntoPlace ==
  /\ disk[Target] # Dir
  /\ disk' = [disk EXCEPT ![Target] = current]
  /\ temp' = "none" /\ done' = done \cup {current} /\ current' = 0
  /\ pc' = "next"
  /\ UNCHANGED <<platform, bucket, plan, aborted>>

RemoveLeaf ==
  /\ disk[Target] # Dir
  /\ disk' = [disk EXCEPT ![Target] = None]
  /\ pc' = "rename"
  /\ UNCHANGED <<platform, bucket, plan, done, current, temp, aborted>>

(* replaceDownloadedFile: where Windows will not rename over a leaf, it is *)
(* unlinked and the rename is tried again.                                 *)
RenameOver == pc = "replace" /\ MoveIntoPlace
UnlinkAlways == pc = "replace" /\ RemoveLeaf
Unlink == pc = "replace" /\ windows /\ RemoveLeaf
RenameAgain == pc = "rename" /\ MoveIntoPlace
ReplaceRetries ==
  /\ pc \in {"replace", "rename"}
  /\ pc' = "replace"
  /\ UNCHANGED <<platform, bucket, plan, local, aborted>>
ReplaceFails == pc \in {"replace", "rename"} /\ Fail

(* Best effort: the temporary file may stay. *)
Cleanup ==
  /\ pc = "cleanup"
  /\ temp' \in {"none", temp}
  /\ pc' = "rejected"
  /\ UNCHANGED <<platform, bucket, plan, done, current, disk, aborted>>

-----------------------------------------------------------------------------
(* The surroundings. *)

Abort ==
  /\ ~aborted /\ pc \notin Ended
  /\ aborted' = TRUE
  /\ UNCHANGED <<pc, platform, bucket, plan, local>>

(* The runner loses patience, or a second signal comes: run() listens once *)
(* for each.                                                               *)
Kill ==
  /\ pc \notin Ended
  /\ pc' = "killed"
  /\ UNCHANGED <<platform, bucket, plan, local, aborted>>

OtherUploads(f) ==
  /\ pc \notin Ended /\ f \notin remote
  /\ remote' = remote \cup {f}
  /\ UNCHANGED <<pc, platform, steady, plan, local, aborted>>

OtherHides(f) ==
  /\ pc \notin Ended /\ f \in remote
  /\ remote' = remote \ {f} /\ steady' = steady \ {f}
  /\ UNCHANGED <<pc, platform, plan, local, aborted>>

Terminated == pc \in Ended /\ UNCHANGED vars

Command ==
  \/ \E probed \in BOOLEAN : Prepare(probed)
  \/ PrepareFails \/ ListPage \/ ListFails \/ Plan \/ PlanFails \/ PlanComplete
  \/ StartFile \/ StartFails \/ Resolve \/ OpenBody \/ RequestFails \/ BodyComplete \/ BodyFails
  \/ RenameOver \/ Unlink \/ RenameAgain \/ ReplaceFails \/ Cleanup

Next ==
  \/ Command
  \/ Abort \/ Kill
  \/ \E f \in Files : OtherUploads(f) \/ OtherHides(f)
  \/ Terminated

Spec == Init /\ [][Next]_vars

(* One chain of awaits, each bounded by the SDK's timeouts or local. *)
FairSpec == Spec /\ WF_vars(Command)

-----------------------------------------------------------------------------
Contents == {None, Old, Dir} \cup Files

TypeOK ==
  /\ pc \in {"prepare", "list", "next", "request", "body", "replace", "rename", "cleanup"}
            \cup Ended
  /\ windows \in BOOLEAN /\ insensitive \in BOOLEAN /\ folding \in BOOLEAN
  /\ remote \subseteq Files /\ steady \subseteq remote
  /\ cursor \in 0 .. N /\ page \subseteq Files
  /\ owner \in [Paths -> 0 .. N] /\ descendant \in [Paths -> 0 .. N]
  /\ planned \subseteq {f \in Files : PathOf[f] # Unmappable} /\ done \subseteq planned
  /\ current \in 0 .. N
  /\ disk \in [Paths -> Contents]
  /\ temp \in {"none", "partial", "whole"}
  /\ aborted \in BOOLEAN

(* Unless the probe failed. *)
Probed == folding = insensitive

(* Before the first byte is fetched it is certain that no planned file     *)
(* needs the place of another, or of a directory for it, in whichever      *)
(* order the listing brought them and however paths are compared.          *)
PlanIsDisjoint ==
  Probed /\ pc \notin {"prepare", "list"} =>
    \A f, g \in planned :
      f # g => Phys(PathOf[f]) \notin {Phys(q) : q \in Above[PathOf[g]] \cup {PathOf[g]}}

(* A download that succeeds leaves on disk, each at its own path, every    *)
(* file that was under the prefix all along, although the listing is read  *)
(* page by page while others write.                                        *)
ResultIsOnDisk ==
  pc = "resolved" =>
    /\ steady \subseteq done
    /\ Probed => \A f \in done : disk[Phys(PathOf[f])] = f

(* Off Windows, a local file is replaced in one step: it is never missing, *)
(* whatever fails and whenever the process dies.                           *)
Loses == \E p \in Paths : disk[p] = Old /\ ~AFile(disk'[p])
KeepsAFile == [][~windows => ~Loses]_vars

(* "Atomically move a completed same-directory download into place"        *)
(* (download.ts:258), on every platform.                                   *)
ReplacesAtomically == [][~Loses]_vars

(* What was downloaded stays: no later file of the prefix, and no          *)
(* directory for one, takes its place.                                     *)
NeverOverwritesItself ==
  [][Probed => \A p \in Paths : disk[p] \in Files => disk'[p] = disk[p]]_vars

(* The command ends, or is killed. *)
Settles == <>(pc \in Ended)
=============================================================================
