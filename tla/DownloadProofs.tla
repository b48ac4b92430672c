--------------------------- MODULE DownloadProofs ---------------------------
(* Proofs about the download of a prefix, for any names, paths and pages,  *)
(* any folding of cases and any local files at the start.                  *)
EXTENDS Download, FiniteSetTheorems, TLAPS

Fetching == {"request", "body", "replace", "rename"}
Listed   == {"next", "cleanup", "resolved"} \cup Fetching

(* The listing has passed no name that was there all along without it      *)
(* being planned, or on the page that is.                                  *)
Covered ==
  /\ pc = "prepare" => cursor = 1 /\ page = {} /\ planned = {}
  /\ pc \in {"prepare", "list"} =>
       \A f \in steady : f \in planned \cup page \/ (cursor # 0 /\ f >= cursor)
  /\ pc \in Listed => steady \subseteq planned

(* The maps of recordPlannedLocalPath say what is planned, and nothing     *)
(* planned stands where another file, or a directory for it, must.         *)
KeyOf(f)    == Key(PathOf[f])
KeysOver(f) == {Key(q) : q \in Above[PathOf[f]]}
Owned ==
  /\ \A f \in planned : owner[KeyOf(f)] = f /\ \A k \in KeysOver(f) : descendant[k] # 0
  /\ \A f, g \in planned : f # g => KeyOf(f) # KeyOf(g) /\ KeyOf(f) \notin KeysOver(g)

(* Under a sound probe, what was downloaded is at its path, and nothing is *)
(* there that was not downloaded; the file in hand is another.             *)
Placed ==
  /\ pc \in Fetching => current \in Todo
  /\ pc = "resolved" => Todo = {}
  /\ \A p \in Paths : disk[p] \in Files => disk[p] \in done /\ p = Phys(PathOf[disk[p]])
  /\ Probed => \A f \in done : disk[Phys(PathOf[f])] = f
  /\ pc = "prepare" => done = {}

IInv == TypeOK /\ Covered /\ Owned /\ Placed

-----------------------------------------------------------------------------
(* Paths, keys and places are paths; a name that is planned has a path.    *)
LEMMA PathTypes ==
  /\ \A p \in Paths : Phys(p) \in Paths /\ Key(p) \in Paths /\ Above[p] \subseteq Paths
  /\ TypeOK => \A f \in planned : f \in Files /\ PathOf[f] \in Paths
  BY DownloadAssumption DEF Phys, Key, TypeOK

(* The numbers that stand for contents differ from the names.              *)
LEMMA ContentTypes ==
  /\ N \in Nat /\ None \notin Files /\ Old \notin Files /\ Dir \notin Files
  /\ None # Old /\ None # Dir /\ Old # Dir
  BY DownloadAssumption DEF None, Old, Dir, Files

(* The initial state has nothing planned and nothing downloaded.           *)
LEMMA InitInv == Init => IInv
<1> SUFFICES ASSUME Init PROVE IInv
  OBVIOUS
<1>1. disk \in [Paths -> {None, Old, Dir}]
  <2>1. PICK old \in SUBSET {p \in Existing : Phys(p) = p} :
          disk = [p \in Paths |->
                    IF p \in old THEN Old
                    ELSE IF p \in {Phys(q) : q \in UNION {Above[r] : r \in old}} THEN Dir ELSE None]
    BY DEF Init
  <2> QED BY <2>1
<1>2. disk \in [Paths -> Contents] /\ \A p \in Paths : disk[p] \notin Files
  BY <1>1, ContentTypes DEF Contents
<1>3. TypeOK
  <2>1. 0 \in 0 .. N /\ 1 \in 0 .. N
    BY DownloadAssumption
  <2> QED BY <1>2, <2>1 DEF Init, TypeOK
<1>4. Covered /\ Owned /\ Placed
  BY <1>2 DEF Init, Covered, Owned, Placed, Listed, Fetching, Files
<1> QED BY <1>3, <1>4 DEF IInv

(* What the invariant says of the plan and of the disk depends on these    *)
(* variables only.                                                         *)
LEMMA OwnedKept ==
  ASSUME Owned, UNCHANGED <<folding, owner, descendant, planned>>
  PROVE  Owned'
<1>1. /\ \A f \in planned : KeyOf(f)' = KeyOf(f) /\ KeysOver(f)' = KeysOver(f)
  BY DEF KeyOf, KeysOver, Key
<1> QED BY <1>1 DEF Owned

LEMMA PlacedKept ==
  ASSUME Placed, UNCHANGED <<insensitive, disk, done, current, planned>>,
         Probed' => Probed,
         pc' \in Fetching => pc \in Fetching \/ current \in Todo,
         pc' = "resolved" => Todo = {},
         pc' = "prepare" => pc = "prepare"
  PROVE  Placed'
<1>1. Todo' = Todo /\ \A p : Phys(p)' = Phys(p)
  BY DEF Todo, Phys
<1> QED BY <1>1 DEF Placed

(* The destination is probed while nothing is planned.                     *)
LEMMA InvPrepare ==
  ASSUME IInv, NEW probed \in BOOLEAN, Prepare(probed)
  PROVE  IInv'
<1>1. /\ pc = "prepare" /\ pc' = "list" /\ folding' \in BOOLEAN
      /\ UNCHANGED <<platform, bucket, cursor, page, owner, descendant, planned, local, aborted>>
  BY DEF Prepare, IInv, TypeOK
<1>2. planned = {} /\ done = {}
  BY <1>1 DEF IInv, Covered, Placed
<1>3. TypeOK'
  BY <1>1 DEF IInv, TypeOK, platform, bucket, local
<1>4. Covered' /\ Owned'
  BY <1>1, <1>2 DEF IInv, Covered, Owned, bucket, Listed, Fetching
<1>5. Placed'
  <2>1. \A p : Phys(p)' = Phys(p)
    BY <1>1 DEF Phys, platform
  <2> QED BY <2>1, <1>1, <1>2 DEF IInv, Placed, local, Fetching
<1> QED BY <1>3, <1>4, <1>5 DEF IInv

(* A page holds the next names of the listing, and the cursor is on the    *)
(* first of the rest.                                                      *)
LEMMA InvListPage ==
  ASSUME IInv, ListPage
  PROVE  IInv'
<1>1. PICK P \in SUBSET Listing, c \in 0 .. N + 1 :
        /\ pc = "list" /\ page = {} /\ cursor # 0
        /\ FollowingPage(Listing \ P, c)
        /\ page' = P /\ cursor' = c
        /\ UNCHANGED <<pc, platform, bucket, folding, owner, descendant, planned, local, aborted>>
  BY DEF ListPage
<1>2. P \subseteq Files /\ c \in 0 .. N
  BY <1>1, ContentTypes DEF IInv, TypeOK, Listing, FollowingPage, IsFirst, Files
<1>3. TypeOK'
  BY <1>1, <1>2 DEF IInv, TypeOK, platform, bucket, local
<1>4. Covered'
  <2>1. ASSUME NEW f \in steady
        PROVE  f \in planned \cup P \/ (c # 0 /\ f >= c)
    <3>1. f \in planned \/ f \in Listing
      BY <1>1 DEF IInv, Covered, TypeOK, Listing
    <3>2. f \in Listing \ P => c # 0 /\ f >= c
      BY <1>1 DEF FollowingPage, IsFirst, IInv, TypeOK, Listing, Files
    <3> QED BY <3>1, <3>2
  <2> QED BY <2>1, <1>1 DEF Covered, bucket, Listed, Fetching
<1>5. Owned'
  BY <1>1, OwnedKept DEF IInv
<1>6. Placed'
  BY <1>1, PlacedKept DEF IInv, Probed, platform, local, Fetching
<1> QED BY <1>3, <1>4, <1>5, <1>6 DEF IInv

(* A name is planned at a place that no other is or has to pass.           *)
LEMMA InvPlan ==
  ASSUME IInv, Plan
  PROVE  IInv'
<1>1. PICK f \in page :
        /\ pc = "list" /\ Plannable(f)
        /\ page' = page \ {f} /\ planned' = planned \cup {f}
        /\ owner' = [owner EXCEPT ![Key(PathOf[f])] = f]
        /\ descendant' = [k \in Paths |->
             IF descendant[k] = 0 /\ k \in {Key(q) : q \in Above[PathOf[f]]}
             THEN f ELSE descendant[k]]
        /\ UNCHANGED <<pc, platform, bucket, folding, cursor, local, aborted>>
  BY DEF Plan
<1>2. /\ f \in Files /\ f # 0 /\ f \in 0 .. N /\ PathOf[f] \in Paths /\ KeyOf(f) \in Paths
      /\ KeysOver(f) \subseteq Paths /\ PathOf[f] # Unmappable
  <2>1. f \in Files /\ f # 0 /\ f \in 0 .. N
    BY <1>1, ContentTypes DEF IInv, TypeOK, Files
  <2>2. PathOf[f] \in Paths /\ PathOf[f] # Unmappable
    BY <2>1, <1>1, DownloadAssumption DEF Plannable
  <2> QED BY <2>1, <2>2, PathTypes DEF KeyOf, KeysOver
<1>3. /\ owner[KeyOf(f)] = 0 /\ descendant[KeyOf(f)] = 0
      /\ \A k \in KeysOver(f) : owner[k] = 0
  BY <1>1 DEF Plannable, Collides, KeyOf, KeysOver
<1>4. /\ owner' = [owner EXCEPT ![KeyOf(f)] = f]
      /\ descendant' = [k \in Paths |-> IF descendant[k] = 0 /\ k \in KeysOver(f)
                                        THEN f ELSE descendant[k]]
      /\ \A g : KeyOf(g)' = KeyOf(g) /\ KeysOver(g)' = KeysOver(g)
  BY <1>1 DEF KeyOf, KeysOver, Key
<1>5. \A g \in planned : KeyOf(g) \in Paths /\ KeysOver(g) \subseteq Paths
  BY PathTypes DEF IInv, KeyOf, KeysOver
<1>6. TypeOK'
  <2>1. owner' \in [Paths -> 0 .. N] /\ descendant' \in [Paths -> 0 .. N]
    BY <1>2, <1>4 DEF IInv, TypeOK
  <2>2. /\ page' \subseteq Files /\ planned' \subseteq {g \in Files : PathOf[g] # Unmappable}
        /\ done \subseteq planned'
    BY <1>1, <1>2 DEF IInv, TypeOK
  <2> QED BY <2>1, <2>2, <1>1 DEF IInv, TypeOK, platform, bucket, local
<1>7. Covered'
  BY <1>1 DEF IInv, Covered, bucket, Listed, Fetching
<1>8. Owned'
  <2>1. \A g \in planned : owner[KeyOf(g)] = g /\ g # 0
    BY ContentTypes DEF IInv, Owned, TypeOK, Files
  <2>2. \A g \in planned : KeyOf(g) # KeyOf(f) /\ KeyOf(g) \notin KeysOver(f)
                           /\ KeyOf(f) \notin KeysOver(g)
    BY <2>1, <1>3 DEF IInv, Owned
  <2>3. \A g \in planned' : owner'[KeyOf(g)] = g
    BY <2>1, <2>2, <1>1, <1>2, <1>4, <1>5 DEF IInv, TypeOK
  <2>4. \A g \in planned' : \A k \in KeysOver(g) : descendant'[k] # 0
    BY <1>1, <1>2, <1>4, <1>5 DEF IInv, Owned
  <2>5. \A g, h \in planned' : g # h => KeyOf(g) # KeyOf(h) /\ KeyOf(g) \notin KeysOver(h)
    BY <2>2, <1>1 DEF IInv, Owned
  <2> QED BY <2>3, <2>4, <2>5, <1>4 DEF Owned
<1>9. Placed'
  <2>1. \A p : Phys(p)' = Phys(p)
    BY <1>1 DEF Phys, platform
  <2> QED BY <2>1, <1>1 DEF IInv, Placed, Probed, platform, local, Fetching
<1> QED BY <1>6, <1>7, <1>8, <1>9 DEF IInv

(* Steps that move nothing but the phase, the temporary file and the       *)
(* signal.                                                                 *)
LEMMA InvPhase ==
  ASSUME IInv, UNCHANGED <<platform, bucket, plan, done, current, disk>>,
         pc' \in {"next", "request", "body", "replace", "rename", "cleanup"} \cup Ended \/ pc' = pc,
         temp' \in {"none", "partial", "whole"}, aborted' \in BOOLEAN,
         pc' \in Fetching => pc \in Fetching,
         pc' \in Listed => pc \in Listed \/ (pc = "list" /\ page = {} /\ cursor = 0),
         pc' = "resolved" => Todo = {},
         pc' = "prepare" => pc = "prepare"
  PROVE  IInv'
<1>1. TypeOK'
  BY DEF IInv, TypeOK, platform, bucket, plan
<1>2. Covered'
  <2>1. pc' \in {"prepare", "list"} => pc' = pc
    BY DEF Ended
  <2> QED BY <2>1 DEF IInv, Covered, bucket, plan
<1>3. Owned'
  BY OwnedKept DEF IInv, plan
<1>4. Placed'
  BY PlacedKept DEF IInv, Probed, platform, plan
<1> QED BY <1>1, <1>2, <1>3, <1>4 DEF IInv

(* The directories for a file take the place of nothing that was           *)
(* downloaded.                                                             *)
LEMMA InvStartFile ==
  ASSUME IInv, StartFile
  PROVE  IInv'
<1>1. PICK f \in Todo :
        /\ pc = "next" /\ pc' = "request" /\ current' = f
        /\ disk' = [q \in Paths |-> IF q \in {Phys(r) : r \in Above[PathOf[f]]}
                                    THEN Dir ELSE disk[q]]
        /\ UNCHANGED <<platform, bucket, plan, done, temp, aborted>>
  BY DEF StartFile
<1> DEFINE dirs == {Phys(r) : r \in Above[PathOf[f]]}
<1>2. f \in planned /\ f \notin done /\ f \in Files
  BY DEF Todo, IInv, TypeOK
<1>3. disk' = [q \in Paths |-> IF q \in dirs THEN Dir ELSE disk[q]]
  BY <1>1
<1>4. Probed => \A g \in done : Phys(PathOf[g]) \notin dirs
  <2> SUFFICES ASSUME Probed, NEW g \in done PROVE Phys(PathOf[g]) \notin dirs
    OBVIOUS
  <2>1. g \in planned /\ g # f
    BY <1>2 DEF IInv, TypeOK
  <2>2. KeyOf(g) \notin KeysOver(f)
    BY <2>1, <1>2 DEF IInv, Owned
  <2> QED BY <2>2 DEF KeyOf, KeysOver, Key, Phys, Probed
<1> HIDE DEF dirs
<1>5. TypeOK'
  <2>1. disk' \in [Paths -> Contents] /\ current' \in 0 .. N
    BY <1>1, <1>2, <1>3, ContentTypes DEF IInv, TypeOK, Contents, Files
  <2> QED BY <2>1, <1>1 DEF IInv, TypeOK, platform, bucket, plan
<1>6. Covered'
  BY <1>1 DEF IInv, Covered, bucket, plan, Listed, Fetching
<1>7. Owned'
  BY <1>1, OwnedKept DEF IInv, plan
<1>8. Placed'
  <2>1. Todo' = Todo /\ \A p : Phys(p)' = Phys(p)
    BY <1>1 DEF Todo, plan, Phys, platform
  <2>2. \A p \in Paths : disk'[p] \in Files => disk'[p] = disk[p]
    BY <1>3, ContentTypes
  <2>3. Probed' => \A g \in done : disk'[Phys(PathOf[g])] = g
    <3> SUFFICES ASSUME Probed, NEW g \in done PROVE disk'[Phys(PathOf[g])] = g
      BY <1>1 DEF Probed, platform, plan
    <3>1. Phys(PathOf[g]) \in Paths /\ disk[Phys(PathOf[g])] = g
      BY PathTypes DEF IInv, Placed, TypeOK
    <3> QED BY <3>1, <1>3, <1>4
  <2> QED BY <2>1, <2>2, <2>3, <1>1 DEF IInv, Placed, Fetching
<1> QED BY <1>5, <1>6, <1>7, <1>8 DEF IInv

(* The place of the file in hand is nobody else's.                         *)
LEMMA TargetIsFree ==
  ASSUME IInv, pc \in Fetching
  PROVE  /\ current \in Files /\ current \in planned /\ current \notin done
         /\ Target \in Paths /\ Target = Phys(PathOf[current])
         /\ Probed => \A g \in done : Phys(PathOf[g]) # Target
<1>1. current \in Files /\ current \in planned /\ current \notin done
  BY DEF IInv, Placed, Todo, TypeOK
<1>2. Target \in Paths /\ Target = Phys(PathOf[current])
  BY <1>1, PathTypes DEF IInv, Target
<1>3. ASSUME Probed, NEW g \in done PROVE Phys(PathOf[g]) # Target
  <2>1. KeyOf(g) # KeyOf(current)
    BY <1>1 DEF IInv, Owned, TypeOK
  <2> QED BY <2>1, <1>3 DEF KeyOf, Key, Phys, Probed, Target
<1> QED BY <1>1, <1>2, <1>3

(* The file comes into its place.                                          *)
LEMMA InvMove ==
  ASSUME IInv, pc \in {"replace", "rename"}, MoveIntoPlace
  PROVE  IInv'
<1>1. /\ disk' = [disk EXCEPT ![Target] = current]
      /\ temp' = "none" /\ done' = done \cup {current} /\ current' = 0 /\ pc' = "next"
      /\ UNCHANGED <<platform, bucket, plan, aborted>>
  BY DEF MoveIntoPlace
<1>2. /\ current \in Files /\ current \in planned /\ current \notin done
      /\ Target \in Paths /\ Target = Phys(PathOf[current])
      /\ Probed => \A g \in done : Phys(PathOf[g]) # Target
  BY TargetIsFree DEF Fetching
<1>3. TypeOK'
  <2>1. disk' \in [Paths -> Contents] /\ done' \subseteq planned /\ current' \in 0 .. N
    BY <1>1, <1>2, ContentTypes DEF IInv, TypeOK, Contents
  <2> QED BY <2>1, <1>1 DEF IInv, TypeOK, platform, bucket, plan
<1>4. Covered'
  BY <1>1 DEF IInv, Covered, bucket, plan, Listed, Fetching
<1>5. Owned'
  BY <1>1, OwnedKept DEF IInv, plan
<1>6. Placed'
  <2>1. \A p : Phys(p)' = Phys(p)
    BY <1>1 DEF Phys, platform
  <2>2. \A p \in Paths : disk'[p] = IF p = Target THEN current ELSE disk[p]
    BY <1>1 DEF IInv, TypeOK
  <2>3. \A p \in Paths : disk'[p] \in Files => disk'[p] \in done' /\ p = Phys(PathOf[disk'[p]])
    BY <2>2, <1>1, <1>2 DEF IInv, Placed
  <2>4. Probed' => \A g \in done' : disk'[Phys(PathOf[g])] = g
    <3> SUFFICES ASSUME Probed, NEW g \in done' PROVE disk'[Phys(PathOf[g])] = g
      BY <1>1 DEF Probed, platform, plan
    <3>1. CASE g = current
      BY <3>1, <2>2, <1>2
    <3>2. CASE g # current
      <4>1. g \in done /\ Phys(PathOf[g]) \in Paths
        BY <3>2, <1>1, PathTypes DEF IInv, TypeOK
      <4> QED BY <4>1, <2>2, <1>2 DEF IInv, Placed
    <3> QED BY <3>1, <3>2
  <2> QED BY <2>1, <2>3, <2>4, <1>1 DEF Placed, Fetching
<1> QED BY <1>3, <1>4, <1>5, <1>6 DEF IInv

(* Windows unlinks what is in the way, which is no file of this download.  *)
LEMMA InvUnlink ==
  ASSUME IInv, Unlink
  PROVE  IInv'
<1>1. /\ pc = "replace" /\ pc' = "rename" /\ disk' = [disk EXCEPT ![Target] = None]
      /\ UNCHANGED <<platform, bucket, plan, done, current, temp, aborted>>
  BY DEF Unlink, RemoveLeaf
<1>2. Target \in Paths /\ (Probed => \A g \in done : Phys(PathOf[g]) # Target)
  BY <1>1, TargetIsFree DEF Fetching
<1>3. TypeOK'
  <2>1. disk' \in [Paths -> Contents]
    BY <1>1, <1>2 DEF IInv, TypeOK, Contents
  <2> QED BY <2>1, <1>1 DEF IInv, TypeOK, platform, bucket, plan
<1>4. Covered'
  BY <1>1 DEF IInv, Covered, bucket, plan, Listed, Fetching
<1>5. Owned'
  BY <1>1, OwnedKept DEF IInv, plan
<1>6. Placed'
  <2>1. Todo' = Todo /\ \A p : Phys(p)' = Phys(p)
    BY <1>1 DEF Todo, plan, Phys, platform
  <2>2. \A p \in Paths : disk'[p] = IF p = Target THEN None ELSE disk[p]
    BY <1>1 DEF IInv, TypeOK
  <2>3. \A p \in Paths : disk'[p] \in Files => disk'[p] = disk[p]
    BY <2>2, ContentTypes
  <2>4. Probed' => \A g \in done : disk'[Phys(PathOf[g])] = g
    <3> SUFFICES ASSUME Probed, NEW g \in done PROVE disk'[Phys(PathOf[g])] = g
      BY <1>1 DEF Probed, platform, plan
    <3>1. Phys(PathOf[g]) \in Paths
      BY PathTypes DEF IInv, TypeOK
    <3> QED BY <3>1, <2>2, <1>2 DEF IInv, Placed
  <2> QED BY <2>1, <2>3, <2>4, <1>1 DEF IInv, Placed, Fetching
<1> QED BY <1>3, <1>4, <1>5, <1>6 DEF IInv

(* Other clients add names and hide them.                                  *)
LEMMA InvBucket ==
  ASSUME IInv, NEW f \in Files, OtherUploads(f) \/ OtherHides(f)
  PROVE  IInv'
<1>1. /\ UNCHANGED <<pc, platform, plan, local, aborted>>
      /\ remote' \subseteq Files /\ steady' \subseteq remote' /\ steady' \subseteq steady
  BY DEF OtherUploads, OtherHides, IInv, TypeOK
<1>2. TypeOK' /\ Covered'
  BY <1>1 DEF IInv, TypeOK, Covered, platform, plan, local
<1>3. Owned'
  BY <1>1, OwnedKept DEF IInv, plan
<1>4. Placed'
  BY <1>1, PlacedKept DEF IInv, Probed, platform, plan, local, Placed
<1> QED BY <1>2, <1>3, <1>4 DEF IInv

(* Every step keeps the inductive invariant.                               *)
LEMMA InvStep == IInv /\ [Next]_vars => IInv'
<1> SUFFICES ASSUME IInv, [Next]_vars PROVE IInv'
  OBVIOUS
<1>t. temp \in {"none", "partial", "whole"} /\ aborted \in BOOLEAN
  BY DEF IInv, TypeOK
<1>1. CASE \/ PrepareFails \/ ListFails \/ PlanFails \/ PlanComplete \/ StartFails \/ Resolve
           \/ OpenBody \/ RequestFails \/ BodyComplete \/ BodyFails \/ ReplaceFails \/ Cleanup
           \/ Abort \/ Kill
  <2>1. CASE PrepareFails \/ ListFails \/ PlanFails \/ StartFails \/ RequestFails \/ Kill
    BY <1>t, <2>1, InvPhase DEF PrepareFails, ListFails, PlanFails, StartFails, RequestFails,
                                Kill, Reject, local, Ended, Listed, Fetching
  <2>2. CASE PlanComplete \/ Resolve
    BY <1>t, <2>2, InvPhase DEF PlanComplete, Resolve, local, Ended, Listed, Fetching
  <2>3. CASE OpenBody \/ BodyComplete
    BY <1>t, <2>3, InvPhase DEF OpenBody, BodyComplete, Ended, Listed, Fetching
  <2>4. CASE BodyFails \/ ReplaceFails \/ Cleanup
    BY <1>t, <2>4, InvPhase DEF BodyFails, ReplaceFails, Cleanup, Fail, local, Ended, Listed,
                                Fetching
  <2>5. CASE Abort
    BY <1>t, <2>5, InvPhase DEF Abort, local, Ended, IInv, Placed
  <2> QED BY <1>1, <2>1, <2>2, <2>3, <2>4, <2>5
<1>2. ASSUME NEW probed \in BOOLEAN, Prepare(probed) PROVE IInv'
  BY <1>2, InvPrepare
<1>3. CASE ListPage \/ Plan \/ StartFile
  BY <1>3, InvListPage, InvPlan, InvStartFile
<1>4. CASE RenameOver \/ RenameAgain \/ Unlink
  BY <1>4, InvMove, InvUnlink DEF RenameOver, RenameAgain
<1>5. ASSUME NEW f \in Files, OtherUploads(f) \/ OtherHides(f) PROVE IInv'
  BY <1>5, InvBucket
<1>6. CASE Terminated \/ UNCHANGED vars
  BY <1>6, <1>t, InvPhase DEF Terminated, vars, local, IInv, Placed
<1> QED BY <1>1, <1>2, <1>3, <1>4, <1>5, <1>6 DEF Next, Command

(* What is listed, planned and on disk agrees, whatever other clients do   *)
(* and wherever the command fails or is killed.                            *)
THEOREM Invariance == Spec => []IInv
  BY InitInv, InvStep, PTL DEF Spec

-----------------------------------------------------------------------------
(* The variables keep to their types.                                      *)
THEOREM TypeCorrect == Spec => []TypeOK
<1>1. IInv => TypeOK
  BY DEF IInv
<1> QED BY <1>1, Invariance, PTL

(* No planned file needs the place of another or of a directory for it.    *)
THEOREM PlanDisjoint == Spec => []PlanIsDisjoint
<1>1. ASSUME IInv PROVE PlanIsDisjoint
  <2> SUFFICES ASSUME Probed, NEW f \in planned, NEW g \in planned, f # g
               PROVE  Phys(PathOf[f]) \notin {Phys(q) : q \in Above[PathOf[g]] \cup {PathOf[g]}}
    BY DEF PlanIsDisjoint
  <2>1. KeyOf(f) # KeyOf(g) /\ KeyOf(f) \notin KeysOver(g)
    BY <1>1 DEF IInv, Owned
  <2> QED BY <2>1 DEF KeyOf, KeysOver, Key, Phys, Probed
<1> QED BY <1>1, Invariance, PTL

(* What a successful download promised is on disk.                         *)
THEOREM ResultsAreOnDisk == Spec => []ResultIsOnDisk
<1>1. ASSUME IInv PROVE ResultIsOnDisk
  BY <1>1 DEF IInv, ResultIsOnDisk, Covered, Placed, Todo, Listed
<1> QED BY <1>1, Invariance, PTL

(* Off Windows no local file is missing at any time.                       *)
THEOREM LocalFilesAreKept == Spec => KeepsAFile
<1>1. ASSUME IInv, [Next]_vars PROVE [~windows => ~Loses]_vars
  <2> SUFFICES ASSUME Next, ~windows, NEW p \in Paths, disk[p] = Old, ~AFile(disk'[p])
               PROVE  FALSE
    BY <1>1 DEF Loses
  <2>0. disk' # disk
    BY DEF AFile
  <2>1. CASE StartFile
    <3>1. PICK f \in Todo :
            /\ \A q \in {Phys(r) : r \in Above[PathOf[f]]} : ~AFile(disk[q])
            /\ disk' = [q \in Paths |-> IF q \in {Phys(r) : r \in Above[PathOf[f]]}
                                        THEN Dir ELSE disk[q]]
      BY <2>1 DEF StartFile
    <3> QED BY <3>1 DEF AFile
  <2>2. CASE RenameOver \/ RenameAgain
    <3>1. disk' = [disk EXCEPT ![Target] = current] /\ current \in Files
      BY <1>1, <2>2, TargetIsFree DEF RenameOver, RenameAgain, MoveIntoPlace, Fetching
    <3> QED BY <1>1, <3>1 DEF AFile, IInv, TypeOK
  <2>3. CASE ~(StartFile \/ RenameOver \/ RenameAgain)
    <3>1. disk' = disk
      BY <2>3 DEF Next, Command, Prepare, PrepareFails, ListPage, ListFails, Plan, PlanFails,
                  PlanComplete, StartFails, Resolve, OpenBody, RequestFails, BodyComplete,
                  BodyFails, Unlink, ReplaceFails, Cleanup, Abort, Kill, OtherUploads, OtherHides,
                  Terminated, Reject, Fail, local, vars
    <3> QED BY <2>0, <3>1
  <2> QED BY <2>1, <2>2, <2>3
<1> QED BY <1>1, Invariance, PTL DEF Spec, KeepsAFile

(* A file of this download is never replaced or removed by a later one.    *)
THEOREM DownloadsStay == Spec => NeverOverwritesItself
<1>1. ASSUME IInv, IInv', [Next]_vars
      PROVE  [Probed => \A p \in Paths : disk[p] \in Files => disk'[p] = disk[p]]_vars
  <2> SUFFICES ASSUME Next, Probed, NEW p \in Paths, disk[p] \in Files
               PROVE  disk'[p] = disk[p]
    BY <1>1
  <2>1. disk[p] \in done /\ p = Phys(PathOf[disk[p]])
    BY <1>1 DEF IInv, Placed
  <2>2. CASE pc = "prepare"
    BY <1>1, <2>1, <2>2 DEF IInv, Placed
  <2>3. CASE pc # "prepare"
    <3>1. Probed' /\ insensitive' = insensitive /\ done \subseteq done'
      BY <2>3 DEF Next, Command, Prepare, PrepareFails, ListPage, ListFails, Plan, PlanFails,
                  PlanComplete, StartFile, StartFails, Resolve, OpenBody, RequestFails,
                  BodyComplete, BodyFails, RenameOver, RenameAgain, MoveIntoPlace, Unlink,
                  RemoveLeaf, ReplaceFails, Cleanup, Abort, Kill, OtherUploads, OtherHides,
                  Terminated, Reject, Fail, local, vars, platform, plan, Probed
    <3>2. \A q : Phys(q)' = Phys(q)
      BY <3>1 DEF Phys
    <3>3. \A f \in done' : disk'[Phys(PathOf[f])] = f
      BY <1>1, <3>1, <3>2 DEF IInv, Placed
    <3> QED BY <2>1, <3>1, <3>3
  <2> QED BY <2>2, <2>3
<1> QED BY <1>1, Invariance, PTL DEF Spec, NeverOverwritesItself
=============================================================================
