-------------------------- MODULE BulkDeleteProofs --------------------------
(* Proofs about the deletion of all versions under a prefix, for any names *)
(* and versions, any locks and any page size.                              *)
EXTENDS BulkDelete, TLAPS

(* The listing has gone past v: no later page holds it.                    *)
Past(v) == cursor = End \/ (cursor # Begin /\ Precedes(v, cursor))

Busy == pc \in {"deleting", "answered"}

(* A command that lists or deletes was entitled to its prefix, and the     *)
(* version it is about to delete is one that was asked for.                *)
Entitled ==
  /\ pc \in {"list", "deleting", "answered", "succeeded"} => Prefix = Asked
  /\ Busy => current \in Versions /\ current[1] \in Asked /\ ~request.dryRun
  /\ pc = "start" => cursor = Begin /\ events = {} /\ page = {} /\ removed = {}

(* Deleted versions do not come back, and an answer that reports a         *)
(* deletion is about one of them.                                          *)
Truthful ==
  /\ removed \cap bucket = {}
  /\ pc = "answered" /\ answer = "ok" => current \in removed
  /\ pc = "answered" => answer \in {"ok", "fail"}

(* The command goes through the versions in listing order: events, the     *)
(* deletion that runs, the rest of the page, the pages to come.            *)
InOrder ==
  /\ \A v \in page : Past(v)
  /\ \A e \in events : Past(e[2])
  /\ \A e \in events, v \in page : Precedes(e[2], v)
  /\ Busy => /\ Past(current)
             /\ \A v \in page : Precedes(current, v)
             /\ \A e \in events : Precedes(e[2], current)

(* No version that was there from the start is passed over.                *)
Accounted(v) ==
  \/ ~Past(v)
  \/ v \in page
  \/ Busy /\ v = current
  \/ \E e \in events : e[2] = v
Covered ==
  pc \in {"list", "deleting", "answered"} =>
    \A v \in Old \cap bucket : v[1] \in Prefix => Accounted(v)

IInv ==
  /\ TypeOK /\ Entitled /\ Truthful /\ InOrder /\ Covered
  /\ RemovesOnlyWhatWasAsked /\ ReportedDeletedIsGone /\ SuccessAccountsForAll

(* Names and numbers of versions are naturals, and the bounds of a listing *)
(* are no versions.                                                        *)
LEMMA VersionType ==
  /\ \A v \in Versions : v[1] \in Nat \ {0} /\ v[2] \in Nat \ {0} /\ v = <<v[1], v[2]>>
  /\ Begin \notin Versions /\ End \notin Versions /\ Begin # End
  BY BulkDeleteAssumption DEF Versions, Begin, End

(* Listing order is a strict total order. *)
LEMMA Order ==
  ASSUME NEW u \in Versions, NEW v \in Versions
  PROVE  /\ ~Precedes(u, u)
         /\ Precedes(u, v) \/ u = v \/ Precedes(v, u)
         /\ Precedes(u, v) => u # v /\ ~Precedes(v, u)
<1>1. /\ u[1] \in Nat /\ u[2] \in Nat /\ u = <<u[1], u[2]>>
      /\ v[1] \in Nat /\ v[2] \in Nat /\ v = <<v[1], v[2]>>
  BY VersionType
<1>2. ~Precedes(u, u)
  BY <1>1 DEF Precedes
<1>3. Precedes(u, v) \/ u = v \/ Precedes(v, u)
  BY <1>1 DEF Precedes
<1>4. Precedes(u, v) => ~Precedes(v, u)
  BY <1>1 DEF Precedes
<1> QED BY <1>2, <1>3, <1>4

(* ... and transitive. *)
LEMMA Transitive ==
  ASSUME NEW u \in Versions, NEW v \in Versions, NEW w \in Versions,
         Precedes(u, v), Precedes(v, w)
  PROVE  Precedes(u, w)
  BY VersionType DEF Precedes

(* The initial state has the types. *)
LEMMA InitType == Init => TypeOK
  BY BulkDeleteAssumption DEF Init, TypeOK, Begin, End

(* Every step keeps the types. *)
LEMMA TypeStep == TypeOK /\ [Next]_vars => TypeOK'
<1> SUFFICES ASSUME TypeOK, [Next]_vars PROVE TypeOK'
  OBVIOUS
<1> USE DEF service, paging
<1>1. CASE Start \/ ListingFails \/ StopAtSignal \/ Report
  <2>1. /\ UNCHANGED <<request, loose, bucket, removed, cursor, page, current, answer, events, aborted>>
        /\ pc \in {"start", "list"} /\ pc' \in {"list"} \cup Ended
    BY <1>1 DEF Start, ListingFails, StopAtSignal, Report, InLoop, Ended
  <2>2. current' = Begin /\ pc' \notin {"deleting", "answered"}
    BY <2>1 DEF TypeOK, Ended
  <2> QED BY <2>1, <2>2 DEF TypeOK
<1>2. CASE FetchPage
  <2>1. Listing \subseteq Versions
    BY DEF TypeOK, Listing
  <2>2. page' \subseteq Versions /\ cursor' \in Versions \cup {Begin, End}
    BY <1>2, <2>1 DEF FetchPage
  <2> QED BY <1>2, <2>2 DEF TypeOK, FetchPage
<1>3. CASE Take
  <2>1. PICK v \in page : Take!(v)
    BY <1>3 DEF Take
  <2>2. v \in Versions /\ page' \subseteq Versions
    BY <2>1 DEF TypeOK
  <2>3. events' \subseteq EventTypes \X Versions
    BY <2>1, <2>2 DEF TypeOK, Yield, EventTypes
  <2>4. /\ pc' \in {"list", "deleting"}
        /\ current' \in IF pc' \in {"deleting", "answered"} THEN Versions ELSE {Begin}
    BY <2>1, <2>2 DEF TypeOK, InLoop
  <2> QED BY <2>1, <2>2, <2>3, <2>4 DEF TypeOK
<1>4. CASE YieldAnswer
  <2>1. EventType \subseteq EventTypes /\ current \in Versions
    BY <1>4 DEF EventType, EventTypes, TypeOK, YieldAnswer
  <2>2. events' \subseteq EventTypes \X Versions
    BY <1>4, <2>1 DEF TypeOK, YieldAnswer
  <2> QED BY <1>4, <2>2 DEF TypeOK, YieldAnswer, Ended
<1>8. CASE RethrowAbortError
  BY <1>8 DEF TypeOK, RethrowAbortError, Ended
<1>5. ASSUME NEW a \in {"ok", "fail"}, DeleteTakesEffect(a) \/ DeleteRefused PROVE TypeOK'
  BY <1>5 DEF TypeOK, DeleteTakesEffect, DeleteRefused, Deletable
<1>6. ASSUME NEW v \in Versions, OtherUploads(v) \/ OtherDeletes(v) PROVE TypeOK'
  BY <1>6 DEF TypeOK, OtherUploads, OtherDeletes
<1>7. CASE Abort \/ Terminated \/ UNCHANGED vars
  BY <1>7 DEF TypeOK, Abort, Terminated, vars
<1> QED BY <1>1, <1>2, <1>3, <1>4, <1>5, <1>6, <1>7, <1>8 DEF Next, Command

(* The variables keep to their types, for every bucket and page size.      *)
THEOREM BulkTypeCorrect == Spec => []TypeOK
  BY InitType, TypeStep, PTL DEF Spec

(* What the invariant says of the data is the same where that is left      *)
(* alone, wherever the command goes.                                       *)
LEMMA InvMoves ==
  ASSUME IInv, TypeOK',
         UNCHANGED <<request, bucket, removed, cursor, page, current, answer, events>>,
         pc' \in {"start", "list", "deleting", "answered"} => pc' = pc,
         pc' = "succeeded" => pc = "succeeded"
  PROVE  IInv'
<1>1. Prefix' = Prefix /\ Asked' = Asked /\ \A v : Past(v)' = Past(v)
  BY DEF Prefix, Asked, BucketWide, Past
<1>2. Entitled'
  BY <1>1 DEF IInv, Entitled, Busy
<1>3. Truthful' /\ InOrder'
  BY <1>1 DEF IInv, Truthful, InOrder, Busy
<1>4. Covered'
  BY <1>1 DEF IInv, Covered, Accounted, Busy
<1>5. RemovesOnlyWhatWasAsked' /\ ReportedDeletedIsGone'
  BY <1>1 DEF IInv, RemovesOnlyWhatWasAsked, ReportedDeletedIsGone
<1>6. SuccessAccountsForAll'
  BY <1>1 DEF IInv, SuccessAccountsForAll
<1> QED BY <1>2, <1>3, <1>4, <1>5, <1>6 DEF IInv

(* Only a command that is entitled to its prefix begins to list.           *)
LEMMA InvStart ==
  ASSUME IInv, TypeOK', Start
  PROVE  IInv'
<1>1. /\ UNCHANGED <<request, bucket, removed, cursor, page, current, answer, events>>
      /\ pc = "start" /\ pc' \in {"list", "failed"}
      /\ pc' = "list" => Prefix = Asked
  BY DEF Start, service, paging, Prefix, Asked
<1>2. cursor = Begin /\ events = {} /\ page = {} /\ removed = {}
  BY <1>1 DEF IInv, Entitled
<1>3. Prefix' = Prefix /\ Asked' = Asked /\ \A v : ~Past(v) /\ ~Past(v)'
  BY <1>1, <1>2, VersionType DEF Prefix, Asked, BucketWide, Past
<1>4. Entitled' /\ Truthful'
  BY <1>1, <1>2, <1>3 DEF IInv, Entitled, Truthful, Busy
<1>5. InOrder' /\ Covered'
  BY <1>1, <1>2, <1>3 DEF InOrder, Covered, Accounted, Busy
<1>6. RemovesOnlyWhatWasAsked' /\ ReportedDeletedIsGone' /\ SuccessAccountsForAll'
  BY <1>1, <1>2 DEF RemovesOnlyWhatWasAsked, ReportedDeletedIsGone, SuccessAccountsForAll
<1> QED BY <1>4, <1>5, <1>6 DEF IInv

(* A page follows, in listing order, whatever came before it, and what it  *)
(* leaves is at the next cursor or behind it.                              *)
LEMMA InvFetch ==
  ASSUME IInv, TypeOK', FetchPage
  PROVE  IInv'
<1>1. PICK P \in SUBSET Listing, c \in Versions \cup {End} : FetchPage!(P, c)
  BY DEF FetchPage
<1>2. /\ UNCHANGED <<pc, request, bucket, removed, current, answer, events>>
      /\ pc = "list" /\ page = {} /\ cursor # End /\ page' = P /\ cursor' = c
      /\ NextPage(P, c) /\ \A u \in P, v \in Listing \ P : Precedes(u, v)
  BY <1>1 DEF InLoop, service
<1>3. Prefix' = Prefix /\ Asked' = Asked /\ ~Busy /\ ~Busy'
  BY <1>2 DEF Prefix, Asked, BucketWide, Busy
<1>4. Listing \subseteq Versions /\ c # Begin /\ cursor \in Versions \cup {Begin}
  BY <1>2, VersionType DEF Listing, IInv, TypeOK
<1>5. c = End \/ c \in Listing
  BY <1>2 DEF NextPage, IsFirst
<1>6. \A v \in Listing : cursor = Begin \/ v = cursor \/ Precedes(cursor, v)
  BY DEF Listing
<1>7. \A e \in events : e[2] \in Versions /\ cursor # Begin /\ Precedes(e[2], cursor)
  BY <1>2 DEF IInv, InOrder, Past, TypeOK
<1>8. \A e \in events, v \in Listing : Precedes(e[2], v)
  BY <1>4, <1>6, <1>7, Transitive
<1>9. \A v \in P : c = End \/ Precedes(v, c)
  BY <1>2 DEF NextPage, IsFirst
<1>10. InOrder'
  BY <1>2, <1>3, <1>4, <1>5, <1>8, <1>9 DEF InOrder, Past
<1>11. Covered'
  <2> SUFFICES ASSUME NEW v \in Old \cap bucket, v[1] \in Prefix PROVE Accounted(v)'
    BY <1>2, <1>3 DEF Covered
  <2>1. v \in Versions
    BY BulkDeleteAssumption
  <2>2. CASE \E e \in events : e[2] = v
    BY <2>2, <1>2 DEF Accounted
  <2>3. CASE ~Past(v)
    <3>1. v \in Listing
      BY <2>1, <2>3, <1>2, <1>4, Order DEF Past, Listing
    <3>2. CASE v \in P
      BY <3>2, <1>2 DEF Accounted
    <3>3. CASE v \notin P
      <4>1. c \in Versions /\ (v = c \/ Precedes(c, v))
        BY <3>1, <3>3, <1>2, <1>4 DEF NextPage, IsFirst
      <4>2. ~Precedes(v, c)
        BY <2>1, <4>1, Order
      <4> QED BY <4>1, <4>2, <1>2, VersionType DEF Accounted, Past
    <3> QED BY <3>2, <3>3
  <2> QED BY <2>2, <2>3, <1>2, <1>3 DEF IInv, Covered, Accounted
<1>12. Entitled' /\ Truthful'
  BY <1>2, <1>3 DEF IInv, Entitled, Truthful
<1>13. RemovesOnlyWhatWasAsked' /\ ReportedDeletedIsGone' /\ SuccessAccountsForAll'
  BY <1>2, <1>3 DEF IInv, RemovesOnlyWhatWasAsked, ReportedDeletedIsGone, SuccessAccountsForAll
<1> QED BY <1>10, <1>11, <1>12, <1>13 DEF IInv

(* A version is taken from the page: it is reported on, or its deletion    *)
(* runs next.                                                              *)
LEMMA InvTake ==
  ASSUME IInv, TypeOK', Take
  PROVE  IInv'
<1>1. PICK v \in page : Take!(v)
  BY DEF Take
<1>2. /\ UNCHANGED <<request, bucket, removed, cursor, answer>>
      /\ pc = "list" /\ page' = page \ {v} /\ IsFirst(v, page)
  BY <1>1 DEF InLoop, service
<1>3. Prefix' = Prefix /\ Asked' = Asked /\ Prefix = Asked /\ ~Busy /\ \A u : Past(u)' = Past(u)
  BY <1>2 DEF IInv, Entitled, Prefix, Asked, BucketWide, Busy, Past
<1>4. v \in Versions /\ page \subseteq Versions
  BY DEF IInv, TypeOK
<1>5. \/ /\ pc' = "list" /\ current' = current
         /\ \E t \in {"error", "skip"} : events' = events \cup {<<t, v>>}
      \/ /\ pc' = "deleting" /\ current' = v /\ events' = events
         /\ v[1] \in Prefix /\ ~request.dryRun
  BY <1>1, <1>2 DEF Yield, OutOfPrefix
<1>6. \A u \in page' : Precedes(v, u)
  BY <1>2 DEF IsFirst
<1>7. Past(v) /\ \A e \in events : Precedes(e[2], v)
  BY DEF IInv, InOrder
<1>8. InOrder'
  BY <1>2, <1>3, <1>5, <1>6, <1>7 DEF IInv, InOrder, Busy
<1>9. Covered'
  <2> SUFFICES ASSUME NEW u \in Old \cap bucket, u[1] \in Prefix PROVE Accounted(u)'
    BY <1>2, <1>3 DEF Covered
  <2>1. Accounted(u)
    BY <1>2 DEF IInv, Covered
  <2>2. CASE u = v
    <3>1. CASE pc' = "deleting" /\ current' = v
      BY <2>2, <3>1 DEF Accounted, Busy
    <3>2. CASE \E t \in {"error", "skip"} : events' = events \cup {<<t, v>>}
      <4>1. PICK t \in {"error", "skip"} : events' = events \cup {<<t, v>>}
        BY <3>2
      <4>2. <<t, v>> \in events' /\ <<t, v>>[2] = v
        BY <4>1
      <4> QED BY <2>2, <4>2 DEF Accounted
    <3> QED BY <3>1, <3>2, <1>5
  <2>3. CASE u # v
    BY <2>1, <2>3, <1>2, <1>3, <1>5 DEF Accounted
  <2> QED BY <2>2, <2>3
<1>10. Entitled' /\ Truthful'
  BY <1>2, <1>3, <1>4, <1>5 DEF IInv, Entitled, Truthful, Busy
<1>11. RemovesOnlyWhatWasAsked' /\ ReportedDeletedIsGone' /\ SuccessAccountsForAll'
  BY <1>2, <1>3, <1>5 DEF IInv, RemovesOnlyWhatWasAsked, ReportedDeletedIsGone,
                          SuccessAccountsForAll
<1> QED BY <1>8, <1>9, <1>10, <1>11 DEF IInv

(* B2 deletes the version, or refuses: what was asked for, and no more.    *)
LEMMA InvDelete ==
  ASSUME IInv, TypeOK', NEW a \in {"ok", "fail"}, DeleteTakesEffect(a) \/ DeleteRefused
  PROVE  IInv'
<1>1. /\ UNCHANGED <<request, cursor, page, current, events>>
      /\ pc = "deleting" /\ pc' = "answered" /\ answer' \in {"ok", "fail"}
      /\ bucket' \subseteq bucket
      /\ \/ UNCHANGED <<bucket, removed>> /\ answer' = "fail"
         \/ /\ Deletable(current)
            /\ bucket' = bucket \ {current} /\ removed' = removed \cup {current}
  BY DEF DeleteTakesEffect, DeleteRefused, paging, service
<1>2. Prefix' = Prefix /\ Asked' = Asked /\ Busy /\ Busy' /\ \A u : Past(u)' = Past(u)
  BY <1>1 DEF Prefix, Asked, BucketWide, Busy, Past
<1>3. Entitled' /\ Truthful' /\ InOrder'
  BY <1>1, <1>2 DEF IInv, Entitled, Truthful, InOrder
<1>4. Covered'
  BY <1>1, <1>2 DEF IInv, Covered, Accounted
<1>5. RemovesOnlyWhatWasAsked'
  BY <1>1, <1>2 DEF IInv, Entitled, RemovesOnlyWhatWasAsked, Deletable
<1>6. ReportedDeletedIsGone' /\ SuccessAccountsForAll'
  BY <1>1, <1>2 DEF IInv, ReportedDeletedIsGone, SuccessAccountsForAll
<1> QED BY <1>3, <1>4, <1>5, <1>6 DEF IInv

(* The answer becomes an event, unless the signal or an abort error cut it *)
(* off.                                                                    *)
LEMMA InvYield ==
  ASSUME IInv, TypeOK', YieldAnswer \/ RethrowAbortError
  PROVE  IInv'
<1>1. /\ UNCHANGED <<request, bucket, removed, cursor, page>>
      /\ pc = "answered" /\ pc' \in {"list", "failed"} /\ (pc' = "list" => ~aborted)
      /\ events' = events \cup (EventType \X {current}) \/ (events' = events /\ pc' = "failed")
  BY DEF YieldAnswer, RethrowAbortError, paging, service
<1>2. Prefix' = Prefix /\ Asked' = Asked /\ Busy /\ ~Busy' /\ \A u : Past(u)' = Past(u)
  BY <1>1 DEF Prefix, Asked, BucketWide, Busy, Past
<1>3. \A e \in events' : e \in events \/ (e[2] = current /\ (e[1] = "delete" => answer = "ok"))
  BY <1>1 DEF EventType
<1>4. pc' = "list" => \E e \in events' : e[2] = current
  <2> SUFFICES ASSUME pc' = "list" PROVE \E e \in events' : e[2] = current
    OBVIOUS
  <2>1. answer \in {"ok", "fail"} /\ ~aborted
    BY <1>1 DEF IInv, Truthful
  <2>2. PICK t : t \in EventType
    BY <2>1 DEF EventType
  <2>3. <<t, current>> \in events'
    BY <2>2, <1>1
  <2> QED BY <2>3
<1>5. Entitled' /\ Truthful'
  BY <1>1, <1>2 DEF IInv, Entitled, Truthful
<1>6. InOrder'
  BY <1>1, <1>2, <1>3 DEF IInv, InOrder
<1>7. Covered'
  BY <1>1, <1>2, <1>4 DEF IInv, Covered, Accounted
<1>8. ReportedDeletedIsGone'
  <2> SUFFICES ASSUME NEW v \in Versions, <<"delete", v>> \in events'
               PROVE  v \in removed /\ v \notin bucket
    BY <1>1 DEF ReportedDeletedIsGone
  <2> QED BY <1>1, <1>3 DEF IInv, ReportedDeletedIsGone, Truthful
<1>9. RemovesOnlyWhatWasAsked' /\ SuccessAccountsForAll'
  BY <1>1, <1>2 DEF IInv, RemovesOnlyWhatWasAsked, SuccessAccountsForAll
<1> QED BY <1>5, <1>6, <1>7, <1>8, <1>9 DEF IInv

(* At the end of the listing every version has an event.                   *)
LEMMA InvReport ==
  ASSUME IInv, TypeOK', Report
  PROVE  IInv'
<1>1. /\ UNCHANGED <<request, bucket, removed, cursor, page, current, answer, events>>
      /\ pc = "list" /\ page = {} /\ cursor = End /\ pc' \in {"failed", "succeeded"}
      /\ pc' = "succeeded" => \A e \in events : e[1] # "error"
  BY DEF Report, InLoop, service, paging
<1>2. Prefix' = Prefix /\ Asked' = Asked /\ Prefix = Asked /\ ~Busy /\ ~Busy'
      /\ \A u : Past(u) /\ Past(u)'
  BY <1>1 DEF IInv, Entitled, Prefix, Asked, BucketWide, Busy, Past
<1>3. ASSUME pc' = "succeeded", NEW v \in Old \cap bucket, v[1] \in Asked
      PROVE  <<"skip", v>> \in events
  <2>1. PICK e \in events : e[2] = v
    BY <1>1, <1>2, <1>3 DEF IInv, Covered, Accounted
  <2>2. e = <<e[1], v>> /\ e[1] \in {"delete", "skip"} /\ v \in Versions
    BY <2>1, <1>1, <1>3 DEF IInv, TypeOK, EventTypes
  <2>3. e[1] # "delete"
    BY <2>1, <2>2, <1>3 DEF IInv, ReportedDeletedIsGone
  <2> QED BY <2>1, <2>2, <2>3
<1>4. SuccessAccountsForAll'
  BY <1>1, <1>2, <1>3 DEF SuccessAccountsForAll
<1>5. Entitled' /\ Truthful' /\ InOrder' /\ Covered'
  BY <1>1, <1>2 DEF IInv, Entitled, Truthful, InOrder, Covered
<1>6. RemovesOnlyWhatWasAsked' /\ ReportedDeletedIsGone'
  BY <1>1, <1>2 DEF IInv, RemovesOnlyWhatWasAsked, ReportedDeletedIsGone
<1> QED BY <1>4, <1>5, <1>6 DEF IInv

(* Other clients add versions of their own and delete any.                 *)
LEMMA InvOthers ==
  ASSUME IInv, TypeOK', NEW v \in Versions, OtherUploads(v) \/ OtherDeletes(v)
  PROVE  IInv'
<1>1. /\ UNCHANGED <<pc, request, removed, cursor, page, current, answer, events>>
      /\ pc \notin Ended
      /\ bucket' \subseteq bucket \cup {v}
      /\ v \in bucket' => v \in bucket \/ (v \notin Old /\ v \notin removed)
  <2>1. v[2] \in Nat
    BY VersionType
  <2> QED BY <2>1 DEF OtherUploads, OtherDeletes, paging
<1>2. Prefix' = Prefix /\ Asked' = Asked /\ Busy' = Busy /\ \A u : Past(u)' = Past(u)
  BY <1>1 DEF Prefix, Asked, BucketWide, Busy, Past
<1>3. Entitled' /\ Truthful' /\ InOrder'
  BY <1>1, <1>2 DEF IInv, Entitled, Truthful, InOrder
<1>4. Covered'
  BY <1>1, <1>2 DEF IInv, Covered, Accounted
<1>5. RemovesOnlyWhatWasAsked' /\ ReportedDeletedIsGone' /\ SuccessAccountsForAll'
  BY <1>1, <1>2 DEF IInv, RemovesOnlyWhatWasAsked, ReportedDeletedIsGone,
                    SuccessAccountsForAll, Ended
<1> QED BY <1>3, <1>4, <1>5 DEF IInv

(* Every step keeps the inductive invariant.                               *)
LEMMA InvStep == IInv /\ [Next]_vars => IInv'
<1> SUFFICES ASSUME IInv, [Next]_vars PROVE IInv'
  OBVIOUS
<1>0. TypeOK'
  BY TypeStep DEF IInv
<1>1. CASE Command
  <2>1. CASE ListingFails \/ StopAtSignal
    BY <2>1, <1>0, InvMoves DEF ListingFails, StopAtSignal, service, paging
  <2> QED BY <2>1, <1>0, <1>1, InvStart, InvFetch, InvTake, InvDelete, InvYield, InvReport
          DEF Command
<1>2. CASE Abort \/ Terminated \/ UNCHANGED vars
  BY <1>0, <1>2, InvMoves DEF Abort, Terminated, vars, service, paging
<1>3. ASSUME NEW v \in Versions, OtherUploads(v) \/ OtherDeletes(v) PROVE IInv'
  BY <1>0, <1>3, InvOthers
<1> QED BY <1>1, <1>2, <1>3 DEF Next

(* The order of the listing, the page, the events and the deletion that    *)
(* runs is kept by every step of the command and of other clients.         *)
THEOREM BulkInvariance == Spec => []IInv
<1>1. Init => IInv
  <2> SUFFICES ASSUME Init PROVE IInv
    OBVIOUS
  <2>1. TypeOK
    BY InitType
  <2>2. Entitled /\ Truthful /\ InOrder /\ Covered
    BY DEF Init, Entitled, Truthful, InOrder, Covered, Busy
  <2>3. RemovesOnlyWhatWasAsked /\ ReportedDeletedIsGone /\ SuccessAccountsForAll
    BY DEF Init, RemovesOnlyWhatWasAsked, ReportedDeletedIsGone, SuccessAccountsForAll
  <2> QED BY <2>1, <2>2, <2>3 DEF IInv
<1> QED BY <1>1, InvStep, PTL DEF Spec

(* Nothing outside the request is ever deleted. *)
THEOREM DeletesOnlyAsked == Spec => []RemovesOnlyWhatWasAsked
  BY BulkInvariance, PTL DEF IInv

(* A version reported as deleted is gone. *)
THEOREM DeletedIsGone == Spec => []ReportedDeletedIsGone
  BY BulkInvariance, PTL DEF IInv

(* A command that succeeds passed no version over. *)
THEOREM SuccessIsExhaustive == Spec => []SuccessAccountsForAll
  BY BulkInvariance, PTL DEF IInv

(* No version is requested twice: the one taken follows all reported ones. *)
THEOREM RequestedOnce == Spec => NoSecondRequest
<1>1. ASSUME IInv, [Next]_vars
      PROVE  [pc' = "deleting" /\ pc # "deleting" => \A e \in events : e[2] # current']_vars
  <2> SUFFICES ASSUME Next, pc' = "deleting", pc # "deleting", NEW e \in events
               PROVE  e[2] # current'
    BY <1>1
  <2>1. Take
    BY DEF Next, Command, Start, FetchPage, ListingFails, StopAtSignal, YieldAnswer,
           RethrowAbortError, Report, DeleteRefused, DeleteTakesEffect, Abort, OtherUploads, OtherDeletes, Terminated,
           vars, Ended
  <2>2. PICK v \in page : Take!(v)
    BY <2>1 DEF Take
  <2>3. current' = v /\ v \in Versions /\ e[2] \in Versions
    BY <1>1, <2>2 DEF IInv, TypeOK, InLoop
  <2>4. Precedes(e[2], v)
    BY <1>1 DEF IInv, InOrder
  <2> QED BY <2>3, <2>4, Order
<1> QED BY <1>1, BulkInvariance, PTL DEF Spec, NoSecondRequest

(* After the signal no deletion is requested, and success is not reported. *)
THEOREM SignalStops == Spec => StopsAtSignal
<1>1. ASSUME Next, aborted
      PROVE  (pc' = "deleting" => pc = "deleting") /\ (pc' = "succeeded" => pc = "succeeded")
  BY <1>1 DEF Next, Command, Start, FetchPage, ListingFails, StopAtSignal, Take, YieldAnswer,
         RethrowAbortError, Report, InLoop, DeleteRefused, DeleteTakesEffect, Abort, OtherUploads, OtherDeletes,
         Terminated, vars
<1> QED BY <1>1, PTL DEF Spec, StopsAtSignal
=============================================================================
