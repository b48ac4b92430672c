--------------------------- MODULE ListingProofs ---------------------------
(* Proofs about the paged listing of `list` and `presign`, for any number  *)
(* of names, any page size and max-results, and any number of changes by   *)
(* others.                                                                 *)
EXTENDS Listing, FiniteSetTheorems, TLAPS

Types ==
  /\ pc \in {"page", "more", "done", "failed"} /\ verb \in {"list", "presign"}
  /\ maxResults \in Nat \ {0}
  /\ state \in [1 .. Names -> {"upload", "hide", "absent"}]
  /\ cursor \in 1 .. End /\ truncated \in BOOLEAN
  /\ files \subseteq 1 .. Names /\ Cardinality(files) <= maxResults

(* A file that was there all along is there now, and what is there now was *)
(* visible once.                                                           *)
Remembered ==
  always \subseteq Uploads /\ Uploads \subseteq ever /\ files \subseteq ever

(* Between two requests, and when the names were exhausted: what lies      *)
(* behind the cursor and was there all along has been listed.              *)
Scanned == \A n \in always : n < cursor => n \in files
Behind == \A n \in files : n < cursor

Progress ==
  /\ pc \in {"page", "more"} => Scanned /\ Behind /\ ~truncated
  /\ pc = "more" => verb = "list" /\ Cardinality(files) = maxResults
  /\ pc = "page" => Cardinality(files) < maxResults

IInv == Types /\ Remembered /\ Progress /\ ListingHasNoGaps /\ ListingIsExact

LEMMA Finite ==
  ASSUME NEW S, S \subseteq 1 .. Names
  PROVE  IsFiniteSet(S) /\ Cardinality(S) \in Nat
<1>1. IsFiniteSet(1 .. Names)
  BY FS_Interval, ListingAssumption
<1> QED BY <1>1, FS_Subset, FS_CardinalityType

(* What a page holds: names from the cursor up to where it ends, and every *)
(* visible one of them.                                                    *)
LEMMA PageIsPrefix ==
  ASSUME Types, NEW P \in SUBSET (1 .. Names), NEW next \in 1 .. End, NEW size \in Nat,
         IsPage(P, next, size)
  PROVE  /\ Cardinality(P) <= size
         /\ \A n \in P : cursor <= n /\ n < next
         /\ \A n \in Uploads : cursor <= n /\ n < next => n \in P
         /\ cursor <= next
<1> DEFINE Rest(w) == {n \in cursor .. Names : state[n] = "upload" \/ (w /\ state[n] = "hide")}
<1>1. PICK w \in BOOLEAN :
        /\ P \subseteq Rest(w) /\ Cardinality(P) <= size /\ (Rest(w) # {} => P # {})
        /\ \A n \in P, k \in Rest(w) \ P : n < k
        /\ IF P = Rest(w) THEN next = End \/ \E n \in P : next = n + 1 /\ \A k \in P : k <= n
           ELSE next \in Rest(w) \ P /\ \A k \in Rest(w) \ P : next <= k
  BY DEF IsPage
<1>0. Names \in Nat /\ cursor \in Nat /\ next \in Nat /\ End = Names + 1
  BY ListingAssumption DEF Types, End
<1>2. \A n \in Rest(w) : n \in Nat /\ cursor <= n /\ n <= Names
  BY <1>0
<1>3. \A n \in Uploads : cursor <= n => n \in Rest(w)
  BY <1>0 DEF Uploads
<1> HIDE DEF Rest
<1>4. CASE P = Rest(w)
  <2>1. next = End \/ \E n \in P : next = n + 1 /\ \A k \in P : k <= n
    BY <1>1, <1>4
  <2>2. \A n \in P : cursor <= n /\ n < next
    BY <2>1, <1>0, <1>2, <1>4
  <2>3. cursor <= next
    BY <2>1, <1>0, <1>2, <1>4 DEF Types
  <2> QED BY <2>2, <2>3, <1>1, <1>3, <1>4
<1>5. CASE P # Rest(w)
  <2>1. next \in Rest(w) \ P /\ \A k \in Rest(w) \ P : next <= k
    BY <1>1, <1>5
  <2>2. \A n \in P : cursor <= n /\ n < next
    BY <2>1, <1>1, <1>2
  <2>3. \A n \in Uploads : cursor <= n /\ n < next => n \in P
    <3> SUFFICES ASSUME NEW n \in Uploads, cursor <= n, n < next, n \notin P PROVE FALSE
      OBVIOUS
    <3>1. n \in Rest(w) \ P
      BY <1>3
    <3>2. next <= n /\ n \in Nat
      BY <3>1, <2>1, <1>2
    <3> QED BY <3>2, <1>0
  <2> QED BY <2>1, <2>2, <2>3, <1>1, <1>2
<1> QED BY <1>4, <1>5

(* The last page leaves no visible file behind it unlisted. *)
LEMMA LastPage ==
  ASSUME Types, NEW n \in Uploads
  PROVE  n \in 1 .. Names /\ n < End
  BY ListingAssumption DEF Uploads, End, Types

(* Taking a page in, for list and for presign alike. *)
LEMMA FetchKeeps ==
  ASSUME IInv, NEW P \in SUBSET (1 .. Names), NEW next \in 1 .. End, FetchPage(P, next)
  PROVE  /\ files' \subseteq 1 .. Names /\ Cardinality(files') <= maxResults
         /\ cursor' \in 1 .. End
         /\ files' \subseteq ever
         /\ \A n \in always : n < cursor' => n \in files'
         /\ \A n \in files' : n < cursor'
         /\ \A n \in always : (\E k \in files' : n < k) => n \in files'
<1> USE DEF IInv
<1>1. /\ files' = files \cup (P \cap Uploads) /\ cursor' = next
      /\ pc = "page" /\ IsPage(P, next, PageSize)
  BY DEF FetchPage
<1>2. /\ PageSize \in Nat /\ PageSize <= maxResults - Cardinality(files)
      /\ Cardinality(files) \in Nat /\ maxResults \in Nat
  <2>1. Cardinality(files) \in Nat
    BY Finite DEF Types
  <2> QED BY <2>1, <1>1, ListingAssumption DEF Types, Progress, PageSize, LeastOf
<1>3. /\ Cardinality(P) <= PageSize
      /\ \A n \in P : cursor <= n /\ n < next
      /\ \A n \in Uploads : cursor <= n /\ n < next => n \in P
      /\ cursor <= next
  BY <1>1, <1>2, PageIsPrefix
<1>4. Scanned /\ Behind
  BY <1>1 DEF Progress
<1>5. cursor \in Nat /\ next \in Nat /\ (1 .. Names) \subseteq Nat
  BY ListingAssumption DEF Types, End
<1>6. files' \subseteq 1 .. Names
  BY <1>1 DEF Types
<1>7. Cardinality(files') <= maxResults
  <2>1. IsFiniteSet(files) /\ IsFiniteSet(P) /\ Cardinality(P) \in Nat
    BY Finite DEF Types
  <2>2. IsFiniteSet(P \cap Uploads) /\ Cardinality(P \cap Uploads) <= Cardinality(P)
    BY <2>1, FS_Subset, P \cap Uploads \subseteq P
  <2>3. Cardinality(files \cup (P \cap Uploads)) =
          Cardinality(files) + Cardinality(P \cap Uploads) - Cardinality(files \cap (P \cap Uploads))
    BY <2>1, <2>2, FS_Union
  <2>4. IsFiniteSet(files \cap (P \cap Uploads)) /\ Cardinality(files \cap (P \cap Uploads)) \in Nat
    BY <2>1, FS_Subset, FS_CardinalityType, files \cap (P \cap Uploads) \subseteq files
  <2>5. Cardinality(P \cap Uploads) \in Nat
    BY <2>2, FS_CardinalityType
  <2> QED BY <2>1, <2>2, <2>3, <2>4, <2>5, <1>1, <1>2, <1>3
<1>8. \A n \in always : n < cursor' => n \in files'
  <2> SUFFICES ASSUME NEW n \in always, n < next PROVE n \in files'
    BY <1>1
  <2>1. n \in Uploads /\ n \in Nat
    BY <1>5 DEF Remembered, Uploads
  <2>2. CASE n < cursor
    BY <2>2, <1>4, <1>1 DEF Scanned
  <2>3. CASE cursor <= n
    BY <2>3, <2>1, <1>3, <1>1
  <2> QED BY <2>1, <2>2, <2>3, <1>5
<1>9. \A n \in files' : n < cursor'
  <2> SUFFICES ASSUME NEW n \in files' PROVE n < next
    BY <1>1
  <2>1. n \in Nat
    BY <1>5, <1>6
  <2>2. n < cursor \/ n \in P
    BY <1>1, <1>4 DEF Behind
  <2> QED BY <2>1, <2>2, <1>3, <1>5
<1>10. \A n \in always : (\E k \in files' : n < k) => n \in files'
  <2> SUFFICES ASSUME NEW n \in always, NEW k \in files', n < k PROVE n \in files'
    OBVIOUS
  <2>1. n \in Nat /\ k \in Nat /\ cursor' \in Nat
    BY <1>1, <1>5, <1>6 DEF Remembered, Uploads
  <2>2. n < cursor'
    BY <2>1, <1>9
  <2> QED BY <2>2, <1>8
<1>11. files' \subseteq ever
  BY <1>1 DEF Remembered
<1> QED BY <1>1, <1>6, <1>7, <1>8, <1>9, <1>10, <1>11

LEMMA ListPageKeeps == IInv /\ ListPage => IInv'
<1> SUFFICES ASSUME IInv, NEW P \in SUBSET (1 .. Names), NEW next \in 1 .. End,
                    verb = "list", FetchPage(P, next),
                    pc' = CASE next = End -> "done" [] next # End /\ Full -> "more" [] OTHER -> "page",
                    UNCHANGED <<verb, maxResults, state, truncated, history, changes>>
             PROVE  IInv'
  BY DEF ListPage
<1>1. /\ files' \subseteq 1 .. Names /\ Cardinality(files') <= maxResults
      /\ cursor' \in 1 .. End /\ files' \subseteq ever
      /\ \A n \in always : n < cursor' => n \in files'
      /\ \A n \in files' : n < cursor'
      /\ \A n \in always : (\E k \in files' : n < k) => n \in files'
  BY FetchKeeps
<1>2. /\ UNCHANGED <<verb, maxResults, state, truncated, always, ever>>
      /\ pc = "page" /\ ~truncated /\ cursor' = next
      /\ pc' \in {"done", "more", "page"}
      /\ pc' = "done" => next = End
      /\ pc' = "more" => Cardinality(files') >= maxResults
      /\ pc' = "page" => ~(Cardinality(files') >= maxResults)
  BY DEF history, Full, FetchPage, IInv, Progress
<1>3. Cardinality(files') \in Nat /\ maxResults \in Nat
  BY <1>1, Finite DEF IInv, Types
<1>4. Types'
  BY <1>1, <1>2 DEF IInv, Types
<1>5. Uploads' = Uploads
  BY <1>2 DEF Uploads
<1>6. Remembered'
  BY <1>1, <1>2, <1>5 DEF IInv, Remembered
<1>7. Progress'
  BY <1>1, <1>2, <1>3 DEF Progress, Scanned, Behind
<1>8. ListingHasNoGaps'
  BY <1>1, <1>2 DEF ListingHasNoGaps
<1>9. ListingIsExact'
  <2>1. pc' = "done" => always' \subseteq files'
    <3> SUFFICES ASSUME pc' = "done", NEW n \in always PROVE n \in files'
      BY <1>2
    <3>1. n < End
      BY LastPage DEF IInv, Remembered
    <3> QED BY <3>1, <1>1, <1>2
  <2> QED BY <2>1, <1>1, <1>2 DEF ListingIsExact
<1> QED BY <1>4, <1>6, <1>7, <1>8, <1>9 DEF IInv

LEMMA PresignPageKeeps == IInv /\ PresignPage => IInv'
<1> SUFFICES ASSUME IInv, NEW P \in SUBSET (1 .. Names), NEW next \in 1 .. End,
                    verb = "presign", FetchPage(P, next),
                    pc' = IF next = End \/ Full THEN "done" ELSE "page",
                    UNCHANGED <<verb, maxResults, state, truncated, history, changes>>
             PROVE  IInv'
  BY DEF PresignPage
<1>1. /\ files' \subseteq 1 .. Names /\ Cardinality(files') <= maxResults
      /\ cursor' \in 1 .. End /\ files' \subseteq ever
      /\ \A n \in always : n < cursor' => n \in files'
      /\ \A n \in files' : n < cursor'
      /\ \A n \in always : (\E k \in files' : n < k) => n \in files'
  BY FetchKeeps
<1>2. /\ UNCHANGED <<verb, maxResults, state, truncated, always, ever>>
      /\ pc = "page" /\ ~truncated /\ cursor' = next
      /\ pc' \in {"done", "page"}
      /\ pc' = "done" => next = End \/ Cardinality(files') >= maxResults
      /\ pc' = "page" => ~(Cardinality(files') >= maxResults)
  BY DEF history, Full, FetchPage, IInv, Progress
<1>3. Cardinality(files') \in Nat /\ maxResults \in Nat
  BY <1>1, Finite DEF IInv, Types
<1>4. Types'
  BY <1>1, <1>2 DEF IInv, Types
<1>5. Uploads' = Uploads
  BY <1>2 DEF Uploads
<1>6. Remembered'
  BY <1>1, <1>2, <1>5 DEF IInv, Remembered
<1>7. Progress'
  BY <1>1, <1>2, <1>3 DEF Progress, Scanned, Behind
<1>8. ListingHasNoGaps'
  BY <1>1, <1>2 DEF ListingHasNoGaps
<1>9. ListingIsExact'
  <2>1. pc' = "done" /\ Cardinality(files') < maxResults => always' \subseteq files'
    <3> SUFFICES ASSUME pc' = "done", Cardinality(files') < maxResults, NEW n \in always
                 PROVE  n \in files'
      BY <1>2
    <3>1. n < End
      BY LastPage DEF IInv, Remembered
    <3>2. next = End
      BY <1>2, <1>3
    <3> QED BY <3>1, <3>2, <1>1, <1>2
  <2> QED BY <2>1, <1>1, <1>2 DEF ListingIsExact
<1> QED BY <1>4, <1>6, <1>7, <1>8, <1>9 DEF IInv

LEMMA LookForMoreKeeps == IInv /\ LookForMore => IInv'
<1> SUFFICES ASSUME IInv, NEW P \in SUBSET (1 .. Names), NEW next \in 1 .. End,
                    pc = "more", IsPage(P, next, PageCap), truncated' = MeansMore(P),
                    pc' = IF MeansMore(P) \/ next = End THEN "done" ELSE "more",
                    cursor' = next,
                    UNCHANGED <<verb, maxResults, state, files, history, changes>>
             PROVE  IInv'
  BY DEF LookForMore
<1>1. /\ UNCHANGED <<verb, maxResults, state, files, always, ever>>
      /\ Scanned /\ Behind /\ verb = "list" /\ Cardinality(files) = maxResults
      /\ MeansMore(P) \in BOOLEAN
  BY DEF history, IInv, Progress, MeansMore
<1>2. /\ \A n \in P : cursor <= n /\ n < next
      /\ \A n \in Uploads : cursor <= n /\ n < next => n \in P
      /\ cursor <= next
  BY PageIsPrefix, ListingAssumption DEF IInv
<1>3. cursor \in Nat /\ next \in Nat /\ files \subseteq Nat /\ Uploads \subseteq Nat
  BY ListingAssumption DEF IInv, Types, End, Uploads
<1>4. Types'
  BY <1>1 DEF IInv, Types
<1>5. Remembered'
  BY <1>1 DEF IInv, Remembered, Uploads
<1>6. Behind'
  BY <1>1, <1>2, <1>3 DEF Behind
<1>7. ~MeansMore(P) => Scanned'
  <2> SUFFICES ASSUME P \cap Uploads = {}, NEW n \in always, n < next PROVE n \in files
    BY <1>1 DEF Scanned, MeansMore
  <2>1. n \in Uploads /\ n \in Nat
    BY <1>3 DEF IInv, Remembered
  <2>2. n < cursor
    BY <2>1, <1>2, <1>3
  <2> QED BY <2>2, <1>1 DEF Scanned
<1>8. Progress'
  BY <1>1, <1>6, <1>7 DEF Progress
<1>9. ListingHasNoGaps'
  BY <1>1 DEF IInv, ListingHasNoGaps
<1>10. ListingIsExact'
  <2>1. ~MeansMore(P) /\ next = End => always' \subseteq files'
    <3> SUFFICES ASSUME ~MeansMore(P), next = End, NEW n \in always PROVE n \in files
      BY <1>1
    <3>1. n < End
      BY LastPage DEF IInv, Remembered
    <3> QED BY <3>1, <1>7, <1>1 DEF Scanned
  <2>2. MeansMore(P) => ever \ files # {}
    <3> SUFFICES ASSUME NEW n \in P \cap Uploads PROVE n \in ever \ files
      BY DEF MeansMore
    <3>1. cursor <= n /\ n \in Nat
      BY <1>2, <1>3
    <3>2. n \notin files
      BY <3>1, <1>1, <1>3 DEF Behind
    <3> QED BY <3>2 DEF IInv, Remembered
  <2>3. Cardinality(files') <= maxResults' /\ files' \subseteq ever'
    BY <1>1 DEF IInv, ListingIsExact
  <2>4. pc' = "done" /\ ~truncated' => next = End
    OBVIOUS
  <2> QED BY <2>1, <2>2, <2>3, <2>4, <1>1 DEF ListingIsExact
<1> QED BY <1>4, <1>5, <1>8, <1>9, <1>10 DEF IInv

LEMMA OtherChangesKeeps == IInv /\ OtherChanges => IInv'
<1> SUFFICES ASSUME IInv, NEW n \in 1 .. Names, NEW s \in {"upload", "hide", "absent"},
                    pc \in {"page", "more"},
                    state' = [state EXCEPT ![n] = s],
                    always' = IF s = "upload" THEN always ELSE always \ {n},
                    ever' = IF s = "upload" THEN ever \cup {n} ELSE ever,
                    UNCHANGED <<pc, verb, maxResults, cursor, result>>
             PROVE  IInv'
  BY DEF OtherChanges
<1>1. UNCHANGED <<pc, verb, maxResults, cursor, files, truncated>>
  BY DEF result
<1>2. always' \subseteq always /\ ever \subseteq ever'
  OBVIOUS
<1>3. Types'
  BY <1>1 DEF IInv, Types
<1>4. Uploads' = IF s = "upload" THEN Uploads \cup {n} ELSE Uploads \ {n}
  BY DEF Uploads, IInv, Types
<1>5. Remembered'
  BY <1>1, <1>2, <1>4 DEF IInv, Remembered
<1>6. Progress'
  BY <1>1, <1>2 DEF IInv, Progress, Scanned, Behind
<1>7. ListingHasNoGaps'
  BY <1>1, <1>2 DEF IInv, ListingHasNoGaps
<1>8. ListingIsExact'
  BY <1>1, <1>2 DEF IInv, ListingIsExact, Progress
<1> QED BY <1>3, <1>5, <1>6, <1>7, <1>8 DEF IInv

(* The invariant holds in every reachable state. *)
THEOREM ListingInvariance == Spec => []IInv
<1>1. Init => IInv
  <2> SUFFICES ASSUME Init PROVE IInv
    OBVIOUS
  <2>1. Cardinality({}) = 0 /\ MaxMax \in Nat
    BY FS_EmptySet, ListingAssumption
  <2>2. Types
    <3>1. maxResults \in Nat \ {0} /\ cursor \in 1 .. End
      BY ListingAssumption DEF Init, End
    <3>2. files \subseteq 1 .. Names /\ Cardinality(files) <= maxResults
      BY <3>1, <2>1 DEF Init
    <3> QED BY <3>1, <3>2 DEF Init, Types
  <2>3. Remembered /\ Progress /\ ListingHasNoGaps /\ ListingIsExact
    BY <2>1, <2>2 DEF Init, Types, Remembered, Progress, Scanned, Behind, ListingHasNoGaps, ListingIsExact, Uploads
  <2> QED BY <2>2, <2>3 DEF IInv
<1>2. IInv /\ [Next]_vars => IInv'
  <2> SUFFICES ASSUME IInv, [Next]_vars PROVE IInv'
    OBVIOUS
  <2>1. CASE ListPage BY <2>1, ListPageKeeps
  <2>2. CASE PresignPage BY <2>2, PresignPageKeeps
  <2>3. CASE LookForMore BY <2>3, LookForMoreKeeps
  <2>4. CASE OtherChanges BY <2>4, OtherChangesKeeps
  <2>5. CASE RequestFails
    <3>1. /\ UNCHANGED <<verb, maxResults, state, cursor, files, truncated, always, ever>>
          /\ pc \in {"page", "more"} /\ pc' = "failed"
      BY <2>5 DEF RequestFails, result, history
    <3>2. ~truncated
      BY <3>1 DEF IInv, Progress
    <3> QED BY <3>1, <3>2 DEF IInv, Types, Remembered, Progress, Scanned, Behind, ListingHasNoGaps, ListingIsExact, Uploads
  <2>6. CASE UNCHANGED vars
    <3>1. UNCHANGED <<pc, verb, maxResults, state, cursor, files, truncated, always, ever>>
      BY <2>6 DEF vars, result, history
    <3> QED BY <3>1 DEF IInv, Types, Remembered, Progress, Scanned, Behind, ListingHasNoGaps, ListingIsExact, Uploads
  <2> QED BY <2>1, <2>2, <2>3, <2>4, <2>5, <2>6 DEF Next, Terminated
<1> QED BY <1>1, <1>2, PTL DEF Spec

(* However the pages fall and whoever writes between them, no file that    *)
(* was there all along is passed over.                                     *)
THEOREM NoFileSkipped == Spec => []ListingHasNoGaps
<1>1. IInv => ListingHasNoGaps
  BY DEF IInv
<1> QED BY <1>1, ListingInvariance, PTL

(* What list says about being truncated is right, and neither verb returns *)
(* more than max-results or a name that was never visible.                 *)
THEOREM ListingExact == Spec => []ListingIsExact
<1>1. IInv => ListingIsExact
  BY DEF IInv
<1> QED BY <1>1, ListingInvariance, PTL
=============================================================================
