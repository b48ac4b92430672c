------------------------ MODULE FileVersionsProofs ------------------------
(* Proofs about the verbs on one name: for any bucket, any inputs and any  *)
(* number of versions, repetitions and changes by others.                  *)
EXTENDS FileVersions, TLAPS

(* What the request to be sent next is about.                              *)
Control ==
  /\ pc = "lookup" =>
       /\ request.verb \in {"delete", "copy", "retention"}
       /\ request.verb = "retention" => request.mode # "absent" \/ request.hold # "absent"
  /\ pc \in {"lookup", "copy"} => (request.verb = "copy" => request.to # 0)
  /\ pc \in {"delete", "copy", "retain", "hold"} => hit \in shown /\ pc \in Asked
  /\ pc \in {"hide", "unhide"} => pc = request.verb
  /\ pc = "remove" => /\ request.verb = "unhide" /\ hit \in DOMAIN store
                      /\ store[hit].name = Source /\ store[hit].kind = "hide"
  /\ pc = "head" => request.verb \in {"head", "verify"}
  /\ pc = "compare" => request.verb = "verify" /\ hit \in shown

(* What the command has done when that request is due.                     *)
Done ==
  /\ pc \in {"start", "lookup", "unhide", "head", "compare"} => did = {}
  /\ pc = "hold" /\ request.mode # "absent" => \E e \in did : e[1] = "retain"
  /\ request.verb # "hide" => \A e \in did : e[2] = hit

IInv ==
  TypeOK /\ Control /\ Done /\ ActsOnWhatWasNamed /\ DoesWhatWasAsked /\ VerifiedIsEqual

(* Versions are added and their locks set; the rest of them stays.         *)
Grows ==
  /\ DOMAIN store \subseteq DOMAIN store'
  /\ \A v \in DOMAIN store : /\ store'[v].name = store[v].name
                             /\ store'[v].kind = store[v].kind
                             /\ store'[v].sha = store[v].sha

Bucket == store \in Seq(Files) /\ live \subseteq DOMAIN store

-----------------------------------------------------------------------------
LEMMA AskedIs ==
  ASSUME TypeOK
  PROVE  /\ Asked \subseteq Effects
         /\ "delete" \in Asked <=> request.verb = "delete" /\ ~request.dryRun
         /\ "copy" \in Asked <=> request.verb = "copy"
         /\ "retain" \in Asked <=> request.verb = "retention" /\ request.mode # "absent"
         /\ "hold" \in Asked <=> request.verb = "retention" /\ request.hold # "absent"
         /\ "hide" \in Asked <=> request.verb = "hide"
         /\ "unhide" \in Asked <=> request.verb = "unhide"
<1>1. request.verb \in Verbs
  BY DEF TypeOK, Requests
<1>2. CASE request.verb = "delete"
  BY <1>2 DEF Asked, Effects
<1>3. CASE request.verb = "retention"
  BY <1>3 DEF Asked, Effects
<1>4. CASE request.verb \in {"copy", "hide", "unhide"}
  BY <1>4 DEF Asked, Effects
<1>5. CASE request.verb \in {"head", "verify"}
  BY <1>5 DEF Asked, Effects
<1> QED BY <1>1, <1>2, <1>3, <1>4, <1>5 DEF Verbs

(* Only retention asks for two things.                                     *)
LEMMA AskedOfVerb ==
  ASSUME TypeOK, NEW x \in Asked
  PROVE  \/ x = request.verb /\ x \notin {"retain", "hold"}
         \/ request.verb = "retention" /\ x \in {"retain", "hold"}
<1>1. x \in {"delete", "copy", "retain", "hold", "hide", "unhide"}
  BY AskedIs DEF Effects
<1>2. CASE x \in {"delete", "copy", "hide", "unhide"}
  BY <1>2, AskedIs
<1>3. CASE x \in {"retain", "hold"}
  BY <1>3, AskedIs
<1> QED BY <1>1, <1>2, <1>3

LEMMA AddKeeps ==
  ASSUME Bucket, NEW f \in Files, Add(f)
  PROVE  /\ Bucket' /\ Grows
         /\ Len(store) + 1 \in DOMAIN store' /\ store'[Len(store) + 1] = f
<1>1. store' = Append(store, f) /\ live' = live \cup {Len(store) + 1}
  BY DEF Add
<1>2. /\ store \in Seq(Files) /\ Len(store) \in Nat
      /\ store' \in Seq(Files) /\ Len(store') = Len(store) + 1
      /\ DOMAIN store = 1 .. Len(store) /\ DOMAIN store' = 1 .. (Len(store) + 1)
      /\ \A v \in DOMAIN store : store'[v] = store[v]
      /\ store'[Len(store) + 1] = f
  BY <1>1 DEF Bucket
<1> QED BY <1>1, <1>2 DEF Bucket, Grows

LEMMA LockKeeps ==
  ASSUME Bucket, NEW v \in DOMAIN store,
         NEW l \in {"none", "governance", "compliance"}, NEW h \in {"on", "off"},
         UNCHANGED live,
         \/ store' = [store EXCEPT ![v].lock = l]
         \/ store' = [store EXCEPT ![v].hold = h]
  PROVE  Bucket' /\ Grows
<1>1. store \in [DOMAIN store -> Files] /\ DOMAIN store = 1 .. Len(store) /\ Len(store) \in Nat
  BY DEF Bucket
<1>2. \A u \in DOMAIN store : store[u] \in Files
  BY <1>1
<1>3. DOMAIN store' = DOMAIN store
  OBVIOUS
<1>4. \A u \in DOMAIN store : /\ store'[u] \in Files
                              /\ store'[u].name = store[u].name
                              /\ store'[u].kind = store[u].kind
                              /\ store'[u].sha = store[u].sha
  <2> SUFFICES ASSUME NEW u \in DOMAIN store
               PROVE  /\ store'[u] \in Files
                      /\ store'[u].name = store[u].name
                      /\ store'[u].kind = store[u].kind
                      /\ store'[u].sha = store[u].sha
    OBVIOUS
  <2>1. CASE u # v
    BY <2>1, <1>2
  <2>2. CASE u = v
    <3>1. store'[u] = [store[u] EXCEPT !.lock = l] \/ store'[u] = [store[u] EXCEPT !.hold = h]
      BY <2>2
    <3> QED BY <3>1, <1>2 DEF Files
  <2> QED BY <2>1, <2>2
<1>5. store' \in Seq(Files)
  <2>1. store' = [u \in 1 .. Len(store) |-> store'[u]]
    BY <1>1, <1>3
  <2> QED BY <2>1, <1>1, <1>3, <1>4
<1> QED BY <1>3, <1>4, <1>5 DEF Bucket, Grows
-----------------------------------------------------------------------------
(* Whatever others do, and a request that fails: nothing that the command  *)
(* did is touched.                                                         *)
LEMMA QuietKeeps ==
  ASSUME IInv, Bucket', Grows, UNCHANGED <<request, hit, did>>,
         pc' = pc \/ pc' = "failed", retries' = retries, aborted' \in BOOLEAN,
         shown \subseteq shown', shown' \subseteq DOMAIN store'
  PROVE  IInv'
<1>1. Asked' = Asked
  BY DEF Asked
<1>2. TypeOK'
  BY DEF IInv, TypeOK, Bucket, Grows, Ended
<1>3. Control'
  BY <1>1 DEF IInv, Control, Grows
<1>4. Done'
  BY DEF IInv, Done
<1>5. ActsOnWhatWasNamed'
  BY DEF IInv, TypeOK, ActsOnWhatWasNamed, Grows
<1>6. DoesWhatWasAsked'
  BY <1>1 DEF IInv, DoesWhatWasAsked
<1>7. VerifiedIsEqual'
  <2> SUFFICES ASSUME pc' = "succeeded", request'.verb = "verify"
               PROVE  \E v \in shown' : store'[v].sha \in Shas /\ store'[v].sha = Expected
    BY DEF VerifiedIsEqual, Expected
  <2>1. PICK v \in shown : store[v].sha \in Shas /\ store[v].sha = Expected
    BY DEF IInv, VerifiedIsEqual
  <2> QED BY <2>1 DEF IInv, TypeOK, Grows
<1> QED BY <1>2, <1>3, <1>4, <1>5, <1>6, <1>7 DEF IInv

(* What a step adds to the history of what was visible.                    *)
LEMMA ShownGrows ==
  ASSUME Bucket', Grows, shown \subseteq DOMAIN store,
         shown' = shown \cup {v \in live' : Visible(v)' /\ store'[v].name = Source}
  PROVE  shown \subseteq shown' /\ shown' \subseteq DOMAIN store'
BY DEF Bucket, Grows

(* A request of the command that B2 has carried out: it adds to what the   *)
(* command did, and the command goes on or has the request repeated.       *)
LEMMA EffectKeeps ==
  ASSUME IInv, Bucket', Grows, UNCHANGED <<request, hit, aborted>>,
         shown \subseteq shown', shown' \subseteq DOMAIN store',
         NEW what \in Asked, NEW v \in DOMAIN store', NEW p \in {"succeeded", "hold"},
         did' = did \cup {<<what, v>>}, Answer(p),
         pc = IF what = "unhide" THEN "remove" ELSE what,
         what # "hide" => v = hit,
         what \in {"delete", "copy", "retain", "hold"} => v \in shown,
         what \in {"hide", "unhide"} => store'[v].name = Source /\ store'[v].kind = "hide",
         p = "hold" => what = "retain" /\ "hold" \in Asked,
         p = "succeeded" /\ what = "retain" => "hold" \notin Asked
  PROVE  IInv'
<1>0. TypeOK /\ Control /\ Done /\ ActsOnWhatWasNamed /\ DoesWhatWasAsked
  BY DEF IInv
<1>1. Asked' = Asked
  BY DEF Asked
<1>2. \A e \in did' : e \in did \/ e = <<what, v>>
  OBVIOUS
<1>3. pc' \in {p, pc} /\ retries' \in 0 .. MaxRetries
  BY <1>0, FileVersionsAssumption DEF Answer, TypeOK
<1>4. TypeOK'
  <2>1. did' \subseteq Effects \X DOMAIN store'
    BY <1>0, AskedIs DEF TypeOK, Grows
  <2> QED BY <1>0, <1>3, <2>1 DEF TypeOK, Bucket, Grows, Ended
<1>5. Control'
  <2>1. what \in {"delete", "copy", "retain", "hold", "hide", "unhide"}
    BY <1>0, AskedIs DEF Effects
  <2>2. p = "hold" => hit \in shown'
    BY <2>1
  <2> QED BY <1>0, <1>1, <1>3, <2>1, <2>2, AskedIs DEF Control, Grows
<1>6. Done'
  <2>1. what \in {"delete", "copy", "retain", "hold", "hide", "unhide"}
    BY <1>0, AskedIs DEF Effects
  <2>2. request.verb # "hide" => \A e \in did' : e[2] = hit
    BY <1>0, <1>2, AskedIs DEF Done
  <2>3. p = "hold" => <<what, v>>[1] = "retain"
    OBVIOUS
  <2>4. pc' = "hold" /\ request.mode # "absent" => \E e \in did' : e[1] = "retain"
    BY <1>0, <1>3, <2>1, <2>3 DEF Done
  <2> QED BY <1>0, <1>3, <2>1, <2>2, <2>4 DEF Done
<1>7. ActsOnWhatWasNamed'
  BY <1>0, <1>2 DEF ActsOnWhatWasNamed, TypeOK, Grows
<1>8. DoesWhatWasAsked'
  <2>1. \A e \in did' : e[1] \in Asked
    BY <1>0, <1>2 DEF DoesWhatWasAsked
  <2>2. request.verb # "hide" => \A e, f \in did' : e[2] = f[2]
    BY <1>0, <1>2, AskedIs DEF Done
  <2>3. pc' = "succeeded" => \A a \in Asked : \E e \in did' : e[1] = a
    <3> SUFFICES ASSUME pc' = "succeeded", NEW a \in Asked PROVE \E e \in did' : e[1] = a
      OBVIOUS
    <3>1. CASE a = what
      <4>1. <<what, v>> \in did' /\ <<what, v>>[1] = what
        OBVIOUS
      <4> QED BY <4>1, <3>1
    <3>2. CASE a # what
      <4>1. (a = "retain" /\ what = "hold") \/ (a = "hold" /\ what = "retain")
        <5>1. \/ a = request.verb /\ a \notin {"retain", "hold"}
              \/ request.verb = "retention" /\ a \in {"retain", "hold"}
          BY <1>0, AskedOfVerb
        <5>2. \/ what = request.verb /\ what \notin {"retain", "hold"}
              \/ request.verb = "retention" /\ what \in {"retain", "hold"}
          BY <1>0, AskedOfVerb
        <5>3. "retention" \notin Asked
          BY <1>0, AskedIs DEF Effects
        <5> QED BY <3>2, <5>1, <5>2, <5>3
      <4>2. p = "succeeded"
        BY <1>3, <4>1 DEF Answer
      <4>3. a = "retain" /\ pc = "hold" /\ request.mode # "absent"
        BY <1>0, <4>1, <4>2, AskedIs
      <4> QED BY <1>0, <4>3 DEF Done
    <3> QED BY <3>1, <3>2
  <2> QED BY <1>1, <2>1, <2>2, <2>3 DEF DoesWhatWasAsked
<1>9. VerifiedIsEqual'
  <2>1. request.verb # "verify"
    BY <1>0, AskedIs DEF Effects
  <2> QED BY <2>1 DEF VerifiedIsEqual
<1> QED BY <1>4, <1>5, <1>6, <1>7, <1>8, <1>9 DEF IInv
-----------------------------------------------------------------------------
(* A step that leaves the bucket and what was done as they are, and goes   *)
(* on to another request or ends.                                          *)
LEMMA GoOnKeeps ==
  ASSUME IInv, UNCHANGED <<request, store, live, retries, did, aborted>>,
         pc' \in Ended \cup {"lookup", "delete", "copy", "retain", "hold", "hide",
                             "unhide", "remove", "head", "compare"},
         shown \subseteq shown', shown' \subseteq DOMAIN store,
         hit' \in {0} \cup DOMAIN store, did = {}, Control',
         pc' = "hold" => request.mode = "absent",
         pc' = "succeeded" => \/ request.verb = "unhide" \/ Asked = {},
         pc' = "succeeded" /\ request.verb = "verify" => 
           hit' \in shown /\ store[hit'].sha \in Shas /\ store[hit'].sha = Expected
  PROVE  IInv'
<1>1. Asked' = Asked /\ Expected' = Expected
  BY DEF Asked, Expected
<1>2. TypeOK'
  BY DEF IInv, TypeOK
<1>3. Done' /\ ActsOnWhatWasNamed'
  BY DEF Done, ActsOnWhatWasNamed
<1>4. DoesWhatWasAsked'
  BY <1>1 DEF DoesWhatWasAsked
<1>5. VerifiedIsEqual'
  BY <1>1 DEF VerifiedIsEqual
<1> QED BY <1>2, <1>3, <1>4, <1>5 DEF IInv

LEMMA StartKeeps ==
  ASSUME IInv, Start, shown \subseteq shown', shown' \subseteq DOMAIN store
  PROVE  IInv'
<1>1. /\ pc = "start" /\ UNCHANGED <<request, store, live, hit, retries, did, aborted>>
      /\ did = {} /\ request.verb \in Verbs /\ TypeOK
  BY DEF Start, bucket, IInv, Done, TypeOK, Requests
<1>2. \/ pc' = "lookup" /\ request.verb = "delete"
      \/ pc' = "lookup" /\ request.verb = "copy" /\ request.to # 0
      \/ pc' = "lookup" /\ request.verb = "retention" /\ RetentionValid
      \/ pc' = "head" /\ request.verb \in {"head", "verify"}
      \/ pc' = request.verb /\ request.verb \in {"hide", "unhide"}
      \/ pc' = "failed"
  <2>1. CASE request.verb \in {"delete", "copy", "retention"}
    BY <2>1 DEF Start
  <2>2. CASE request.verb = "verify"
    BY <2>2 DEF Start
  <2>3. CASE request.verb \in {"head", "hide", "unhide"}
    BY <2>3 DEF Start
  <2> QED BY <1>1, <2>1, <2>2, <2>3 DEF Verbs
<1>3. Control'
  BY <1>1, <1>2 DEF Control, RetentionValid
<1>4. hit' \in {0} \cup DOMAIN store
  BY <1>1 DEF TypeOK
<1>5. /\ pc' \in Ended \cup {"lookup", "delete", "copy", "retain", "hold", "hide",
                             "unhide", "remove", "head", "compare"}
      /\ pc' \notin {"hold", "succeeded"}
  BY <1>2 DEF Ended
<1> QED BY <1>1, <1>3, <1>4, <1>5, GoOnKeeps

LEMMA FindFileByNameKeeps ==
  ASSUME IInv, FindFileByName, shown \subseteq shown', shown' \subseteq DOMAIN store,
         shown' = shown \cup {v \in live' : Visible(v)' /\ store'[v].name = Source}
  PROVE  IInv'
<1>1. PICK v \in live :
        /\ pc = "lookup" /\ Matches(v) /\ Newest(v) /\ hit' = v /\ pc' = AfterLookup
        /\ UNCHANGED <<request, store, live, retries, did, aborted>>
  BY DEF FindFileByName, bucket, Listed, Visible
<1>2. v \in shown'
  <2>1. Newest(v)' <=> Newest(v)
    BY <1>1 DEF Newest
  <2> QED BY <1>1, <2>1 DEF Matches, Visible
<1>3. /\ did = {} /\ v \in DOMAIN store /\ TypeOK
      /\ request.verb \in {"delete", "copy", "retention"}
      /\ request.verb = "retention" => request.mode # "absent" \/ request.hold # "absent"
      /\ request.verb = "copy" => request.to # 0
      /\ request.verb # "retention" => request.mode = "absent"
  BY <1>1 DEF IInv, Done, Control, TypeOK, Requests
<1>4. \/ pc' = "succeeded" /\ request.verb = "delete" /\ request.dryRun
      \/ pc' = "delete" /\ "delete" \in Asked
      \/ pc' = "copy" /\ "copy" \in Asked
      \/ pc' = "retain" /\ "retain" \in Asked
      \/ pc' = "hold" /\ "hold" \in Asked /\ request.mode = "absent"
  <2>1. CASE request.verb = "delete"
    <3>1. pc' = IF request.dryRun THEN "succeeded" ELSE "delete"
      BY <1>1, <1>3, <2>1 DEF AfterLookup
    <3> QED BY <1>3, <2>1, <3>1, AskedIs
  <2>2. CASE request.verb = "copy"
    <3>1. pc' = "copy"
      BY <1>1, <1>3, <2>2 DEF AfterLookup
    <3> QED BY <1>3, <2>2, <3>1, AskedIs
  <2>3. CASE request.verb = "retention"
    BY <1>1, <1>3, <2>3, AskedIs DEF AfterLookup
  <2> QED BY <1>3, <2>1, <2>2, <2>3
<1>5. Asked' = Asked
  BY <1>1 DEF Asked
<1>6. Control'
  BY <1>1, <1>2, <1>3, <1>4, <1>5 DEF Control
<1>7. pc' = "succeeded" => Asked = {} /\ request.verb # "verify"
  BY <1>4 DEF Asked
<1>8. pc' \in Ended \cup {"delete", "copy", "retain", "hold"} /\ (pc' = "hold" => request.mode = "absent")
  BY <1>4 DEF Ended
<1> QED BY <1>1, <1>3, <1>6, <1>7, <1>8, GoOnKeeps

LEMMA FindMarkerKeeps ==
  ASSUME IInv, FindMarker, shown \subseteq shown', shown' \subseteq DOMAIN store
  PROVE  IInv'
<1>1. /\ pc = "unhide" /\ UNCHANGED <<request, store, live, retries, did, aborted>>
      /\ \/ /\ hit' \in live /\ store[hit'].name = Source /\ store[hit'].kind = "hide"
            /\ pc' = "remove"
         \/ pc' = "succeeded" /\ UNCHANGED hit
  BY DEF FindMarker, bucket
<1>2. did = {} /\ request.verb = "unhide" /\ TypeOK
  BY <1>1 DEF IInv, Done, Control
<1>3. hit' \in {0} \cup DOMAIN store /\ (pc' = "remove" => hit' \in DOMAIN store)
  BY <1>1, <1>2 DEF TypeOK
<1>4. Control'
  BY <1>1, <1>2, <1>3 DEF Control
<1> QED BY <1>1, <1>2, <1>3, <1>4, GoOnKeeps DEF Ended

LEMMA HeadKeeps ==
  ASSUME IInv, Head_, shown \subseteq shown', shown' \subseteq DOMAIN store,
         shown' = shown \cup {v \in live' : Visible(v)' /\ store'[v].name = Source}
  PROVE  IInv'
<1>1. PICK v \in live :
        /\ pc = "head" /\ Visible(v) /\ store[v].name = Source /\ hit' = v
        /\ pc' = IF request.verb = "head" THEN "succeeded" ELSE "compare"
        /\ UNCHANGED <<request, store, live, retries, did, aborted>>
  BY DEF Head_, bucket
<1>2. v \in shown'
  <2>1. Newest(v)' <=> Newest(v)
    BY <1>1 DEF Newest
  <2> QED BY <1>1, <2>1 DEF Visible
<1>3. did = {} /\ request.verb \in {"head", "verify"} /\ TypeOK /\ v \in DOMAIN store
  BY <1>1 DEF IInv, Done, Control, TypeOK
<1>4. Control'
  BY <1>1, <1>2, <1>3 DEF Control
<1>5. Asked = {}
  BY <1>3 DEF Asked
<1> QED BY <1>1, <1>3, <1>4, <1>5, GoOnKeeps DEF Ended

LEMMA CompareKeeps ==
  ASSUME IInv, Compare, shown \subseteq shown', shown' \subseteq DOMAIN store
  PROVE  IInv'
<1>1. /\ pc = "compare" /\ pc' = IF Verified THEN "succeeded" ELSE "failed"
      /\ UNCHANGED <<request, store, live, hit, retries, did, aborted>>
  BY DEF Compare, bucket
<1>2. did = {} /\ request.verb = "verify" /\ hit \in shown /\ TypeOK
  BY <1>1 DEF IInv, Done, Control
<1>3. store[hit] \in Files /\ hit \in DOMAIN store
  BY <1>2 DEF TypeOK
<1>4. Verified => store[hit].sha \in Shas /\ store[hit].sha = Expected
  BY <1>3 DEF Verified, Files
<1>5. Control'
  BY <1>1 DEF Control
<1>6. Asked = {}
  BY <1>2 DEF Asked
<1> QED BY <1>1, <1>2, <1>3, <1>4, <1>5, <1>6, GoOnKeeps DEF Ended
-----------------------------------------------------------------------------
(* The requests that change the bucket.                                    *)

LEMMA DeletionKeeps ==
  ASSUME IInv, DeleteVersion \/ RemoveMarker,
         shown' = shown \cup {v \in live' : Visible(v)' /\ store'[v].name = Source}
  PROVE  IInv'
<1>0. TypeOK /\ Control
  BY DEF IInv
<1>1. /\ hit \in live /\ live' = live \ {hit} /\ Answer("succeeded")
      /\ UNCHANGED <<request, store, hit, aborted>>
  BY DEF DeleteVersion, RemoveMarker, Deletable
<1>2. Bucket' /\ Grows /\ hit \in DOMAIN store'
  BY <1>0, <1>1 DEF TypeOK, Bucket, Grows
<1>3. shown \subseteq shown' /\ shown' \subseteq DOMAIN store'
  BY <1>0, <1>2, ShownGrows DEF TypeOK
<1>4. CASE DeleteVersion
  <2>1. pc = "delete" /\ did' = did \cup {<<"delete", hit>>}
    BY <1>4 DEF DeleteVersion
  <2>2. "delete" \in Asked /\ hit \in shown
    BY <1>0, <2>1 DEF Control
  <2> QED BY <1>1, <1>2, <1>3, <2>1, <2>2, EffectKeeps
<1>5. CASE RemoveMarker
  <2>1. pc = "remove" /\ did' = did \cup {<<"unhide", hit>>}
    BY <1>5 DEF RemoveMarker
  <2>2. "unhide" \in Asked /\ store'[hit].name = Source /\ store'[hit].kind = "hide"
    BY <1>0, <1>1, <2>1, AskedIs DEF Control
  <2> QED BY <1>1, <1>2, <1>3, <2>1, <2>2, EffectKeeps
<1> QED BY <1>4, <1>5

LEMMA LockingKeeps ==
  ASSUME IInv, UpdateRetention \/ UpdateLegalHold,
         shown' = shown \cup {v \in live' : Visible(v)' /\ store'[v].name = Source}
  PROVE  IInv'
<1>0. TypeOK /\ Control /\ Bucket
  BY DEF IInv, TypeOK, Bucket
<1>1. hit \in live /\ UNCHANGED <<request, live, hit, aborted>>
  BY DEF UpdateRetention, UpdateLegalHold
<1>2. hit \in DOMAIN store
  BY <1>0, <1>1 DEF TypeOK
<1>3. CASE UpdateRetention
  <2>1. /\ pc = "retain" /\ store' = [store EXCEPT ![hit].lock = request.mode]
        /\ did' = did \cup {<<"retain", hit>>} /\ Answer(AfterRetention)
    BY <1>3 DEF UpdateRetention
  <2>2. "retain" \in Asked /\ hit \in shown /\ request.verb = "retention"
    BY <1>0, <2>1, AskedIs DEF Control
  <2>3. request.mode \in {"none", "governance", "compliance"}
    BY <1>0, <2>2, AskedIs DEF TypeOK, Requests
  <2>4. Bucket' /\ Grows
    BY <1>0, <1>1, <1>2, <2>1, <2>3, LockKeeps
  <2>5. shown \subseteq shown' /\ shown' \subseteq DOMAIN store'
    BY <1>0, <2>4, ShownGrows DEF TypeOK
  <2>6. /\ AfterRetention \in {"succeeded", "hold"}
        /\ AfterRetention = "hold" => "hold" \in Asked
        /\ AfterRetention = "succeeded" => "hold" \notin Asked
    BY <1>0, <2>2, AskedIs DEF AfterRetention
  <2>7. hit \in DOMAIN store'
    BY <1>2, <2>4 DEF Grows
  <2> HIDE DEF AfterRetention
  <2> QED BY <1>1, <2>1, <2>2, <2>4, <2>5, <2>6, <2>7, EffectKeeps
<1>4. CASE UpdateLegalHold
  <2>1. /\ pc = "hold" /\ store' = [store EXCEPT ![hit].hold = request.hold]
        /\ did' = did \cup {<<"hold", hit>>} /\ Answer("succeeded")
    BY <1>4 DEF UpdateLegalHold
  <2>2. "hold" \in Asked /\ hit \in shown
    BY <1>0, <2>1 DEF Control
  <2>3. request.hold \in {"on", "off"}
    BY <1>0, <2>2, AskedIs DEF TypeOK, Requests
  <2>4. Bucket' /\ Grows
    BY <1>0, <1>1, <1>2, <2>1, <2>3, LockKeeps
  <2>5. shown \subseteq shown' /\ shown' \subseteq DOMAIN store'
    BY <1>0, <2>4, ShownGrows DEF TypeOK
  <2>6. hit \in DOMAIN store'
    BY <1>2, <2>4 DEF Grows
  <2> QED BY <1>1, <2>1, <2>2, <2>4, <2>5, <2>6, EffectKeeps
<1> QED BY <1>3, <1>4

LEMMA MarkerIsFile == ASSUME NEW n \in 1 .. Names PROVE Marker(n) \in Files
BY DEF Marker, Files

LEMMA AddingKeeps ==
  ASSUME IInv, CopyFile \/ HideFile,
         shown' = shown \cup {v \in live' : Visible(v)' /\ store'[v].name = Source}
  PROVE  IInv'
<1>0. TypeOK /\ Control /\ Bucket
  BY DEF IInv, TypeOK, Bucket
<1>1. Answer("succeeded") /\ UNCHANGED <<request, hit, aborted>>
  BY DEF CopyFile, HideFile
<1>2. CASE CopyFile
  <2> DEFINE f == [store[hit] EXCEPT !.name = request.to, !.lock = "none", !.hold = "off"]
  <2>1. /\ pc = "copy" /\ hit \in live /\ Add(f)
        /\ did' = did \cup {<<"copy", hit>>}
    BY <1>2 DEF CopyFile
  <2>2. "copy" \in Asked /\ hit \in shown /\ request.to # 0
    BY <1>0, <2>1, AskedIs DEF Control
  <2>3. hit \in DOMAIN store /\ store[hit] \in Files /\ request.to \in 1 .. Names
    <3>1. hit \in DOMAIN store /\ request.to \in 0 .. Names
      BY <1>0, <2>1 DEF TypeOK, Requests
    <3> QED BY <1>0, <2>2, <3>1, FileVersionsAssumption DEF TypeOK
  <2>4. f \in Files
    BY <2>3 DEF Files
  <2> HIDE DEF f
  <2>5. Bucket' /\ Grows
    BY <1>0, <2>1, <2>4, AddKeeps
  <2>6. shown \subseteq shown' /\ shown' \subseteq DOMAIN store'
    BY <1>0, <2>5, ShownGrows DEF TypeOK
  <2>7. hit \in DOMAIN store'
    BY <2>3, <2>5 DEF Grows
  <2> QED BY <1>1, <2>1, <2>2, <2>5, <2>6, <2>7, EffectKeeps
<1>3. CASE HideFile
  <2>1. pc = "hide" /\ Add(Marker(Source)) /\ did' = did \cup {<<"hide", Len(store) + 1>>}
    BY <1>3 DEF HideFile
  <2>2. "hide" \in Asked
    BY <1>0, <2>1, AskedIs DEF Control
  <2>3. Marker(Source) \in Files
    BY MarkerIsFile, FileVersionsAssumption DEF Source
  <2>4. /\ Bucket' /\ Grows /\ Len(store) + 1 \in DOMAIN store'
        /\ store'[Len(store) + 1] = Marker(Source)
    BY <1>0, <2>1, <2>3, AddKeeps
  <2>5. shown \subseteq shown' /\ shown' \subseteq DOMAIN store'
    BY <1>0, <2>4, ShownGrows DEF TypeOK
  <2>6. store'[Len(store) + 1].name = Source /\ store'[Len(store) + 1].kind = "hide"
    BY <2>4 DEF Marker
  <2> QED BY <1>1, <2>1, <2>2, <2>4, <2>5, <2>6, EffectKeeps
<1> QED BY <1>2, <1>3

-----------------------------------------------------------------------------
LEMMA OthersKeep ==
  ASSUME IInv, Others \/ RequestFails \/ FileNotFound,
         shown' = shown \cup {v \in live' : Visible(v)' /\ store'[v].name = Source}
  PROVE  IInv'
<1>0. TypeOK /\ Bucket
  BY DEF IInv, TypeOK, Bucket
<1>1. /\ UNCHANGED <<request, hit, retries, did>> /\ (pc' = pc \/ pc' = "failed")
      /\ aborted' \in BOOLEAN
  BY <1>0 DEF Others, Abort, OtherUploads, OtherHides, OtherDeletes, RequestFails,
              FileNotFound, TypeOK
<1>2. Bucket' /\ Grows
  <2>1. CASE Abort \/ RequestFails \/ FileNotFound \/ OtherDeletes
    <3>1. UNCHANGED store /\ live' \subseteq live
      BY <2>1 DEF Abort, RequestFails, FileNotFound, OtherDeletes, bucket
    <3> QED BY <1>0, <3>1 DEF Bucket, Grows
  <2>2. CASE OtherUploads
    <3>1. PICK n \in 1 .. Names, s \in Shas :
            Add([name |-> n, kind |-> "upload", sha |-> s, lock |-> "none", hold |-> "off"])
      BY <2>2 DEF OtherUploads
    <3>2. [name |-> n, kind |-> "upload", sha |-> s, lock |-> "none", hold |-> "off"] \in Files
      BY DEF Files
    <3> QED BY <1>0, <3>1, <3>2, AddKeeps
  <2>3. CASE OtherHides
    <3>1. PICK v \in live : Add(Marker(store[v].name))
      BY <2>3 DEF OtherHides
    <3>2. store[v] \in Files
      BY <1>0 DEF Bucket
    <3>3. Marker(store[v].name) \in Files
      BY <3>2, MarkerIsFile DEF Files
    <3> QED BY <1>0, <3>1, <3>3, AddKeeps
  <2> QED BY <2>1, <2>2, <2>3 DEF Others
<1>3. shown \subseteq shown' /\ shown' \subseteq DOMAIN store'
  BY <1>0, <1>2, ShownGrows DEF TypeOK
<1> QED BY <1>1, <1>2, <1>3, QuietKeeps

LEMMA StepKeeps == IInv /\ [Next]_vars => IInv'
<1> SUFFICES ASSUME IInv, [Next]_vars PROVE IInv'
  OBVIOUS
<1>1. CASE Step
  <2>1. shown' = shown \cup {v \in live' : Visible(v)' /\ store'[v].name = Source}
    BY <1>1 DEF Step
  <2>2. CASE Start \/ FindFileByName \/ FindMarker \/ Head_ \/ Compare
    <3>1. UNCHANGED <<store, live>>
      BY <2>2 DEF Start, FindFileByName, FindMarker, Head_, Compare, bucket
    <3>2. Bucket' /\ Grows /\ shown \subseteq DOMAIN store
      BY <3>1 DEF IInv, TypeOK, Bucket, Grows
    <3>3. shown \subseteq shown' /\ shown' \subseteq DOMAIN store
      BY <2>1, <3>1, <3>2, ShownGrows
    <3> QED BY <2>1, <2>2, <3>3, StartKeeps, FindFileByNameKeeps, FindMarkerKeeps, HeadKeeps,
               CompareKeeps
  <2>3. CASE DeleteVersion \/ RemoveMarker \/ CopyFile \/ HideFile \/ UpdateRetention \/ UpdateLegalHold
    BY <2>1, <2>3, DeletionKeeps, LockingKeeps, AddingKeeps
  <2>4. CASE Others \/ RequestFails \/ FileNotFound
    BY <2>1, <2>4, OthersKeep
  <2> QED BY <1>1, <2>2, <2>3, <2>4 DEF Step, Command
<1>2. CASE UNCHANGED vars
  <2>1. Bucket' /\ Grows
    BY <1>2 DEF IInv, TypeOK, Bucket, Grows, vars, bucket
  <2>2. UNCHANGED <<pc, request, hit, retries, did, shown, aborted>>
    BY <1>2 DEF vars
  <2>3. aborted' \in BOOLEAN /\ shown' \subseteq DOMAIN store'
    BY <2>1, <2>2 DEF IInv, TypeOK, Grows
  <2> QED BY <2>1, <2>2, <2>3, QuietKeeps
<1> QED BY <1>1, <1>2 DEF Next, Terminated

(* The invariant holds in every reachable state. *)
THEOREM FileVersionsInvariance == Spec => []IInv
<1>1. Init => IInv
  <2> SUFFICES ASSUME Init PROVE IInv
    OBVIOUS
  <2>1. TypeOK
    <3>1. store \in Seq(Files) /\ 0 \in 0 .. MaxRetries
      BY FileVersionsAssumption DEF Init
    <3>2. live = DOMAIN store /\ shown \subseteq DOMAIN store
      BY DEF Init
    <3> QED BY <3>1, <3>2 DEF Init, TypeOK
  <2>2. Control /\ Done /\ ActsOnWhatWasNamed /\ DoesWhatWasAsked /\ VerifiedIsEqual
    BY DEF Init, Control, Done, ActsOnWhatWasNamed, DoesWhatWasAsked, VerifiedIsEqual
  <2> QED BY <2>1, <2>2 DEF IInv
<1> QED BY <1>1, StepKeeps, PTL DEF Spec

(* Every variable keeps its type; a repetition is never beyond the bound.  *)
THEOREM FileVersionsTypes == Spec => []TypeOK
<1>1. IInv => TypeOK
  BY DEF IInv
<1> QED BY <1>1, FileVersionsInvariance, PTL

(* Whoever writes between the lookup and the request, a command changes by *)
(* fileId only what its source named at some moment of the run.            *)
THEOREM ActsOnNamed == Spec => []ActsOnWhatWasNamed
<1>1. IInv => ActsOnWhatWasNamed
  BY DEF IInv
<1> QED BY <1>1, FileVersionsInvariance, PTL

(* A command does only what was asked and, if it succeeds, all of it, to   *)
(* one version, however often its requests are repeated.                   *)
THEOREM DoesAsAsked == Spec => []DoesWhatWasAsked
<1>1. IInv => DoesWhatWasAsked
  BY DEF IInv
<1> QED BY <1>1, FileVersionsInvariance, PTL

(* verify succeeds only for a digest that the name had during the run.     *)
THEOREM VerifiesOnlyEqual == Spec => []VerifiedIsEqual
<1>1. IInv => VerifiedIsEqual
  BY DEF IInv
<1> QED BY <1>1, FileVersionsInvariance, PTL
=============================================================================
