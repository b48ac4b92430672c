-------------------------- MODULE DispatcherProofs --------------------------
(* Proofs about run(): for any inputs, any error and any delay that an     *)
(* error carries, the advice on retrying and the outputs are sound; what   *)
(* an upload sends and what summary-json publishes are within their        *)
(* limits, whatever these are.                                             *)
EXTENDS Dispatcher, Outputs, WellFoundedInduction, TLAPS

Written == {"scalars", "json"} \subseteq published

(* What has been changed goes by the action and dry-run, and nothing is    *)
(* before the inputs are parsed.                                           *)
Effects ==
  /\ pc = "start" => changed = {}
  /\ "bucket" \in changed =>
       \/ action \in {"upload", "copy", "hide", "unhide", "retention"}
       \/ action \in HonorsDryRun /\ ~inputs.dryRun

(* Advice is put out on the way out, for the error that was thrown.        *)
Advice ==
  /\ retryable # "undefined" => pc \in {"finally", "done", "killed"} /\ failed
  /\ retryable = "true" => Retryable(error) = "true"
  /\ retryAfter # NoDelay => retryable = "true"

(* A run that fails has published nothing, or everything along with the    *)
(* errors it counted.                                                      *)
NothingOrErrors ==
  \/ result = "none" /\ published = {}
  \/ result = "errors" /\ Written

Outcome ==
  /\ pc \in {"start", "connect", "command", "working"} =>
       result = "none" /\ published = {} /\ ~failed
  /\ pc = "publish" => result \in {"clean", "errors"} /\ ~failed
  /\ pc = "publish" /\ "json" \in published => "scalars" \in published
  /\ pc = "catch" => ~failed
  /\ pc = "catch" /\ writable => NothingOrErrors
  /\ pc \in {"finally", "done"} /\ writable =>
       IF failed THEN NothingOrErrors ELSE result = "clean" /\ Written

IInv == TypeOK /\ Effects /\ Advice /\ Outcome

LEMMA PlainIsError == Plain \in Errors
BY DispatcherAssumption DEF Plain, Errors

(* The delay that is put out is within the limit, or none.                 *)
LEMMA DelayInRange ==
  ASSUME NEW e \in Errors \cup {NoError}
  PROVE  RetryAfter(e) \in 0 .. MaxRetryAfter \cup {NoDelay}
<1>1. e.after \in Nat
  <2>1. e \in Errors => e.after \in Afters
    BY DEF Errors
  <2>2. e = NoError => e.after = NoDelay
    BY DEF NoError
  <2> QED BY <2>1, <2>2, DispatcherAssumption
<1>2. NormalizeRetryAfter(e.after) \in 0 .. MaxRetryAfter \cup {NoDelay}
  <2> DEFINE s == (e.after + 9) \div 10
  <2>1. s \in Nat
    BY <1>1
  <2>2. MaxRetryAfter \in Nat
    BY DispatcherAssumption
  <2>3. NormalizeRetryAfter(e.after) =
          IF e.after = NoDelay THEN NoDelay ELSE IF s > MaxRetryAfter THEN MaxRetryAfter ELSE s
    BY DEF NormalizeRetryAfter
  <2> HIDE DEF s
  <2> QED BY <2>1, <2>2, <2>3
<1>3. NetworkDelay \in 0 .. MaxRetryAfter
  BY DispatcherAssumption
<1> QED BY <1>2, <1>3 DEF RetryAfter

LEMMA AdviceValues ==
  ASSUME NEW e PROVE Retryable(e) \in {"undefined", "true", "false"}
BY DEF Retryable

(* Advice to retry is given only for an action that changed no bucket.     *)
LEMMA RetryOnlyIfSafe ==
  ASSUME NEW e, Retryable(e) = "true", Effects
  PROVE  "bucket" \notin changed /\ ~HasSsrfCause(e)
<1>1. ~HasSsrfCause(e) /\ SafeToRetry
  BY DEF Retryable
<1> QED BY <1>1 DEF SafeToRetry, Effects, HonorsDryRun, Reads

-----------------------------------------------------------------------------
LEMMA InitHolds == Init => IInv
<1> SUFFICES ASSUME Init PROVE IInv
  OBVIOUS
<1>1. inputs.action \in Actions \cup {"unknown"}
  BY DEF Init, RawInputs
<1>2. TypeOK
  BY <1>1 DEF Init, TypeOK
<1>3. Effects /\ Advice /\ Outcome
  BY DEF Init, Effects, Advice, Outcome
<1> QED BY <1>2, <1>3 DEF IInv

LEMMA ParseInputsKeeps == IInv /\ ParseInputs => IInv'
<1> SUFFICES ASSUME IInv, ParseInputs PROVE IInv'
  OBVIOUS
<1>1. /\ pc = "start"
      /\ UNCHANGED <<inputs, changed, result, published, retryable, retryAfter, failed,
                     writable, handlers, aborted>>
      /\ \/ pc' = "connect" /\ action' = inputs.action /\ UNCHANGED error
         \/ pc' = "catch" /\ error' = Plain /\ UNCHANGED action
  BY DEF ParseInputs, Throw, advice, signals
<1>2. inputs.action \in Actions \cup {"unknown"}
  BY DEF IInv, TypeOK, RawInputs
<1>3. TypeOK'
  BY <1>1, <1>2, PlainIsError DEF IInv, TypeOK
<1>4. Effects' /\ Outcome'
  BY <1>1 DEF IInv, Effects, Outcome, NothingOrErrors
<1>5. Advice'
  BY <1>1 DEF IInv, Advice
<1> QED BY <1>3, <1>4, <1>5 DEF IInv

(* A step that throws before there is a result, or goes on to another such *)
(* step, and changes nothing else.                                         *)
LEMMA EarlyStepKeeps ==
  ASSUME IInv, pc \in {"connect", "command", "working"},
         UNCHANGED <<inputs, action, changed, result, published, retryable, retryAfter,
                     failed, writable, handlers, aborted>>,
         \/ pc' \in {"command", "working"} /\ UNCHANGED error
         \/ pc' = "catch" /\ error' \in Errors
  PROVE  IInv'
<1>1. TypeOK'
  BY DEF IInv, TypeOK
<1>2. Effects' /\ Outcome'
  BY DEF IInv, Effects, Outcome, NothingOrErrors
<1>3. Advice'
  BY DEF IInv, Advice
<1> QED BY <1>1, <1>2, <1>3 DEF IInv

LEMMA EarlyStepsKeep == IInv /\ (Connect \/ PrepareCommand \/ CommandThrows) => IInv'
<1> SUFFICES ASSUME IInv, Connect \/ PrepareCommand \/ CommandThrows PROVE IInv'
  OBVIOUS
<1>1. CASE Connect
  BY <1>1, EarlyStepKeeps DEF Connect, Throw, advice, signals
<1>2. CASE PrepareCommand
  BY <1>2, EarlyStepKeeps, PlainIsError DEF PrepareCommand, Throw, advice, signals
<1>3. CASE CommandThrows
  BY <1>3, EarlyStepKeeps DEF CommandThrows, Throw, advice, signals
<1> QED BY <1>1, <1>2, <1>3

LEMMA CommandChangesKeeps == IInv /\ CommandChanges => IInv'
<1> SUFFICES ASSUME IInv, NEW c \in MayChange, pc = "working", changed' = changed \cup {c},
                    UNCHANGED <<pc, inputs, action, error, result, published, advice,
                                writable, signals>>
             PROVE  IInv'
  BY DEF CommandChanges
<1>1. UNCHANGED <<pc, inputs, action, error, result, published, retryable, retryAfter,
                  failed, writable, handlers, aborted>>
  BY DEF advice, signals
<1>2. c \in {"bucket", "local"}
  BY DEF MayChange
<1>3. c = "bucket" => \/ action \in {"upload", "copy", "hide", "unhide", "retention"}
                      \/ action \in HonorsDryRun /\ ~inputs.dryRun
  BY DEF MayChange, HonorsDryRun
<1>4. TypeOK'
  BY <1>1, <1>2 DEF IInv, TypeOK
<1>5. Effects' /\ Outcome'
  BY <1>1, <1>3 DEF IInv, Effects, Outcome, NothingOrErrors, Written
<1>6. Advice'
  BY <1>1 DEF IInv, Advice
<1> QED BY <1>4, <1>5, <1>6 DEF IInv

LEMMA CommandReturnsKeeps == IInv /\ CommandReturns => IInv'
<1> SUFFICES ASSUME IInv, CommandReturns PROVE IInv'
  OBVIOUS
<1>1. /\ pc = "working" /\ pc' = "publish" /\ result' \in {"clean", "errors"}
      /\ UNCHANGED <<inputs, action, changed, error, published, retryable, retryAfter,
                     failed, writable, handlers, aborted>>
  BY DEF CommandReturns, advice, signals
<1>2. TypeOK'
  BY <1>1 DEF IInv, TypeOK
<1>3. Effects' /\ Outcome'
  BY <1>1 DEF IInv, Effects, Outcome
<1>4. Advice'
  BY <1>1 DEF IInv, Advice
<1> QED BY <1>2, <1>3, <1>4 DEF IInv

LEMMA PublishKeeps == IInv /\ Publish => IInv'
<1> SUFFICES ASSUME IInv, Publish PROVE IInv'
  OBVIOUS
<1>1. /\ pc = "publish" /\ NextOutput # "all" /\ ~ThrowsForErrors
      /\ UNCHANGED <<inputs, action, changed, result, retryable, retryAfter, failed,
                     writable, handlers, aborted>>
      /\ \/ published' = published \cup {NextOutput} /\ UNCHANGED <<pc, error>>
         \/ ~writable /\ pc' = "catch" /\ error' = Plain /\ UNCHANGED published
  BY DEF Publish, Throw, advice, signals
<1>2. /\ NextOutput \in {"scalars", "step", "json", "all"}
      /\ NextOutput = "json" => "scalars" \in published
  BY DEF NextOutput
<1>3. TypeOK'
  BY <1>1, <1>2, PlainIsError DEF IInv, TypeOK
<1>4. Effects' /\ Outcome'
  BY <1>1, <1>2 DEF IInv, Effects, Outcome
<1>5. Advice'
  BY <1>1 DEF IInv, Advice
<1> QED BY <1>3, <1>4, <1>5 DEF IInv

LEMMA PublishedKeeps == IInv /\ Published => IInv'
<1> SUFFICES ASSUME IInv, Published PROVE IInv'
  OBVIOUS
<1>1. /\ pc = "publish"
      /\ UNCHANGED <<inputs, action, changed, result, published, retryable, retryAfter,
                     failed, writable, handlers, aborted>>
      /\ \/ ThrowsForErrors /\ pc' = "catch" /\ error' = Plain
         \/ ~ThrowsForErrors /\ NextOutput = "all" /\ pc' = "finally" /\ UNCHANGED error
  BY DEF Published, Throw, advice, signals
<1>2. NextOutput = "all" => Written /\ "step" \in published
  BY DEF NextOutput, Written
<1>3. ThrowsForErrors => result = "errors" /\ Written
  BY <1>1 DEF IInv, Outcome, ThrowsForErrors, Written
<1>4. ~ThrowsForErrors /\ NextOutput = "all" => result = "clean"
  BY <1>1, <1>2 DEF IInv, Outcome, ThrowsForErrors, Written
<1>5. TypeOK'
  BY <1>1, PlainIsError DEF IInv, TypeOK
<1>6. Effects' /\ Outcome'
  BY <1>1, <1>2, <1>3, <1>4 DEF IInv, Effects, Outcome, NothingOrErrors, Written
<1>7. Advice'
  BY <1>1 DEF IInv, Advice
<1> QED BY <1>5, <1>6, <1>7 DEF IInv

LEMMA CatchKeeps == IInv /\ Catch => IInv'
<1> SUFFICES ASSUME IInv, Catch PROVE IInv'
  OBVIOUS
<1>1. /\ pc = "catch" /\ pc' = "finally" /\ failed' = TRUE
      /\ UNCHANGED <<inputs, action, changed, error, result, published, writable, handlers,
                     aborted>>
      /\ \/ retryable' = Retryable(error) /\ retryAfter' = RetryAfter(error)
         \/ UNCHANGED <<retryable, retryAfter>>
  BY DEF Catch, signals
<1>2. Retryable(error)' = Retryable(error)
  BY <1>1 DEF Retryable, HasSsrfCause, SafeToRetry
<1>3. retryable' \in {"undefined", "true", "false"} /\ retryAfter' \in 0 .. MaxRetryAfter \cup {NoDelay}
  BY <1>1, AdviceValues, DelayInRange DEF IInv, TypeOK
<1>4. TypeOK'
  BY <1>1, <1>3 DEF IInv, TypeOK
<1>5. Effects' /\ Outcome'
  BY <1>1 DEF IInv, Effects, Outcome, NothingOrErrors, Written
<1>6. retryable = "undefined" /\ retryAfter = NoDelay
  BY <1>1 DEF IInv, Advice
<1>7. RetryAfter(error) # NoDelay => Retryable(error) = "true"
  BY DEF RetryAfter
<1>8. Advice'
  BY <1>1, <1>2, <1>6, <1>7 DEF Advice
<1> QED BY <1>4, <1>5, <1>8 DEF IInv

(* The handlers are taken away, or a signal comes.                         *)
LEMMA SignalsKeep ==
  ASSUME IInv,
         \/ pc = "finally" /\ pc' = "done"
         \/ pc' = "killed" \/ UNCHANGED pc,
         handlers' \subseteq handlers, aborted' \in BOOLEAN,
         UNCHANGED <<inputs, action, changed, error, result, published, retryable,
                     retryAfter, failed, writable>>
  PROVE  IInv'
<1>1. TypeOK'
  BY DEF IInv, TypeOK
<1>2. Effects' /\ Outcome'
  BY DEF IInv, Effects, Outcome, NothingOrErrors, Written
<1>3. Retryable(error)' = Retryable(error)
  BY DEF Retryable, HasSsrfCause, SafeToRetry
<1>4. Advice'
  BY <1>3 DEF IInv, Advice
<1> QED BY <1>1, <1>2, <1>4 DEF IInv

LEMMA StepKeeps == IInv /\ [Next]_vars => IInv'
<1> SUFFICES ASSUME IInv, [Next]_vars PROVE IInv'
  OBVIOUS
<1>1. CASE Run
  <2>1. CASE Finally
    BY <2>1, SignalsKeep DEF Finally, advice, IInv, TypeOK
  <2> QED BY <1>1, <2>1, ParseInputsKeeps, EarlyStepsKeep, CommandChangesKeeps,
             CommandReturnsKeeps, PublishKeeps, PublishedKeeps, CatchKeeps DEF Run
<1>2. ASSUME NEW k \in {"SIGTERM", "SIGINT"}, Signal(k) PROVE IInv'
  <2>1. /\ pc' = "killed" \/ UNCHANGED pc
        /\ handlers' \subseteq handlers /\ aborted' \in BOOLEAN
        /\ UNCHANGED <<inputs, action, changed, error, result, published, retryable,
                       retryAfter, failed, writable>>
    BY <1>2 DEF Signal, advice, signals, IInv, TypeOK
  <2> QED BY <2>1, SignalsKeep
<1>3. CASE UNCHANGED vars
  BY <1>3, SignalsKeep DEF vars, advice, signals, IInv, TypeOK
<1> QED BY <1>1, <1>2, <1>3 DEF Next, Terminated

(* The invariant holds in every reachable state. *)
THEOREM DispatcherInvariance == Spec => []IInv
BY InitHolds, StepKeeps, PTL DEF Spec

(* Every variable of run() has its type, the delay that is put out among   *)
(* them: it is never above the limit.                                      *)
THEOREM DispatcherTypes == Spec => []TypeOK
<1>1. IInv => TypeOK
  BY DEF IInv
<1> QED BY <1>1, DispatcherInvariance, PTL

(* "retryable: true" and a retry-after are put out only for a run that     *)
(* failed without having changed the bucket.                               *)
THEOREM AdviceIsSound == Spec => []RetryAdviceIsSound
<1>1. IInv => RetryAdviceIsSound
  BY RetryOnlyIfSafe DEF IInv, Advice, RetryAdviceIsSound
<1> QED BY <1>1, DispatcherInvariance, PTL

(* A run that ends has published its result exactly if there was one, and  *)
(* succeeds exactly if that counts no error.                               *)
THEOREM OutcomeReported == Spec => []OutcomeIsPublished
<1>1. IInv => OutcomeIsPublished
  <2> SUFFICES ASSUME IInv, pc = "done", writable
               PROVE  /\ result # "none" <=> Written
                      /\ result = "none" => published = {}
                      /\ result = "clean" <=> ~failed
    BY DEF OutcomeIsPublished, Written
  <2>1. IF failed THEN NothingOrErrors ELSE result = "clean" /\ Written
    BY DEF IInv, Outcome
  <2> QED BY <2>1 DEF NothingOrErrors, Written
<1> QED BY <1>1, DispatcherInvariance, PTL

-----------------------------------------------------------------------------
(* Sums.  The limits on fileInfo are about totals that are added up entry  *)
(* by entry.  The provers have no induction rule to cite for that, but the *)
(* order of the natural numbers is well-founded, and that is enough for    *)
(* induction over a set of numbers.                                        *)

(* A set of natural numbers that has any has a least one.                  *)
LEMMA LeastNumber ==
  ASSUME NEW T \in SUBSET Nat, T # {}
  PROVE  \E x \in T : \A y \in T : x <= y
<1> DEFINE R == {ss \in Nat \X Nat : ss[1] < ss[2]}
<1>1. R = OpToRel(<, Nat)
  BY Zenon DEF OpToRel
<1>2. IsWellFoundedOn(R, Nat)
  BY <1>1, NatLessThanWellFounded, Zenon
<1>3. PICK x \in T : \A y \in T : ~(<<y, x>> \in R)
  <2> HIDE DEF R
  <2> QED BY <1>2, WFMin
<1>4. ASSUME NEW y \in T PROVE x <= y
  <2>1. <<y, x>> \in Nat \X Nat
    OBVIOUS
  <2>2. ~(y < x)
    BY <1>3, <2>1
  <2> QED BY <2>2
<1> QED BY <1>4

(* A set that has 0, and with each number below N the next, has all to N.  *)
LEMMA UpTo ==
  ASSUME NEW N \in Nat, NEW S, 0 \in S, \A n \in 0 .. N - 1 : n \in S => n + 1 \in S
  PROVE  0 .. N \subseteq S
<1> DEFINE T == (0 .. N) \ S
<1> SUFFICES ASSUME T # {} PROVE FALSE
  OBVIOUS
<1>1. T \in SUBSET Nat
  OBVIOUS
<1>2. PICK x \in T : \A y \in T : x <= y
  <2> HIDE DEF T
  <2> QED BY <1>1, LeastNumber
<1>3. x # 0 /\ x - 1 \in 0 .. N - 1
  BY <1>2
<1>4. x - 1 \in S
  BY <1>2, <1>3
<1> QED BY <1>2, <1>3, <1>4

(* f has the totals of the first n elements of a.                          *)
Sums(f, a, n) ==
  f \in [0 .. n -> Nat] /\ f[0] = 0 /\ \A i \in 1 .. n : f[i] = f[i - 1] + a[i]

(* There are totals, whatever is added up: those of one more element       *)
(* extend those there are.                                                 *)
LEMMA SumsExist ==
  ASSUME NEW N \in Nat, NEW a, \A i \in 1 .. N : a[i] \in Nat
  PROVE  \E f : Sums(f, a, N)
<1> DEFINE S == {n \in 0 .. N : \E f : Sums(f, a, n)}
<1>1. 0 \in S
  <2>1. Sums([i \in 0 .. 0 |-> 0], a, 0)
    BY DEF Sums
  <2> QED BY <2>1
<1>2. ASSUME NEW n \in 0 .. N - 1, n \in S PROVE n + 1 \in S
  <2>1. PICK f : Sums(f, a, n)
    BY <1>2
  <2> DEFINE g == [i \in 0 .. n + 1 |-> IF i = n + 1 THEN f[n] + a[n + 1] ELSE f[i]]
  <2>2. g \in [0 .. n + 1 -> Nat]
    BY <2>1 DEF Sums
  <2>3. g[0] = 0
    BY <2>1 DEF Sums
  <2>4. ASSUME NEW i \in 1 .. n + 1 PROVE g[i] = g[i - 1] + a[i]
    <3>1. CASE i = n + 1
      BY <2>1, <3>1 DEF Sums
    <3>2. CASE i \in 1 .. n
      BY <2>1, <3>2 DEF Sums
    <3> QED BY <3>1, <3>2
  <2>5. Sums(g, a, n + 1)
    <3> HIDE DEF g
    <3> QED BY <2>2, <2>3, <2>4 DEF Sums
  <2> QED BY <2>5
<1>3. 0 .. N \subseteq S
  <2> HIDE DEF S
  <2> QED BY <1>1, <1>2, UpTo
<1> QED BY <1>3

(* A function that adds up has the totals.                                 *)
LEMMA AddsUp ==
  ASSUME NEW N \in Nat, NEW a, \A i \in 1 .. N : a[i] \in Nat,
         NEW t, t = [i \in 0 .. N |-> IF i = 0 THEN 0 ELSE t[i - 1] + a[i]]
  PROVE  Sums(t, a, N)
<1>1. t[0] = 0
  OBVIOUS
<1>2. ASSUME NEW i \in 1 .. N PROVE t[i] = t[i - 1] + a[i]
  <2>1. i \in 0 .. N /\ i # 0
    OBVIOUS
  <2> QED BY <2>1
<1> DEFINE S == {n \in 0 .. N : t[n] \in Nat}
<1>3. 0 \in S
  BY <1>1
<1>4. ASSUME NEW n \in 0 .. N - 1, n \in S PROVE n + 1 \in S
  <2>1. n + 1 \in 1 .. N /\ (n + 1) - 1 = n
    OBVIOUS
  <2>2. t[n + 1] = t[n] + a[n + 1]
    BY <1>2, <2>1
  <2> QED BY <1>4, <2>1, <2>2
<1>5. 0 .. N \subseteq S
  <2> HIDE DEF S
  <2> QED BY <1>3, <1>4, UpTo
<1>6. t \in [0 .. N -> Nat]
  BY <1>5
<1> QED BY <1>1, <1>2, <1>6 DEF Sums

(* totalBytes, as parseInputs and prepareUploadPlan add it up.             *)
LEMMA TotalBytesAddUp ==
  ASSUME NEW info \in Seq(Entries)
  PROVE  /\ TotalBytes(info)[0] = 0
         /\ \A i \in 1 .. Len(info) :
              /\ TotalBytes(info)[i] = TotalBytes(info)[i - 1] + Bytes(info[i])
              /\ TotalBytes(info)[i - 1] \in Nat /\ Bytes(info[i]) \in Nat
<1> DEFINE a == [i \in 1 .. Len(info) |-> Bytes(info[i])]
           Step(f) == [i \in 0 .. Len(info) |-> IF i = 0 THEN 0 ELSE f[i - 1] + Bytes(info[i])]
<1>1. ASSUME NEW i \in 1 .. Len(info) PROVE a[i] = Bytes(info[i]) /\ a[i] \in Nat
  <2>1. info[i] \in Entries
    OBVIOUS
  <2>2. info[i].key \in Keys /\ info[i].value \in Nat
    BY <2>1 DEF Entries
  <2> QED BY <2>2, InputsAssumption DEF Bytes
<1>2. Len(info) \in Nat
  OBVIOUS
<1> HIDE DEF a
<1>3. PICK g : Sums(g, a, Len(info))
  BY <1>1, <1>2, SumsExist
<1>4. g = Step(g)
  BY <1>1, <1>3 DEF Sums
<1>5. TotalBytes(info) = CHOOSE f : f = Step(f)
  BY DEF TotalBytes
<1>6. TotalBytes(info) = Step(TotalBytes(info))
  <2> HIDE DEF Step
  <2> QED BY <1>4, <1>5
<1> HIDE DEF TotalBytes
<1>7. TotalBytes(info) = [i \in 0 .. Len(info) |->
                            IF i = 0 THEN 0 ELSE TotalBytes(info)[i - 1] + a[i]]
  BY <1>1, <1>6
<1>8. Sums(TotalBytes(info), a, Len(info))
  <2> HIDE DEF Step
  <2> QED BY <1>1, <1>2, <1>7, AddsUp
<1>9. TotalBytes(info)[0] = 0
  BY <1>8 DEF Sums
<1>10. ASSUME NEW i \in 1 .. Len(info)
       PROVE  /\ TotalBytes(info)[i] = TotalBytes(info)[i - 1] + Bytes(info[i])
              /\ TotalBytes(info)[i - 1] \in Nat /\ Bytes(info[i]) \in Nat
  <2>1. i - 1 \in 0 .. Len(info)
    BY <1>2
  <2>2. TotalBytes(info)[i - 1] \in Nat
    BY <1>8, <2>1 DEF Sums
  <2>3. TotalBytes(info)[i] = TotalBytes(info)[i - 1] + a[i]
    BY <1>8 DEF Sums
  <2> QED BY <1>1, <2>2, <2>3
<1> QED BY <1>9, <1>10

(* What validateFileInfo accepts is within the limit as a whole: the last  *)
(* entry fits into what those before it have left.                         *)
LEMMA ValidTotal ==
  ASSUME NEW info \in Seq(Entries), NEW max \in Nat, FileInfoValid(info, max)
  PROVE  TotalBytes(info)[Len(info)] <= max
<1> DEFINE n == Len(info)
<1>1. n \in Nat
  OBVIOUS
<1>2. CASE n = 0
  <2>1. TotalBytes(info)[0] = 0
    BY TotalBytesAddUp
  <2> QED BY <1>2, <2>1
<1>3. CASE n # 0
  <2>1. n \in DOMAIN info /\ n \in 1 .. n
    BY <1>1, <1>3
  <2>2. Bytes(info[n]) <= max - TotalBytes(info)[n - 1]
    BY <2>1 DEF FileInfoValid
  <2>3. /\ TotalBytes(info)[n] = TotalBytes(info)[n - 1] + Bytes(info[n])
        /\ TotalBytes(info)[n - 1] \in Nat /\ Bytes(info[n]) \in Nat
    BY <2>1, TotalBytesAddUp
  <2> QED BY <2>2, <2>3
<1> QED BY <1>2, <1>3

LEMMA UploadFileInfoType == TypeOK => UploadFileInfo(inputs) \in Seq(Entries)
<1> SUFFICES ASSUME TypeOK PROVE UploadFileInfo(inputs) \in Seq(Entries)
  OBVIOUS
<1>1. inputs.fileInfo \in Seq(Entries)
  BY InputsAssumption DEF TypeOK, RawInputs
<1>2. [key |-> MtimeKey, from |-> "mtime", value |-> MtimeBytes] \in Entries
  BY InputsAssumption DEF Entries
<1> QED BY <1>1, <1>2 DEF UploadFileInfo

(* Whoever works has planned: prepareUploadPlan has let the fileInfo pass. *)
Planned == pc = "working" => PlanValid

LEMMA PlannedInvariance == Spec => []Planned
<1>1. Init => Planned
  BY DEF Init, Planned
<1>2. Planned /\ [Next]_vars => Planned'
  <2> SUFFICES ASSUME Planned, [Next]_vars, pc' = "working" PROVE PlanValid'
    BY DEF Planned
  <2>1. (action' = action /\ inputs' = inputs) => (PlanValid' <=> PlanValid)
    BY DEF PlanValid
  <2>2. CASE PrepareCommand
    BY <2>1, <2>2 DEF PrepareCommand, Throw
  <2>3. CASE CommandChanges
    BY <2>1, <2>3 DEF CommandChanges, Planned
  <2>4. ASSUME NEW k \in {"SIGTERM", "SIGINT"}, Signal(k) PROVE PlanValid'
    BY <2>1, <2>4 DEF Signal, Planned
  <2>5. CASE UNCHANGED vars
    BY <2>1, <2>5 DEF vars, Planned
  <2>6. ~(ParseInputs \/ Connect \/ CommandReturns \/ CommandThrows \/ Publish \/ Published
          \/ Catch \/ Finally)
    BY DEF ParseInputs, Connect, CommandReturns, CommandThrows, Publish, Published, Catch,
           Finally, Throw
  <2> QED BY <2>2, <2>3, <2>4, <2>5, <2>6 DEF Next, Run, Terminated
<1> QED BY <1>1, <1>2, PTL DEF Spec

(* Whatever entries a workflow gives and whatever the limits are, the      *)
(* fileInfo of a request is within them, in number and in the sum of the   *)
(* bytes, with the modification time that was added after the inputs were  *)
(* checked.                                                                *)
THEOREM SentInfoFits == Spec => []SentFileInfoFits
<1>1. TypeOK /\ Planned => SentFileInfoFits
  <2> DEFINE info == UploadFileInfo(inputs)
             max == Budget(inputs.encrypted)
  <2> SUFFICES ASSUME TypeOK, Planned, action = "upload", pc = "working"
               PROVE  /\ Len(info) <= MaxEntries /\ DistinctKeys(info)
                      /\ TotalBytes(info)[Len(info)] <= max
    BY DEF SentFileInfoFits
  <2>1. FileInfoValid(info, max)
    BY DEF Planned, PlanValid
  <2>2. info \in Seq(Entries) /\ max \in Nat
    BY UploadFileInfoType, InputsAssumption DEF Budget
  <2>3. Len(info) <= MaxEntries /\ DistinctKeys(info)
    BY <2>1 DEF FileInfoValid
  <2> HIDE DEF info, max
  <2> QED BY <2>1, <2>2, <2>3, ValidTotal
<1> QED BY <1>1, DispatcherTypes, PlannedInvariance, PTL

-----------------------------------------------------------------------------
(* The manifest that "json" publishes.  Its serialization (src/outputs.ts) *)
(* is the machine of Outputs, on variables that run() does not see, with a *)
(* manifest of any length and any cap.                                     *)

(* JsonLength, of any sequence.                                            *)
LengthOf(s, n) ==
  LET sum[i \in 0 .. n] == IF i = 0 THEN 0 ELSE sum[i - 1] + s[i]
  IN  2 + sum[n] + (IF n = 0 THEN 0 ELSE n - 1)

Fit(n) == (\A i \in 1 .. n : items[i] # 0) /\ LengthOf(items, n) <= Cap

LEMMA JsonLengthOf == \A n : JsonLength(n) = LengthOf(items, n)
BY DEF JsonLength, LengthOf

LEMMA WritableFit == \A n : Writable(n) <=> Fit(n)
BY JsonLengthOf DEF Writable, Throws, Fit

(* The length of an array is that of its totals, whichever.                *)
LEMMA LengthIsSum ==
  ASSUME NEW s \in Seq(Nat), NEW n \in 0 .. Len(s)
  PROVE  \E t : Sums(t, s, n) /\ LengthOf(s, n) = 2 + t[n] + (IF n = 0 THEN 0 ELSE n - 1)
<1> DEFINE Step(f) == [i \in 0 .. n |-> IF i = 0 THEN 0 ELSE f[i - 1] + s[i]]
           t == CHOOSE f : f = Step(f)
<1>1. n \in Nat /\ \A i \in 1 .. n : s[i] \in Nat
  OBVIOUS
<1>2. PICK g : Sums(g, s, n)
  BY <1>1, SumsExist
<1>3. g = Step(g)
  BY <1>2 DEF Sums
<1>4. t = Step(t)
  <2> HIDE DEF Step
  <2> QED BY <1>3
<1>5. LengthOf(s, n) = 2 + t[n] + (IF n = 0 THEN 0 ELSE n - 1)
  BY DEF LengthOf
<1> HIDE DEF t
<1>6. t = [i \in 0 .. n |-> IF i = 0 THEN 0 ELSE t[i - 1] + s[i]]
  BY <1>4
<1>7. Sums(t, s, n)
  <2> HIDE DEF Step
  <2> QED BY <1>1, <1>6, AddsUp
<1> QED BY <1>5, <1>7

(* Totals of the same elements agree as far as both go.                    *)
LEMMA SumsAgree ==
  ASSUME NEW N \in Nat, NEW M \in Nat, N <= M, NEW a, NEW f, NEW g,
         Sums(f, a, N), Sums(g, a, M)
  PROVE  f[N] = g[N]
<1> DEFINE S == {n \in 0 .. N : f[n] = g[n]}
<1>1. 0 \in S
  BY DEF Sums
<1>2. ASSUME NEW n \in 0 .. N - 1, n \in S PROVE n + 1 \in S
  <2>1. n + 1 \in 1 .. N /\ n + 1 \in 1 .. M
    BY <1>2
  <2>2. f[n + 1] = f[n] + a[n + 1] /\ g[n + 1] = g[n] + a[n + 1]
    BY <2>1 DEF Sums
  <2> QED BY <1>2, <2>2
<1>3. 0 .. N \subseteq S
  <2> HIDE DEF S
  <2> QED BY <1>1, <1>2, UpTo
<1> QED BY <1>3

(* One more item adds its own length, and a comma if it is not the first.  *)
LEMMA LengthGrows ==
  ASSUME NEW s \in Seq(Nat)
  PROVE  /\ LengthOf(s, 0) = 2
         /\ \A n \in 0 .. Len(s) : LengthOf(s, n) \in Nat
         /\ \A n \in 0 .. Len(s) - 1 :
              LengthOf(s, n + 1) = LengthOf(s, n) + (IF n = 0 THEN 0 ELSE 1) + s[n + 1]
<1>1. LengthOf(s, 0) = 2
  <2>1. 0 \in 0 .. Len(s)
    OBVIOUS
  <2>2. PICK t : Sums(t, s, 0) /\ LengthOf(s, 0) = 2 + t[0] + 0
    BY <2>1, LengthIsSum
  <2> QED BY <2>2 DEF Sums
<1>2. ASSUME NEW n \in 0 .. Len(s) PROVE LengthOf(s, n) \in Nat
  <2>1. PICK t : Sums(t, s, n) /\ LengthOf(s, n) = 2 + t[n] + (IF n = 0 THEN 0 ELSE n - 1)
    BY LengthIsSum
  <2>2. t[n] \in Nat
    BY <2>1 DEF Sums
  <2> QED BY <2>1, <2>2
<1>3. ASSUME NEW n \in 0 .. Len(s) - 1
      PROVE  LengthOf(s, n + 1) = LengthOf(s, n) + (IF n = 0 THEN 0 ELSE 1) + s[n + 1]
  <2>1. n \in 0 .. Len(s) /\ n + 1 \in 0 .. Len(s) /\ n + 1 # 0 /\ n \in Nat /\ n + 1 \in Nat
    OBVIOUS
  <2>2. PICK t : Sums(t, s, n) /\ LengthOf(s, n) = 2 + t[n] + (IF n = 0 THEN 0 ELSE n - 1)
    BY <2>1, LengthIsSum
  <2>3. PICK u : /\ Sums(u, s, n + 1)
                 /\ LengthOf(s, n + 1) = 2 + u[n + 1] + (IF n + 1 = 0 THEN 0 ELSE (n + 1) - 1)
    BY <2>1, LengthIsSum
  <2>4. t[n] = u[n]
    BY <2>1, <2>2, <2>3, SumsAgree
  <2>5. u[n + 1] = u[n] + s[n + 1] /\ u[n] \in Nat /\ s[n + 1] \in Nat
    BY <2>1, <2>3 DEF Sums
  <2>6. LengthOf(s, n + 1) = 2 + (t[n] + s[n + 1]) + n
    BY <2>1, <2>3, <2>4, <2>5
  <2>7. LengthOf(s, n) + (IF n = 0 THEN 0 ELSE 1) = 2 + t[n] + n
    BY <2>1, <2>2, <2>4, <2>5
  <2>8. LengthOf(s, n) \in Nat
    BY <2>1, <1>2
  <2> HIDE DEF LengthOf
  <2> QED BY <2>1, <2>4, <2>5, <2>6, <2>7, <2>8
<1> QED BY <1>1, <1>2, <1>3

(* A longer array of the same items is not shorter, so that what does not  *)
(* fit with some items does not fit with more.                             *)
LEMMA FitShrinks ==
  ASSUME items \in Seq(Nat), Cap \in Nat,
         NEW n \in 0 .. Len(items), NEW m \in 0 .. n, Fit(n)
  PROVE  Fit(m)
<1> DEFINE S == {k \in 0 .. n - m : LengthOf(items, m) <= LengthOf(items, m + k)}
<1>1. n - m \in Nat /\ m \in Nat /\ n \in Nat /\ Len(items) \in Nat
  OBVIOUS
<1>2. 0 \in S
  <2>1. LengthOf(items, m) \in Nat
    BY <1>1, LengthGrows
  <2> QED BY <1>1, <2>1
<1>3. ASSUME NEW k \in 0 .. n - m - 1, k \in S PROVE k + 1 \in S
  <2>1. m + k \in 0 .. Len(items) - 1 /\ m + k \in 0 .. Len(items) /\ m + (k + 1) = (m + k) + 1
        /\ m \in 0 .. Len(items) /\ (m + k) + 1 \in 1 .. Len(items)
    BY <1>1
  <2>2. LengthOf(items, (m + k) + 1) =
          LengthOf(items, m + k) + (IF m + k = 0 THEN 0 ELSE 1) + items[(m + k) + 1]
    BY <2>1, LengthGrows
  <2>3. LengthOf(items, m) \in Nat /\ LengthOf(items, m + k) \in Nat
    BY <2>1, LengthGrows
  <2>4. items[(m + k) + 1] \in Nat
    BY <2>1
  <2>5. LengthOf(items, m) <= LengthOf(items, m + k)
    BY <1>3
  <2>6. LengthOf(items, m) <= LengthOf(items, m + (k + 1))
    BY <2>1, <2>2, <2>3, <2>4, <2>5
  <2> QED BY <1>1, <2>6
<1>4. 0 .. n - m \subseteq S
  <2> HIDE DEF S
  <2> QED BY <1>1, <1>2, <1>3, UpTo
<1>5. n - m \in S /\ m + (n - m) = n
  BY <1>1, <1>4
<1>6. LengthOf(items, m) <= LengthOf(items, n)
  BY <1>5
<1>7. LengthOf(items, m) \in Nat /\ LengthOf(items, n) \in Nat
  BY <1>1, LengthGrows
<1>8. LengthOf(items, m) <= Cap
  BY <1>6, <1>7 DEF Fit
<1> QED BY <1>1, <1>8 DEF Fit

-----------------------------------------------------------------------------
(* No longer beginning than n fits into the preview.                       *)
Longest(n) ==
  /\ Fit(n) /\ n <= PreviewMax
  /\ n = Len(items) \/ n = PreviewMax \/ ~Fit(n + 1)

Emitting ==
  /\ step \in {"full", "preview", "publish", "done"}
  /\ items \in Seq(Nat)
  /\ index \in 0 .. Len(items) /\ bytes \in Nat
  /\ reason \in {"none", "cap", "throws"} /\ preview \in 0 .. Len(items)

(* What is being built fits, and bytes is its length.                      *)
Built ==
  /\ step \in {"full", "preview"} => Fit(index) /\ bytes = LengthOf(items, index)
  /\ step = "preview" => index <= PreviewMax

(* A reason to give the full array up is that it does not fit.             *)
Given ==
  /\ step = "full" => reason = "none"
  /\ step = "preview" => reason # "none"
  /\ reason # "none" => ~Fit(Len(items))
  /\ step \in {"publish", "done"} /\ reason = "none" => Fit(Len(items))
  /\ step \in {"publish", "done"} /\ reason # "none" => Longest(preview)

Put ==
  /\ step # "done" => outputs = Unset
  /\ step = "done" =>
       outputs = IF reason = "none" THEN [Unset EXCEPT !.json = Len(items)]
                 ELSE [json |-> 0, truncated |-> TRUE, preview |-> preview, notice |-> TRUE]

SummaryInv == Emitting /\ Built /\ Given /\ Put

(* The empty array always fits, and one more item fits exactly if it can   *)
(* be serialized and its length does not go over the cap.                  *)
LEMMA FitNext ==
  ASSUME items \in Seq(Nat)
  PROVE  /\ Fit(0)
         /\ \A n \in 0 .. Len(items) - 1 :
              Fit(n) => (Fit(n + 1) <=>
                 /\ items[n + 1] # 0
                 /\ LengthOf(items, n) + (IF n = 0 THEN 0 ELSE 1) + items[n + 1] <= Cap)
<1>1. Fit(0)
  BY LengthGrows, OutputsAssumption DEF Fit
<1>2. ASSUME NEW n \in 0 .. Len(items) - 1, Fit(n)
      PROVE  Fit(n + 1) <=>
               /\ items[n + 1] # 0
               /\ LengthOf(items, n) + (IF n = 0 THEN 0 ELSE 1) + items[n + 1] <= Cap
  <2>1. LengthOf(items, n + 1) = LengthOf(items, n) + (IF n = 0 THEN 0 ELSE 1) + items[n + 1]
    BY LengthGrows
  <2>2. (\A i \in 1 .. n + 1 : items[i] # 0) <=> items[n + 1] # 0
    <3>1. \A i \in 1 .. n : items[i] # 0
      BY <1>2 DEF Fit
    <3>2. \A i \in 1 .. n + 1 : i \in 1 .. n \/ i = n + 1
      OBVIOUS
    <3>3. n + 1 \in 1 .. n + 1
      OBVIOUS
    <3> QED BY <3>1, <3>2, <3>3
  <2> QED BY <2>1, <2>2 DEF Fit
<1> QED BY <1>1, <1>2

LEMMA SummaryStarts == SummaryInit => SummaryInv
<1> SUFFICES ASSUME SummaryInit PROVE SummaryInv
  OBVIOUS
<1>1. PICK n \in 0 .. MaxItems : items \in [1 .. n -> Sizes \cup {Throws}]
  BY DEF SummaryInit
<1>2. Sizes \cup {Throws} \subseteq Nat
  BY OutputsAssumption DEF Throws
<1>3. items \in Seq(Nat)
  <2>1. n \in Nat
    BY OutputsAssumption
  <2>2. items \in [1 .. n -> Nat]
    BY <1>1, <1>2
  <2> QED BY <2>1, <2>2
<1>4. Emitting
  BY <1>3 DEF SummaryInit, Emitting
<1>5. Built
  BY <1>3, FitNext, LengthGrows DEF SummaryInit, Built
<1>6. Given /\ Put
  BY DEF SummaryInit, Given, Put
<1> QED BY <1>4, <1>5, <1>6 DEF SummaryInv

(* A step changes nothing of the manifest: what fitted still fits.         *)
LEMMA FitKept ==
  ASSUME UNCHANGED items
  PROVE  \A n : /\ Fit(n)' <=> Fit(n)
                /\ Longest(n)' <=> Longest(n)
                /\ LengthOf(items, n)' = LengthOf(items, n)
<1>1. \A n : (Fit(n)' <=> Fit(n)) /\ LengthOf(items, n)' = LengthOf(items, n)
  BY DEF Fit
<1> QED BY <1>1 DEF Longest

LEMMA EmitItemKeeps == SummaryInv /\ EmitItem => SummaryInv'
<1> SUFFICES ASSUME SummaryInv, EmitItem PROVE SummaryInv'
  OBVIOUS
<1>1. /\ step \in {"full", "preview"} /\ index # Count
      /\ items[index + 1] # 0
      /\ index' = index + 1
      /\ bytes' = bytes + ((IF index = 0 THEN 0 ELSE 1) + items[index + 1]) /\ bytes' <= Cap
      /\ UNCHANGED <<step, items, reason, preview, outputs>>
  BY DEF EmitItem, Building, EndOfLoop, Serializable,
         Fits, AdditionalBytes, Throws, SummaryInv, Emitting
<1>2. index \in 0 .. Len(items) /\ bytes \in Nat /\ items \in Seq(Nat)
      /\ Fit(index) /\ bytes = LengthOf(items, index)
      /\ (step = "preview" => index <= PreviewMax)
  BY <1>1 DEF SummaryInv, Emitting, Built
<1>3. index \in 0 .. Len(items) - 1 /\ (step = "preview" => index + 1 <= PreviewMax)
  BY <1>1, <1>2, OutputsAssumption DEF Count, Given, SummaryInv
<1>4. items[index + 1] \in Nat
  BY <1>2, <1>3
<1>5. Emitting'
  BY <1>1, <1>2, <1>3, <1>4 DEF SummaryInv, Emitting
<1>6. Fit(index + 1) /\ bytes' = LengthOf(items, index + 1)
  <2>1. bytes' = LengthOf(items, index) + (IF index = 0 THEN 0 ELSE 1) + items[index + 1]
    BY <1>1, <1>2, <1>4
  <2> QED BY <1>1, <1>2, <1>3, <2>1, FitNext, LengthGrows
<1>7. Built'
  BY <1>1, <1>3, <1>6, FitKept DEF Built
<1>8. Given' /\ Put'
  BY <1>1, FitKept DEF SummaryInv, Given, Put
<1> QED BY <1>5, <1>7, <1>8 DEF SummaryInv

LEMMA FullEndsKeeps ==
  ASSUME SummaryInv, NEW why \in {"none", "cap", "throws"}, FullEnds(why),
         why = "none" <=> Fit(Len(items))
  PROVE  SummaryInv'
<1>1. /\ step = "full" /\ reason' = why /\ index' = 0 /\ bytes' = 2
      /\ step' = IF why = "none" THEN "publish" ELSE "preview"
      /\ UNCHANGED <<items, preview, outputs>>
  BY DEF FullEnds
<1>2. Emitting'
  BY <1>1 DEF SummaryInv, Emitting
<1>3. Fit(0) /\ LengthOf(items, 0) = 2
  BY FitNext, LengthGrows DEF SummaryInv, Emitting
<1>4. Built'
  BY <1>1, <1>3, FitKept, OutputsAssumption DEF Built
<1>5. Given' /\ Put'
  BY <1>1, FitKept DEF SummaryInv, Given, Put
<1> QED BY <1>2, <1>4, <1>5 DEF SummaryInv

(* The full array ends at the end of the manifest, or at an item with      *)
(* which it would not fit, and then neither would the whole.               *)
LEMMA FullKeeps ==
  ASSUME SummaryInv,
         FullComplete \/ FullThrows \/ FullExceeds
  PROVE  SummaryInv'
<1>1. step = "full"
  BY DEF FullComplete, FullThrows, FullExceeds, FullEnds
<1>2. index \in 0 .. Len(items) /\ items \in Seq(Nat) /\ Len(items) \in Nat
      /\ Fit(index) /\ bytes = LengthOf(items, index)
  BY <1>1 DEF SummaryInv, Emitting, Built
<1>3. Count = Len(items)
  BY <1>1 DEF Count
<1>4. CASE FullComplete
  <2>1. Fit(Len(items))
    BY <1>2, <1>3, <1>4 DEF FullComplete, EndOfLoop
  <2> QED BY <1>4, <2>1, FullEndsKeeps DEF FullComplete
<1>5. ASSUME index \in 0 .. Len(items) - 1, ~Fit(index + 1) PROVE ~Fit(Len(items))
  <2>1. index + 1 \in 0 .. Len(items) /\ Len(items) \in 0 .. Len(items) /\ Cap \in Nat
    BY <1>2, <1>5, OutputsAssumption
  <2> QED BY <1>2, <1>5, <2>1, FitShrinks
<1>6. CASE FullThrows \/ FullExceeds
  <2>1. index \in 0 .. Len(items) - 1
    BY <1>2, <1>3, <1>6 DEF FullThrows, FullExceeds, EndOfLoop
  <2>2. ~Fit(index + 1)
    <3>1. CASE items[index + 1] = 0
      BY <1>2, <2>1, <3>1, FitNext
    <3>2. CASE ~(bytes + ((IF index = 0 THEN 0 ELSE 1) + items[index + 1]) <= Cap)
      <4>1. items[index + 1] \in Nat /\ bytes \in Nat
        BY <1>2, <2>1 DEF SummaryInv, Emitting
      <4>2. ~(LengthOf(items, index) + (IF index = 0 THEN 0 ELSE 1) + items[index + 1] <= Cap)
        BY <1>2, <3>2, <4>1, OutputsAssumption
      <4> QED BY <1>2, <2>1, <4>2, FitNext
    <3> QED BY <1>6, <3>1, <3>2 DEF FullThrows, FullExceeds, Serializable,
               Fits, AdditionalBytes, Throws
  <2>3. ~Fit(Len(items))
    BY <1>5, <2>1, <2>2
  <2> QED BY <1>6, <2>3, FullEndsKeeps DEF FullThrows, FullExceeds
<1> QED BY <1>4, <1>6

LEMMA PreviewEndsKeeps == SummaryInv /\ PreviewEnds => SummaryInv'
<1> SUFFICES ASSUME SummaryInv, PreviewEnds PROVE SummaryInv'
  OBVIOUS
<1>1. /\ step = "preview" /\ step' = "publish" /\ preview' = index
      /\ \/ index = Count
         \/ ~(items[index + 1] # 0
              /\ bytes + ((IF index = 0 THEN 0 ELSE 1) + items[index + 1]) <= Cap)
      /\ UNCHANGED <<items, index, bytes, reason, outputs>>
  BY DEF PreviewEnds, EndOfLoop, Serializable, Fits,
         AdditionalBytes, Throws, PreviewCount
<1>2. index \in 0 .. Len(items) /\ bytes \in Nat /\ items \in Seq(Nat) /\ Len(items) \in Nat
      /\ Fit(index) /\ bytes = LengthOf(items, index)
      /\ index <= PreviewMax
  BY <1>1 DEF SummaryInv, Emitting, Built
<1>3. Longest(index)
  <2>1. CASE index = Count
    BY <1>1, <1>2, <2>1 DEF Count, Longest
  <2>2. CASE index # Count /\ index # Len(items)
    <3>1. index \in 0 .. Len(items) - 1
      BY <1>2, <2>2
    <3>2. items[index + 1] \in Nat
      BY <1>2, <3>1
    <3>3. bytes + ((IF index = 0 THEN 0 ELSE 1) + items[index + 1])
            = LengthOf(items, index) + (IF index = 0 THEN 0 ELSE 1) + items[index + 1]
      BY <1>2, <3>2
    <3>4. ~Fit(index + 1)
      BY <1>1, <1>2, <2>2, <3>1, <3>3, FitNext
    <3> QED BY <1>2, <3>4 DEF Longest
  <2>3. CASE index = Len(items)
    BY <1>2, <2>3 DEF Longest
  <2> QED BY <2>1, <2>2, <2>3
<1>4. Emitting' /\ Built'
  BY <1>1, <1>2 DEF SummaryInv, Emitting, Built
<1>5. Given' /\ Put'
  BY <1>1, <1>3, FitKept DEF SummaryInv, Given, Put
<1> QED BY <1>4, <1>5 DEF SummaryInv

LEMMA PublishSummaryKeeps == SummaryInv /\ SetSummaryJsonOutput => SummaryInv'
<1> SUFFICES ASSUME SummaryInv, SetSummaryJsonOutput PROVE SummaryInv'
  OBVIOUS
<1>1. /\ step = "publish" /\ step' = "done"
      /\ outputs' = IF reason = "none" THEN [Unset EXCEPT !.json = Len(items)]
                    ELSE [json |-> 0, truncated |-> TRUE, preview |-> preview, notice |-> TRUE]
      /\ UNCHANGED <<items, index, bytes, reason, preview>>
  BY DEF SetSummaryJsonOutput
<1>2. Emitting' /\ Built'
  BY <1>1 DEF SummaryInv, Emitting, Built
<1>3. Given'
  BY <1>1, FitKept DEF SummaryInv, Given
<1>4. Put'
  BY <1>1 DEF Put, Unset
<1> QED BY <1>2, <1>3, <1>4 DEF SummaryInv

LEMMA SummaryStep == SummaryInv /\ [SummaryNext]_summaryVars => SummaryInv'
<1> SUFFICES ASSUME SummaryInv, [SummaryNext]_summaryVars PROVE SummaryInv'
  OBVIOUS
<1>1. CASE UNCHANGED summaryVars
  <2>1. UNCHANGED <<step, items, index, bytes, reason, preview, outputs>>
    BY <1>1 DEF summaryVars
  <2>2. Emitting' /\ Built' /\ Given'
    BY <2>1, FitKept DEF SummaryInv, Emitting, Built, Given
  <2>3. Put'
    BY <2>1 DEF SummaryInv, Put, Unset
  <2> QED BY <2>2, <2>3 DEF SummaryInv
<1> QED BY <1>1, EmitItemKeeps, FullKeeps, PreviewEndsKeeps, PublishSummaryKeeps
        DEF SummaryNext, SummaryEnds

(* The invariant of the serialization, for any manifest and any limits.    *)
THEOREM SummaryInvariance == SummarySpec => []SummaryInv
<1>1. SummaryInit => SummaryInv
  BY SummaryStarts
<1>2. SummaryInv /\ [SummaryNext]_summaryVars => SummaryInv'
  BY SummaryStep
<1> QED BY <1>1, <1>2, PTL DEF SummarySpec

(* Neither the manifest nor the preview goes over the cap, whatever the    *)
(* cap, the items and their number are; the length that is added up item   *)
(* by item is the length of the array.                                     *)
THEOREM SummaryFits == SummarySpec => []OutputsFit
<1>1. ASSUME SummaryInv PROVE OutputsFit
  <2>1. Fit(0) /\ LengthOf(items, 0) = 2 /\ Cap \in Nat
    BY <1>1, FitNext, LengthGrows, OutputsAssumption DEF SummaryInv, Emitting
  <2>2. Fit(outputs.json) /\ Fit(outputs.preview)
        /\ (outputs.json = 0 \/ outputs.preview = 0)
    <3>1. CASE step # "done"
      BY <1>1, <2>1, <3>1 DEF SummaryInv, Put, Unset
    <3>2. CASE step = "done" /\ reason = "none"
      BY <1>1, <2>1, <3>2 DEF SummaryInv, Put, Given, Unset
    <3>3. CASE step = "done" /\ reason # "none"
      BY <1>1, <2>1, <3>3 DEF SummaryInv, Put, Given, Longest
    <3> QED BY <3>1, <3>2, <3>3
  <2>3. outputs.json \in 0 .. Len(items) /\ outputs.preview \in 0 .. Len(items)
    BY <1>1 DEF SummaryInv, Emitting, Put, Unset
  <2>4. LengthOf(items, outputs.json) \in Nat /\ LengthOf(items, outputs.preview) \in Nat
    BY <1>1, <2>3, LengthGrows DEF SummaryInv, Emitting
  <2>5. /\ LengthOf(items, outputs.json) <= Cap /\ LengthOf(items, outputs.preview) <= Cap
        /\ LengthOf(items, outputs.json) + LengthOf(items, outputs.preview) <= Cap + 2
    BY <2>1, <2>2, <2>4 DEF Fit
  <2>6. Building => bytes = LengthOf(items, index)
    BY <1>1 DEF SummaryInv, Built, Building
  <2> QED BY <2>5, <2>6, JsonLengthOf DEF OutputsFit
<1>2. SummaryInv => OutputsFit
  BY <1>1
<1>3. SummarySpec => []SummaryInv
  BY SummaryInvariance
<1> QED BY <1>2, <1>3, PTL

(* The manifest is published whole exactly if it can be, or else not at    *)
(* all, and the preview beside the notice is the longest that fits.        *)
THEOREM WholeManifestOrNone == SummarySpec => []ManifestIsAllOrNothing
<1>1. ASSUME SummaryInv, step = "done" PROVE ManifestIsAllOrNothing
  <2>1. items \in Seq(Nat) /\ Len(items) \in Nat /\ preview \in 0 .. Len(items) /\ Cap \in Nat
        /\ PreviewMax \in Nat
    BY <1>1, OutputsAssumption DEF SummaryInv, Emitting
  <2>2. /\ reason = "none" => outputs = [json |-> Len(items), truncated |-> FALSE,
                                         preview |-> 0, notice |-> FALSE]
        /\ reason # "none" => outputs = [json |-> 0, truncated |-> TRUE,
                                         preview |-> preview, notice |-> TRUE]
    BY <1>1 DEF SummaryInv, Put, Unset
  <2>3. reason # "none" <=> ~Fit(Len(items))
    BY <1>1 DEF SummaryInv, Given
  <2>4. ASSUME reason # "none", NEW n \in 1 .. Len(items), Fit(n), n <= PreviewMax
        PROVE  n <= preview
    <3>1. Longest(preview)
      BY <1>1, <2>4 DEF SummaryInv, Given
    <3>2. CASE preview = Len(items) \/ preview = PreviewMax
      BY <2>1, <2>4, <3>2
    <3>3. CASE ~Fit(preview + 1) /\ preview < n
      <4>1. preview + 1 \in 0 .. n /\ n \in 0 .. Len(items)
        BY <2>1, <3>3
      <4>2. Fit(preview + 1)
        BY <2>1, <2>4, <4>1, FitShrinks
      <4> QED BY <3>3, <4>2
    <3> QED BY <2>1, <3>1, <3>2, <3>3 DEF Longest
  <2>5. reason # "none" => Fit(preview) /\ preview <= PreviewMax
    BY <1>1 DEF SummaryInv, Given, Longest
  <2>6. CASE reason = "none"
    <3>1. outputs.truncated = FALSE /\ outputs.notice = FALSE /\ outputs.json = Len(items)
      BY <2>2, <2>6
    <3>2. Writable(Len(items))
      BY <2>3, <2>6, WritableFit
    <3> QED BY <3>1, <3>2 DEF ManifestIsAllOrNothing
  <2>7. CASE reason # "none"
    <3>1. /\ outputs.truncated = TRUE /\ outputs.notice = TRUE
          /\ outputs.json = 0 /\ outputs.preview = preview
      BY <2>2, <2>7
    <3>2. ~Writable(Len(items)) /\ Writable(preview)
      BY <2>3, <2>5, <2>7, WritableFit
    <3>3. \A n \in 1 .. Len(items) : Writable(n) /\ n <= PreviewMax => n <= preview
      BY <2>4, <2>7, WritableFit
    <3> QED BY <2>5, <2>7, <3>1, <3>2, <3>3 DEF ManifestIsAllOrNothing
  <2> QED BY <2>6, <2>7
<1>2. SummaryInv => ManifestIsAllOrNothing
  BY <1>1 DEF ManifestIsAllOrNothing
<1>3. SummarySpec => []SummaryInv
  BY SummaryInvariance
<1> QED BY <1>2, <1>3, PTL
=============================================================================
