---------------------------- MODULE RetryProofs ----------------------------
(***************************************************************************)
(* Proofs about RetryPolicy, for any limits of the delays, any width of    *)
(* the shifted integer and streaks of failures of any length.              *)
(***************************************************************************)
EXTENDS RetryPolicy, WellFoundedInduction, TLAPS

-----------------------------------------------------------------------------
(* Powers of two.                                                          *)

\* A set of naturals that is not empty has a least element.
LEMMA Least ==
  ASSUME NEW T, T \subseteq Nat, T # {}
  PROVE  \E m \in T : \A n \in T : m <= n
<1>1. IsWellFoundedOn(OpToRel(<, Nat), Nat)
      BY NatLessThanWellFounded
<1>2. PICK m \in T : \A n \in T : ~(<<n, m>> \in OpToRel(<, Nat))
      BY <1>1, WFMin
<1>3. \A n \in T : <<n, m>> \in Nat \X Nat
      BY <1>2
<1>4. \A n \in T : n < m => <<n, m>> \in OpToRel(<, Nat)
      BY <1>3 DEF OpToRel
<1>5. m \in Nat /\ \A n \in T : n \in Nat
      BY <1>2
<1>6. \A n \in T : ~(n < m)
      BY <1>2, <1>4
<1>7. \A n \in T : m <= n
      BY <1>5, <1>6
<1>8. QED BY <1>2, <1>7

\* Up to the width of the integer a greater exponent means a greater power.
LEMMA PowersGrow ==
  ASSUME NEW m \in 0..Width, NEW n \in 0..Width, m < n
  PROVE  2^m \in Nat \ {0} /\ 2^n \in Nat /\ 2^m < 2^n
<1> DEFINE Stuck == {k \in 0..Width : m < k /\ ~(2^m < 2^k)}
<1>1. Width \in Nat
      BY RetryAssumption
<1>2. \A k \in 0..Width : 2^k \in Nat \ {0}
      BY PowerAssumption
<1>3. Stuck = {}
  <2> SUFFICES ASSUME Stuck # {} PROVE FALSE
      OBVIOUS
  <2>1. Stuck \subseteq Nat
        BY <1>1
  <2>2. PICK k \in Stuck : \A j \in Stuck : k <= j
        BY <2>1, Least
  <2>3. k \in 1..Width /\ k - 1 \in 0..(Width - 1) /\ k - 1 \in 0..Width /\ m <= k - 1
        BY <1>1, <2>2
  <2>4. 2^k = 2 * 2^(k - 1)
    <3>1. 2^((k - 1) + 1) = 2 * 2^(k - 1)
          BY <2>3, PowerAssumption
    <3>2. (k - 1) + 1 = k
          BY <2>3
    <3>3. QED BY <3>1, <3>2
  <2>5. k - 1 \notin Stuck
    <3>1. ~(k <= k - 1)
          BY <2>3
    <3>2. QED BY <2>2, <3>1
  <2>6. 2^m <= 2^(k - 1)
    <3>1. CASE m = k - 1
          BY <3>1, <1>2
    <3>2. CASE m < k - 1
          BY <3>2, <2>3, <2>5, <1>2
    <3>3. QED BY <2>3, <3>1, <3>2
  <2>7. 2^m < 2^k
    <3>1. 2^m \in Nat /\ 2^(k - 1) \in Nat \ {0} /\ 2^k \in Nat
          BY <1>2, <2>3
    <3>2. QED BY <2>4, <2>6, <3>1
  <2>8. QED BY <2>2, <2>7
<1>4. 2^m < 2^n
      BY <1>3
<1>5. QED BY <1>2, <1>4

-----------------------------------------------------------------------------
(* Delays.                                                                 *)

\* The classes whose delay does not depend on the streak.
Deterministic == {"auth", "configuration", "other_deterministic"}

\* The exponent of a streak.
Exponent(streak) == IF streak - 1 < MaxShift THEN streak - 1 ELSE MaxShift

\* A shift by a capped exponent does not wrap around.
LEMMA ShiftFits ==
  ASSUME NEW n \in 0..MaxShift
  PROVE  Shifted(n) = 2^n /\ 2^n \in Nat \ {0}
<1>1. MaxShift \in Nat /\ Width \in Nat /\ MaxShift < Width
      BY RetryAssumption
<1>2. n \in 0..Width /\ Width \in 0..Width /\ n < Width
      BY <1>1
<1>3. 2^n \in Nat \ {0} /\ 2^Width \in Nat /\ 2^n < 2^Width
      BY <1>2, PowersGrow
<1>4. \A a, b \in Nat : a < b => a % b = a
      OBVIOUS
<1>5. QED BY <1>3, <1>4 DEF Shifted

\* The exponent of a streak of failures is within the cap, and grows with it.
LEMMA ExponentCapped ==
  ASSUME NEW streak \in Nat \ {0}
  PROVE  /\ Exponent(streak) \in 0..MaxShift
         /\ Exponent(streak + 1) \in 0..MaxShift
         /\ Exponent(streak) <= Exponent(streak + 1)
<1>1. MaxShift \in Nat \ {0}
      BY RetryAssumption
<1>2. QED BY <1>1 DEF Exponent

\* The delay of a class that is retried at a growing distance.
LEMMA GrowingDelay ==
  ASSUME NEW streak \in Nat \ {0}, NEW class, class \notin Deterministic
  PROVE  /\ 2^Exponent(streak) \in Nat \ {0}
         /\ retryDelay(streak, class) = Capped(2^Exponent(streak))
<1>1. Exponent(streak) \in 0..MaxShift
      BY ExponentCapped
<1>2. Shifted(Exponent(streak)) = 2^Exponent(streak) /\ 2^Exponent(streak) \in Nat \ {0}
      BY <1>1, ShiftFits
<1>3. retryDelay(streak, class) = Capped(Shifted(Exponent(streak)))
      BY DEF retryDelay, Deterministic, Exponent
<1>4. QED BY <1>2, <1>3

\* finalizerRetryDelay and cleanupRetryDelay stay between one unit and the
\* maximum, however long the failures go on.
LEMMA DelayBounded ==
  ASSUME NEW streak \in Nat \ {0}, NEW class
  PROVE  retryDelay(streak, class) \in 1..MaxDelay
<1>1. MaxDelay \in Nat \ {0}
      BY RetryAssumption
<1>2. CASE class \in Deterministic
      BY <1>1, <1>2 DEF retryDelay, Deterministic
<1>3. CASE class \notin Deterministic
  <2>1. /\ 2^Exponent(streak) \in Nat \ {0}
        /\ retryDelay(streak, class) = Capped(2^Exponent(streak))
        BY <1>3, GrowingDelay
  <2>2. QED BY <1>1, <2>1 DEF Capped
<1>4. QED BY <1>2, <1>3

\* One failure more of the same class never brings the retry closer.
LEMMA DelayGrows ==
  ASSUME NEW streak \in Nat \ {0}, NEW class
  PROVE  retryDelay(streak, class) <= retryDelay(streak + 1, class)
<1>1. MaxDelay \in Nat \ {0}
      BY RetryAssumption
<1>2. CASE class \in Deterministic
      BY <1>1, <1>2 DEF retryDelay, Deterministic
<1>3. CASE class \notin Deterministic
  <2>1. /\ 2^Exponent(streak) \in Nat \ {0}
        /\ retryDelay(streak, class) = Capped(2^Exponent(streak))
        BY <1>3, GrowingDelay
  <2>2. /\ 2^Exponent(streak + 1) \in Nat \ {0}
        /\ retryDelay(streak + 1, class) = Capped(2^Exponent(streak + 1))
    <3>1. streak + 1 \in Nat \ {0}
          OBVIOUS
    <3>2. QED BY <1>3, <3>1, GrowingDelay
  <2>3. 2^Exponent(streak) <= 2^Exponent(streak + 1)
    <3>1. MaxShift \in Nat /\ Width \in Nat /\ MaxShift < Width
          BY RetryAssumption
    <3>2. /\ Exponent(streak) \in 0..Width /\ Exponent(streak + 1) \in 0..Width
          /\ Exponent(streak) <= Exponent(streak + 1)
          BY <3>1, ExponentCapped
    <3>3. CASE Exponent(streak) = Exponent(streak + 1)
          BY <2>1, <3>3
    <3>4. CASE Exponent(streak) < Exponent(streak + 1)
          BY <2>1, <2>2, <3>2, <3>4, PowersGrow
    <3>5. QED BY <3>2, <3>3, <3>4
  <2>4. QED BY <1>1, <2>1, <2>2, <2>3 DEF Capped
<1>4. QED BY <1>2, <1>3

-----------------------------------------------------------------------------
(* Classes.                                                                *)

\* Every error of S3 has a class, and a write that got no answer is ambiguous.
LEMMA StorageClass ==
  ASSUME NEW e \in StorageError, NEW write \in BOOLEAN
  PROVE  /\ classifyStorageError(e, write) \in Classes
         /\ write /\ e.kind # "answer" /\ e.kind # "length" =>
              classifyStorageError(e, write) = "ambiguous"
<1>1. /\ e.kind \in {"answer", "context", "length", "network", "other"}
      /\ e.kind # "answer" => e.code = "none" /\ e.status = 0
      BY DEF StorageError, Codes, Statuses
<1>2. /\ Unanswered(write) \in Classes /\ Unexplained(write) \in Classes
      /\ write => Unanswered(write) = "ambiguous" /\ Unexplained(write) = "ambiguous"
      BY DEF Unanswered, Unexplained, Classes
<1>3. classifyStorageError(e, write) \in Classes
      BY <1>2 DEF classifyStorageError, Classes
<1>4. ASSUME write, e.kind # "answer", e.kind # "length"
      PROVE  classifyStorageError(e, write) = "ambiguous"
  <2>1. CASE e.kind \in {"context", "network"}
    <3>1. classifyStorageError(e, write) = Unanswered(write)
          BY <1>1, <2>1 DEF classifyStorageError
    <3>2. QED BY <1>2, <1>4, <3>1
  <2>2. CASE e.kind = "other"
    <3>1. classifyStorageError(e, write) = Unexplained(write)
          BY <1>1, <2>2 DEF classifyStorageError
    <3>2. QED BY <1>2, <1>4, <3>1
  <2>3. QED BY <1>1, <1>4, <2>1, <2>2
<1>5. QED BY <1>3, <1>4

\* Every error of the database has a class, and a mutation that got no answer
\* is ambiguous.
LEMMA DatabaseClass ==
  ASSUME NEW e \in DatabaseError, NEW mutation \in BOOLEAN
  PROVE  /\ classifyDatabaseError(e, mutation) \in Classes
         /\ mutation /\ ~Answered(e) => classifyDatabaseError(e, mutation) = "ambiguous"
<1>1. /\ Unanswered(mutation) \in Classes /\ Unexplained(mutation) \in Classes
      /\ mutation => Unanswered(mutation) = "ambiguous" /\ Unexplained(mutation) = "ambiguous"
      BY DEF Unanswered, Unexplained, Classes
<1>2. classifyDatabaseError(e, mutation) \in Classes
      BY <1>1 DEF classifyDatabaseError, DatabaseError, Classes
<1>3. ASSUME mutation, ~Answered(e)
      PROVE  classifyDatabaseError(e, mutation) = "ambiguous"
      BY <1>1, <1>3 DEF classifyDatabaseError, DatabaseError, Answered
<1>4. QED BY <1>2, <1>3

\* The results of a tombstone that stand for a failure.
ErrorResults ==
  {"transient_error", "ambiguous_error", "auth_error", "configuration_error",
   "other_deterministic_error"}

\* Each class has a result of its own.
LEMMA ResultOfClass ==
  ASSUME NEW c \in Classes, NEW d \in Classes
  PROVE  /\ ErrorResult[c] \in ErrorResults
         /\ ErrorResult[c] = ErrorResult[d] => c = d
<1>1. /\ ErrorResult["transient"] = "transient_error"
      /\ ErrorResult["ambiguous"] = "ambiguous_error"
      /\ ErrorResult["auth"] = "auth_error"
      /\ ErrorResult["configuration"] = "configuration_error"
      /\ ErrorResult["other_deterministic"] = "other_deterministic_error"
      BY DEF ErrorResult
<1>2. QED BY <1>1 DEF Classes, ErrorResults

-----------------------------------------------------------------------------
(* The inductive invariant: the delay that is set is the one that belongs  *)
(* to the streak and the class.                                            *)

Successes == {"delete_succeeded", "confirmed_absent"}

\* The column is NULL.
NoValue == ""

UploadColumns ==
  /\ upload.streak \in Nat
  /\ upload.streak = 0 => upload.class = NoValue
  /\ upload.streak # 0 =>
       /\ upload.class \in Classes
       /\ upload.delay = retryDelay(upload.streak, upload.class)

DutyColumns ==
  /\ duty.streak \in Nat
  /\ duty.streak = 0 => duty.result \in Successes \cup {NoValue}
  /\ duty.streak # 0 =>
       \E class \in Classes :
         duty.result = ErrorResult[class] /\ duty.delay = retryDelay(duty.streak, class)

RetryInv == UploadColumns /\ DutyColumns /\ LostAnswerAmbiguous

\* A step of the finalizer adds a failure to the streak of the upload.
LEMMA FinalizerFails ==
  ASSUME RetryInv, FinalizerStorageFails \/ FinalizerDatabaseFails
  PROVE  /\ upload'.streak = upload.streak + 1
         /\ upload'.class \in Classes
         /\ upload'.delay = retryDelay(upload.streak + 1, upload'.class)
         /\ duty' = duty
         /\ LostAnswerAmbiguous'
<1>1. PICK answered \in BOOLEAN, write \in BOOLEAN, class \in Classes :
        /\ write /\ ~answered => class = "ambiguous"
        /\ scheduleFinalizeRetry(answered, write, class)
  <2>1. CASE FinalizerStorageFails
    <3>1. CASE \E e \in StorageError :
                 IF storageObjectMissing(e)
                 THEN \E class \in {"transient", "ambiguous"} :
                        scheduleFinalizeRetry(TRUE, FALSE, class)
                 ELSE scheduleFinalizeRetry(e.kind = "answer", FALSE,
                                            classifyStorageError(e, FALSE))
      <4>1. PICK e \in StorageError :
                 IF storageObjectMissing(e)
                 THEN \E class \in {"transient", "ambiguous"} :
                        scheduleFinalizeRetry(TRUE, FALSE, class)
                 ELSE scheduleFinalizeRetry(e.kind = "answer", FALSE,
                                            classifyStorageError(e, FALSE))
            BY <3>1
      <4>2. CASE storageObjectMissing(e)
        <5>1. PICK class \in {"transient", "ambiguous"} :
                scheduleFinalizeRetry(TRUE, FALSE, class)
              BY <4>1, <4>2
        <5>2. class \in Classes
              BY DEF Classes
        <5>3. QED BY <5>1, <5>2
      <4>3. CASE ~storageObjectMissing(e)
        <5>1. scheduleFinalizeRetry(e.kind = "answer", FALSE, classifyStorageError(e, FALSE))
              BY <4>1, <4>3
        <5>2. classifyStorageError(e, FALSE) \in Classes
              BY StorageClass
        <5>3. (e.kind = "answer") \in BOOLEAN
              OBVIOUS
        <5>4. QED BY <5>1, <5>2, <5>3
      <4>4. QED BY <4>2, <4>3
    <3>2. CASE \E e \in StorageError :
                 /\ e.kind # "length"
                 /\ scheduleFinalizeRetry(e.kind = "answer", TRUE,
                                          classifyStorageError(e, TRUE))
      <4>1. PICK e \in StorageError :
                 /\ e.kind # "length"
                 /\ scheduleFinalizeRetry(e.kind = "answer", TRUE,
                                          classifyStorageError(e, TRUE))
            BY <3>2
      <4>2. /\ classifyStorageError(e, TRUE) \in Classes
            /\ ~(e.kind = "answer") => classifyStorageError(e, TRUE) = "ambiguous"
            BY <4>1, StorageClass
      <4>3. (e.kind = "answer") \in BOOLEAN
            OBVIOUS
      <4>4. QED BY <4>1, <4>2, <4>3
    <3>3. QED BY <2>1, <3>1, <3>2 DEF FinalizerStorageFails
  <2>2. CASE FinalizerDatabaseFails
    <3>1. PICK e \in DatabaseError, mutation \in BOOLEAN :
            scheduleFinalizeRetry(Answered(e), mutation, classifyDatabaseError(e, mutation))
          BY <2>2 DEF FinalizerDatabaseFails
    <3>2. /\ classifyDatabaseError(e, mutation) \in Classes
          /\ mutation /\ ~Answered(e) => classifyDatabaseError(e, mutation) = "ambiguous"
          BY DatabaseClass
    <3>3. Answered(e) \in BOOLEAN
          BY DEF Answered
    <3>4. QED BY <3>1, <3>2, <3>3
  <2>3. QED BY <2>1, <2>2
<1>2. /\ upload' = [streak |-> upload.streak + 1, class |-> class,
                    delay |-> retryDelay(upload.streak + 1, class)]
      /\ failure' = [answered |-> answered, write |-> write, class |-> class]
      /\ duty' = duty
      BY <1>1 DEF scheduleFinalizeRetry
<1>3. /\ failure'.write = write /\ failure'.answered = answered
      /\ failure'.class = class
      BY <1>2
<1>4. LostAnswerAmbiguous'
      BY <1>1, <1>3 DEF LostAnswerAmbiguous
<1>5. QED BY <1>1, <1>2, <1>4

\* What a DELETE comes to: a success or a confirmed absence, or a failure with
\* its class and result; a DELETE that got no answer is ambiguous.
LEMMA CleanupOutcome ==
  ASSUME NEW e \in {x \in StorageError : x.kind # "length"} \cup {NoError}
  PROVE  LET result == classifyCleanupDelete(e)[1]
             class == classifyCleanupDelete(e)[2]
         IN \/ class = "" /\ result \in Successes
            \/ /\ class \in Classes /\ result = ErrorResult[class]
               /\ e.kind # "answer" => class = "ambiguous"
<1>1. CASE DeleteFails(e)
  <2>1. e \in StorageError /\ e.kind # "length"
        BY <1>1 DEF DeleteFails, NoError
  <2>2. e.kind # "ok" /\ ~storageObjectMissing(e)
        BY <1>1 DEF DeleteFails
  <2>3. /\ classifyStorageError(e, TRUE) \in Classes
        /\ e.kind # "answer" => classifyStorageError(e, TRUE) = "ambiguous"
        BY <2>1, StorageClass
  <2>4. /\ classifyCleanupDelete(e)[1] = ErrorResult[classifyStorageError(e, TRUE)]
        /\ classifyCleanupDelete(e)[2] = classifyStorageError(e, TRUE)
        BY <1>1, <2>2 DEF classifyCleanupDelete
  <2>5. QED BY <2>3, <2>4
<1>2. CASE ~DeleteFails(e)
  <2>1. e.kind = "ok" \/ storageObjectMissing(e)
        BY <1>2 DEF DeleteFails
  <2>2. classifyCleanupDelete(e)[2] = ""
        BY <1>2 DEF classifyCleanupDelete
  <2>3. classifyCleanupDelete(e)[1] \in Successes
        BY <2>1 DEF classifyCleanupDelete, Successes
  <2>4. QED BY <2>2, <2>3
<1>3. QED BY <1>1, <1>2

\* A step of cleanup ends the streak of the tombstone or adds a failure to it.
LEMMA CleanupTurns ==
  ASSUME RetryInv, CleanupAttempt
  PROVE  /\ upload' = upload
         /\ LostAnswerAmbiguous'
         /\ \/ duty'.streak = 0 /\ duty'.result \in Successes
            \/ /\ duty'.streak = duty.streak + 1
               /\ \E class \in Classes :
                    /\ duty'.result = ErrorResult[class]
                    /\ duty'.delay = retryDelay(duty.streak + 1, class)
<1>1. PICK e \in {x \in StorageError : x.kind # "length"} \cup {NoError} :
        applyCleanupResult(e, classifyCleanupDelete(e)[1], classifyCleanupDelete(e)[2])
      BY DEF CleanupAttempt
<1> DEFINE result == classifyCleanupDelete(e)[1]
<1> DEFINE class == classifyCleanupDelete(e)[2]
<1>2. \/ class = "" /\ result \in Successes
      \/ /\ class \in Classes /\ result = ErrorResult[class]
         /\ e.kind # "answer" => class = "ambiguous"
      BY CleanupOutcome
<1>3. applyCleanupResult(e, result, class)
      BY <1>1
<1> HIDE DEF result, class
<1>4. upload' = upload
      BY <1>3 DEF applyCleanupResult
<1>5. CASE class = ""
  <2>1. /\ duty' = [streak |-> 0, result |-> result, delay |-> ProtectiveDelay]
        /\ failure' = NoFailure
        BY <1>3, <1>5 DEF applyCleanupResult
  <2>2. result \in Successes
        BY <1>2, <1>5 DEF Classes
  <2>3. failure'.write = FALSE
        BY <2>1 DEF NoFailure
  <2>4. LostAnswerAmbiguous'
        BY <2>3 DEF LostAnswerAmbiguous
  <2>5. QED BY <1>4, <2>1, <2>2, <2>4
<1>6. CASE class # ""
  <2>1. /\ duty' = [streak |-> duty.streak + 1, result |-> result,
                    delay |-> retryDelay(duty.streak + 1, class)]
        /\ failure' = [answered |-> e.kind = "answer", write |-> TRUE, class |-> class]
        BY <1>3, <1>6 DEF applyCleanupResult
  <2>2. failure'.class = class /\ failure'.answered = (e.kind = "answer")
        BY <2>1
  <2>3. LostAnswerAmbiguous'
        BY <1>2, <1>6, <2>2 DEF LostAnswerAmbiguous
  <2>4. QED BY <1>2, <1>4, <1>6, <2>1, <2>3
<1>7. QED BY <1>5, <1>6

\* The columns of a row and of a tombstone that nothing has failed on.
LEMMA InitRetry == Init => RetryInv
<1> SUFFICES ASSUME Init PROVE RetryInv
    OBVIOUS
<1>1. /\ upload.streak = 0 /\ upload.class = NoValue
      /\ duty.streak = 0 /\ duty.result = NoValue
      /\ failure.write = FALSE
      BY Zenon DEF Init, NoFailure, NoValue
<1>2. UploadColumns /\ DutyColumns
      BY <1>1 DEF UploadColumns, DutyColumns
<1>3. QED BY <1>1, <1>2, Zenon DEF RetryInv, LostAnswerAmbiguous

\* Whatever the errors, the columns describe the failures there were.
LEMMA NextRetry == RetryInv /\ [Next]_vars => RetryInv'
<1> SUFFICES ASSUME RetryInv, [Next]_vars PROVE RetryInv'
    OBVIOUS
<1>1. CASE FinalizerStorageFails \/ FinalizerDatabaseFails
  <2>1. /\ upload'.streak = upload.streak + 1
        /\ upload'.class \in Classes
        /\ upload'.delay = retryDelay(upload.streak + 1, upload'.class)
        /\ duty' = duty /\ LostAnswerAmbiguous'
        BY <1>1, FinalizerFails
  <2>2. UploadColumns'
    <3>1. upload.streak + 1 \in Nat /\ upload.streak + 1 # 0
          BY DEF RetryInv, UploadColumns
    <3>2. QED BY <2>1, <3>1 DEF UploadColumns
  <2>3. DutyColumns'
        BY <2>1 DEF RetryInv, DutyColumns
  <2>4. QED BY <2>1, <2>2, <2>3 DEF RetryInv
<1>2. CASE CleanupAttempt
  <2>1. /\ upload' = upload /\ LostAnswerAmbiguous'
        /\ \/ duty'.streak = 0 /\ duty'.result \in Successes
           \/ /\ duty'.streak = duty.streak + 1
              /\ \E class \in Classes :
                   /\ duty'.result = ErrorResult[class]
                   /\ duty'.delay = retryDelay(duty.streak + 1, class)
        BY <1>2, CleanupTurns
  <2>2. UploadColumns'
        BY <2>1 DEF RetryInv, UploadColumns
  <2>3. DutyColumns'
    <3>1. duty.streak + 1 \in Nat /\ duty.streak + 1 # 0
          BY DEF RetryInv, DutyColumns
    <3>2. CASE duty'.streak = 0 /\ duty'.result \in Successes
          BY <3>2 DEF DutyColumns
    <3>3. CASE duty'.streak = duty.streak + 1
      <4>1. PICK class \in Classes :
              /\ duty'.result = ErrorResult[class]
              /\ duty'.delay = retryDelay(duty'.streak, class)
            BY <2>1, <3>1, <3>3
      <4>2. QED BY <3>1, <3>3, <4>1 DEF DutyColumns
    <3>4. QED BY <2>1, <3>2, <3>3
  <2>4. QED BY <2>1, <2>2, <2>3 DEF RetryInv
<1>3. CASE UNCHANGED vars
  BY <1>3 DEF vars, RetryInv, UploadColumns, DutyColumns, LostAnswerAmbiguous
<1>4. QED BY <1>1, <1>2, <1>3 DEF Next

-----------------------------------------------------------------------------
(* Theorems.                                                               *)

\* The delay that is set always belongs to the streak and class stored with it,
\* after any sequence of errors.
THEOREM RetryInvariant == Spec => []RetryInv
BY InitRetry, NextRetry, PTL DEF Spec

\* The transaction that schedules a retry never fails on its own columns: after
\* any sequence of errors they pass the CHECK constraints of both tables.
THEOREM RetriesAreStorable == Spec => []RetryColumnsStorable
<1>1. RetryInv => RetryColumnsStorable
  <2> SUFFICES ASSUME RetryInv PROVE RetryColumnsStorable
      OBVIOUS
  <2>1. duty.streak # 0 => duty.result \in ErrorResults
        BY ResultOfClass DEF RetryInv, DutyColumns
  <2>2. QED
        BY <2>1, Zenon
        DEF RetryInv, UploadColumns, DutyColumns, RetryColumnsStorable, ErrorResults, Successes,
            NoValue
<1>2. QED BY <1>1, RetryInvariant, PTL

\* For every width of the integer and every cap below it, no streak of failures
\* wraps the delay around to nothing or takes it past its maximum.
THEOREM BackoffIsBounded == Spec => []BackoffBounded
<1>1. RetryInv => BackoffBounded
  <2> SUFFICES ASSUME RetryInv PROVE BackoffBounded
      OBVIOUS
  <2>1. ASSUME upload.streak > 0 PROVE upload.delay \in 1..MaxDelay
    <3>1. /\ upload.streak \in Nat \ {0}
          /\ upload.delay = retryDelay(upload.streak, upload.class)
          BY <2>1 DEF RetryInv, UploadColumns
    <3>2. QED BY <3>1, DelayBounded
  <2>2. ASSUME duty.streak > 0 PROVE duty.delay \in 1..MaxDelay
    <3>1. duty.streak \in Nat \ {0}
          BY <2>2 DEF RetryInv, DutyColumns
    <3>2. PICK class \in Classes : duty.delay = retryDelay(duty.streak, class)
          BY <3>1 DEF RetryInv, DutyColumns
    <3>3. QED BY <3>1, <3>2, DelayBounded
  <2>3. QED BY <2>1, <2>2 DEF BackoffBounded
<1>2. QED BY <1>1, RetryInvariant, PTL

\* A write whose answer was lost is never taken for a failure that is known to
\* have changed nothing.
THEOREM LostAnswersAreAmbiguous == Spec => []LostAnswerAmbiguous
<1>1. RetryInv => LostAnswerAmbiguous
      BY DEF RetryInv
<1>2. QED BY <1>1, RetryInvariant, PTL

\* While one class of failure goes on, each retry is at least as far away as
\* the one before.
THEOREM BackoffNeverShrinks == Spec => BackoffGrows
<1> DEFINE Grows ==
      /\ upload'.streak > upload.streak /\ upload'.class = upload.class =>
           upload'.delay >= upload.delay
      /\ duty'.streak > duty.streak /\ duty'.result = duty.result =>
           duty'.delay >= duty.delay
<1>1. RetryInv /\ [Next]_vars => [Grows]_vars
  <2> SUFFICES ASSUME RetryInv, Next PROVE Grows
      OBVIOUS
  <2>1. upload.streak \in Nat /\ duty.streak \in Nat
        BY DEF RetryInv, UploadColumns, DutyColumns
  <2>2. CASE FinalizerStorageFails \/ FinalizerDatabaseFails
    <3>1. /\ upload'.streak = upload.streak + 1
          /\ upload'.class \in Classes
          /\ upload'.delay = retryDelay(upload.streak + 1, upload'.class)
          /\ duty' = duty
          BY <2>2, FinalizerFails
    <3>2. ASSUME upload'.class = upload.class
          PROVE  upload'.delay >= upload.delay
      <4>1. upload.streak # 0
        <5>1. upload.class # NoValue
              BY <3>1, <3>2, Zenon DEF Classes, NoValue
        <5>2. QED BY <5>1 DEF RetryInv, UploadColumns
      <4>2. upload.delay = retryDelay(upload.streak, upload.class)
            BY <4>1 DEF RetryInv, UploadColumns
      <4>3. upload.streak \in Nat \ {0} /\ upload.streak + 1 \in Nat \ {0}
            BY <2>1, <4>1
      <4>4. /\ upload.delay \in 1..MaxDelay /\ upload'.delay \in 1..MaxDelay
            /\ upload.delay <= upload'.delay
            BY <3>1, <3>2, <4>2, <4>3, DelayBounded, DelayGrows
      <4>5. QED BY <4>4, RetryAssumption
    <3>3. ~(duty'.streak > duty.streak)
          BY <2>1, <3>1
    <3>4. QED BY <3>2, <3>3
  <2>3. CASE CleanupAttempt
    <3>1. /\ upload' = upload
          /\ \/ duty'.streak = 0 /\ duty'.result \in Successes
             \/ /\ duty'.streak = duty.streak + 1
                /\ \E class \in Classes :
                     /\ duty'.result = ErrorResult[class]
                     /\ duty'.delay = retryDelay(duty.streak + 1, class)
          BY <2>3, CleanupTurns
    <3>2. ASSUME duty'.streak > duty.streak, duty'.result = duty.result
          PROVE  duty'.delay >= duty.delay
      <4>1. PICK class \in Classes :
              /\ duty'.result = ErrorResult[class]
              /\ duty'.delay = retryDelay(duty.streak + 1, class)
            BY <2>1, <3>1, <3>2
      <4>2. duty.streak # 0
        <5>1. ErrorResult[class] \in ErrorResults
              BY ResultOfClass
        <5>2. duty.result \notin Successes
              BY <3>2, <4>1, <5>1 DEF ErrorResults, Successes
        <5>3. duty.result # NoValue
              BY <3>2, <4>1, <5>1, Zenon DEF ErrorResults, NoValue
        <5>4. QED BY <5>2, <5>3 DEF RetryInv, DutyColumns
      <4>3. PICK before \in Classes :
              /\ duty.result = ErrorResult[before]
              /\ duty.delay = retryDelay(duty.streak, before)
            BY <4>2 DEF RetryInv, DutyColumns
      <4>4. before = class
            BY <3>2, <4>1, <4>3, ResultOfClass
      <4>5. duty.streak \in Nat \ {0} /\ duty.streak + 1 \in Nat \ {0}
            BY <2>1, <4>2
      <4>6. /\ duty.delay \in 1..MaxDelay /\ duty'.delay \in 1..MaxDelay
            /\ duty.delay <= duty'.delay
            BY <4>1, <4>3, <4>4, <4>5, DelayBounded, DelayGrows
      <4>7. QED BY <4>6, RetryAssumption
    <3>3. ~(upload'.streak > upload.streak)
          BY <2>1, <3>1
    <3>4. QED BY <3>2, <3>3
  <2>4. QED BY <2>2, <2>3 DEF Next
<1>2. Spec => [][Grows]_vars
      BY <1>1, RetryInvariant, PTL DEF Spec
<1>3. QED BY <1>2 DEF BackoffGrows
=============================================================================
