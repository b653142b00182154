---------------------------- MODULE RetryPolicy ----------------------------
(***************************************************************************)
(* How failures are classified and when the failed work is tried again:    *)
(* the retry columns of one finalizing upload and of one tombstone, under  *)
(* any sequence of errors of S3 and of the database.  Delays are counted   *)
(* in seconds for the finalizer and in minutes for cleanup, so both double *)
(* from 1 up to 60.                                                        *)
(***************************************************************************)
EXTENDS Naturals

CONSTANTS
  MaxDelay,         \* a minute of seconds, an hour of minutes
  MaxShift,         \* the exponent is capped here
  Width,            \* a delay wraps around at 2^Width (64 bits, less the unit)
  ProtectiveDelay,  \* cleanupProtectiveInterval, in minutes
  MaxStreak         \* bound: failures in a row

ASSUME RetryAssumption ==
  /\ {MaxDelay, MaxShift, Width, ProtectiveDelay, MaxStreak} \subseteq Nat \ {0}
  /\ MaxDelay <= 2^MaxShift /\ MaxShift < Width

\* What ^ means, for the exponents that occur.
ASSUME PowerAssumption ==
  /\ 2^0 = 1
  /\ \A n \in 0..Width : 2^n \in Nat \ {0}
  /\ \A n \in 0..(Width - 1) : 2^(n + 1) = 2 * 2^n

Classes == {"transient", "ambiguous", "auth", "configuration", "other_deterministic"}

VARIABLES
  upload,   \* reconcile_failure_streak, _last_failure_class; the delay set
  duty,     \* failure_streak, last_result of the tombstone; the delay set
  failure   \* history: the last failure: was the call answered, was it a write,
            \* and its class

vars == <<upload, duty, failure>>

-----------------------------------------------------------------------------
(* Errors.  An S3 error may carry a code and a status of the answer; codes *)
(* and statuses that are treated alike are one value.  A call is one       *)
(* attempt: when the SDK has made several, the error is that of the last.  *)

Codes == {"none", "NoSuchKey", "AccessDenied", "NoSuchBucket", "SlowDown", "OtherCode"}
Statuses == {0, 400, 403, 404, 429, 500}

StorageError ==
  {e \in [kind : {"answer"}, code : Codes, status : Statuses] :
     e.code # "none" \/ e.status # 0}
    \cup [kind : {"context", "length", "network", "other"}, code : {"none"}, status : {0}]
NoError == [kind |-> "ok", code |-> "none", status |-> 0]

\* A database error: unknown registration, an SQLSTATE, or none of that.
DatabaseError ==
  {"registrationUnknown", "40003", "40001", "28000", "42P01", "otherSQLSTATE",
   "context", "network", "otherError"}
Answered(e) == e \in {"40001", "28000", "42P01", "otherSQLSTATE"}

storageObjectMissing(e) ==
  IF e.code # "none" THEN e.code = "NoSuchKey" ELSE e.status = 404

\* Faulty variant: a write that got no answer counts as transient.
UnansweredAsRead(write) == "transient"

\* The class of an S3 call that got no answer.
Unanswered(write) == IF write THEN "ambiguous" ELSE "transient"

\* The class of an error that nothing more is known about.
Unexplained(write) == IF write THEN "ambiguous" ELSE "other_deterministic"

\* The code decides before the status.
classifyStorageError(e, write) ==
  LET byCode == e.code \in {"AccessDenied", "NoSuchBucket", "SlowDown"}
  IN CASE e.kind \in {"context", "network"} -> Unanswered(write)
       [] e.kind = "length" -> "transient"
       [] e.code = "AccessDenied" -> "auth"
       [] e.code = "NoSuchBucket" -> "configuration"
       [] e.code = "SlowDown" -> "transient"
       [] ~byCode /\ e.status = 403 -> "auth"
       [] ~byCode /\ e.status \in {429, 500} -> "transient"
       [] OTHER -> Unexplained(write)

classifyDatabaseError(e, mutation) ==
  CASE e \in {"registrationUnknown", "40003"} -> "ambiguous"
    [] e = "40001" -> "transient"
    [] e = "28000" -> "auth"
    [] e = "42P01" -> "configuration"
    [] e = "otherSQLSTATE" -> "other_deterministic"
    [] e \in {"context", "network"} -> Unanswered(mutation)
    [] e = "otherError" -> Unexplained(mutation)

-----------------------------------------------------------------------------
(* Delays.                                                                 *)

Shifted(n) == (2^n) % (2^Width)
Capped(d) == IF d > MaxDelay THEN MaxDelay ELSE d

\* Faulty variant: the exponent is not capped.
retryDelayUncapped(streak, class) ==
  IF class \in {"auth", "configuration", "other_deterministic"}
  THEN MaxDelay
  ELSE Capped(Shifted(streak - 1))

\* Faulty variant: beyond the cap the exponent starts over.
retryDelayStartsOver(streak, class) ==
  IF class \in {"auth", "configuration", "other_deterministic"}
  THEN MaxDelay
  ELSE Capped(Shifted((streak - 1) % (MaxShift + 1)))

\* finalizerRetryDelay and cleanupRetryDelay; the streak is at least 1.
retryDelay(streak, class) ==
  IF class \in {"auth", "configuration", "other_deterministic"}
  THEN MaxDelay
  ELSE Capped(Shifted(IF streak - 1 < MaxShift THEN streak - 1 ELSE MaxShift))

-----------------------------------------------------------------------------
(* Attempts.                                                               *)

NoFailure == [answered |-> TRUE, write |-> FALSE, class |-> ""]

Init ==
  /\ upload = [streak |-> 0, class |-> "", delay |-> 0]
  /\ duty = [streak |-> 0, result |-> "", delay |-> 0]
  /\ failure = NoFailure

scheduleFinalizeRetry(answered, write, class) ==
  /\ upload.streak < MaxStreak
  /\ upload' = [streak |-> upload.streak + 1, class |-> class,
                delay |-> retryDelay(upload.streak + 1, class)]
  /\ failure' = [answered |-> answered, write |-> write, class |-> class]
  /\ UNCHANGED duty

\* A GET of staging or of the candidate, or the PUT, fails.  Staging that is
\* missing is transient, a candidate that is missing after its PUT ambiguous.
FinalizerStorageFails ==
  \/ \E e \in StorageError :
       IF storageObjectMissing(e)
       THEN \E class \in {"transient", "ambiguous"} : scheduleFinalizeRetry(TRUE, FALSE, class)
       ELSE scheduleFinalizeRetry(e.kind = "answer", FALSE, classifyStorageError(e, FALSE))
  \/ \E e \in StorageError :
       /\ e.kind # "length"
       /\ scheduleFinalizeRetry(e.kind = "answer", TRUE, classifyStorageError(e, TRUE))

FinalizerDatabaseFails ==
  \E e \in DatabaseError, mutation \in BOOLEAN :
    /\ e = "registrationUnknown" => mutation
    /\ scheduleFinalizeRetry(Answered(e), mutation, classifyDatabaseError(e, mutation))

ErrorResult ==
  [ transient |-> "transient_error", ambiguous |-> "ambiguous_error",
    auth |-> "auth_error", configuration |-> "configuration_error",
    other_deterministic |-> "other_deterministic_error" ]

\* Faulty variant: a DELETE of an absent object counts as a failure.
AbsentFails(e) == e.kind # "ok"

\* The DELETE found the object or S3 says that there is none.
DeleteFails(e) == e.kind # "ok" /\ ~storageObjectMissing(e)

\* The result and the class of a DELETE.
classifyCleanupDelete(e) ==
  LET class == IF DeleteFails(e) THEN classifyStorageError(e, TRUE) ELSE ""
  IN << CASE e.kind = "ok" -> "delete_succeeded"
          [] storageObjectMissing(e) -> "confirmed_absent"
          [] OTHER -> ErrorResult[class],
        class >>

\* A success resets the streak; the next attempt is a day away.
applyCleanupResult(e, result, class) ==
  /\ IF class = ""
     THEN /\ duty' = [streak |-> 0, result |-> result, delay |-> ProtectiveDelay]
          /\ failure' = NoFailure
     ELSE /\ duty.streak < MaxStreak
          /\ duty' = [streak |-> duty.streak + 1, result |-> result,
                      delay |-> retryDelay(duty.streak + 1, class)]
          /\ failure' = [answered |-> e.kind = "answer", write |-> TRUE, class |-> class]
  /\ UNCHANGED upload

CleanupAttempt ==
  \E e \in {x \in StorageError : x.kind # "length"} \cup {NoError} :
    applyCleanupResult(e, classifyCleanupDelete(e)[1], classifyCleanupDelete(e)[2])

Next == FinalizerStorageFails \/ FinalizerDatabaseFails \/ CleanupAttempt

Spec == Init /\ [][Next]_vars

-----------------------------------------------------------------------------
(* Properties.                                                             *)

\* Whatever sequence of errors occurs, the retry columns pass the constraints
\* uploads_reconcile_failure_check and cleanup_tombstones_attempt_shape_check,
\* so the transaction that schedules the retry does not itself fail; the class
\* is also a key of the fixed metric map that is incremented with it.
RetryColumnsStorable ==
  /\ IF upload.streak = 0 THEN upload.class = "" ELSE upload.class \in Classes
  /\ IF duty.streak = 0
     THEN duty.result \in {"", "delete_succeeded", "confirmed_absent"}
     ELSE duty.result \in {"transient_error", "ambiguous_error", "auth_error",
                           "configuration_error", "other_deterministic_error"}

\* However long failures go on, a retry is neither immediate (the shift does
\* not wrap around to zero) nor put off for more than a minute or an hour.
BackoffBounded ==
  /\ upload.streak > 0 => upload.delay \in 1..MaxDelay
  /\ duty.streak > 0 => duty.delay \in 1..MaxDelay

\* Failure after failure of one class, the delay never shrinks.
BackoffGrows ==
  [][/\ upload'.streak > upload.streak /\ upload'.class = upload.class =>
          upload'.delay >= upload.delay
     /\ duty'.streak > duty.streak /\ duty'.result = duty.result =>
          duty'.delay >= duty.delay]_vars

\* A write that got no answer may have been applied: it is ambiguous, never
\* put among the deterministic failures that are retried at the slowest rate.
\* This is about the last attempt of a call; an attempt before it whose answer
\* was lost is not seen by classifyStorageError.
LostAnswerAmbiguous ==
  failure.write /\ ~failure.answered => failure.class = "ambiguous"
=============================================================================
