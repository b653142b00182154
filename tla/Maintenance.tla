---------------------------- MODULE Maintenance ----------------------------
(***************************************************************************)
(* The maintenance loop: a sweep that expires pending uploads whose        *)
(* deadline has passed, then a sweep that executes deletion duties, then a *)
(* wait.  Both sweeps work on a bounded batch and stop at the first error. *)
(* jan[j] holds the local variables of one loop: what is left of the       *)
(* batch, the reservation, and the pending row whose expiry is in doubt.   *)
(***************************************************************************)
EXTENDS Store

CONSTANTS
  Janitors,            \* maintenance loops (of processes that overlap)
  ExpiryBatch,         \* expiryBatchSize
  CleanupBatch,        \* cleanupBatchSize
  ReservationLease,    \* cleanupReservationLease
  ProtectiveInterval,  \* cleanupProtectiveInterval
  CleanupDelays        \* the values cleanupRetryDelay may return

ASSUME MaintenanceAssumption ==
  /\ ExpiryBatch \in Nat \ {0}
  /\ CleanupBatch \in Nat \ {0}
  /\ ReservationLease \in Nat \ {0}
  /\ ProtectiveInterval \in Nat \ {0}
  /\ CleanupDelays \subseteq Nat \ {0}

VARIABLE jan

JanPCs == {"wait", "expiry", "confirmExpired", "reserve", "confirmReservation",
           "delete", "apply"}

JanRow ==
  [ pc      : JanPCs,
    left    : Nat,
    upload  : Uploads \cup {Null},
    horizon : Time,                  \* of the row whose expiry is in doubt
    key     : Keys \cup {Null},
    token   : Tokens \cup {Null},
    deleted : BOOLEAN ]              \* the DELETE was acknowledged

JanWaits ==
  [ pc |-> "wait", left |-> 0, upload |-> Null, horizon |-> 0, key |-> Null,
    token |-> Null, deleted |-> FALSE ]

JanTypeOK == jan \in [Janitors -> JanRow]
JanInit == jan = [j \in Janitors |-> JanWaits]

JanAt(j, pc) == jan[j].pc = pc

\* Faulty variant: off by one, the last entry of the batch is not processed.
ExpireMoreButOne(j, n) ==
  jan' = [jan EXCEPT ![j] = IF n > 1
                            THEN [JanWaits EXCEPT !.pc = "expiry", !.left = n]
                            ELSE [JanWaits EXCEPT !.pc = "reserve", !.left = CleanupBatch]]

\* Go on with n entries left in the batch; the last one ends the sweep.
ExpireMore(j, n) ==
  jan' = [jan EXCEPT ![j] = IF n > 0
                            THEN [JanWaits EXCEPT !.pc = "expiry", !.left = n]
                            ELSE [JanWaits EXCEPT !.pc = "reserve", !.left = CleanupBatch]]
CleanMore(j, n) ==
  jan' = [jan EXCEPT ![j] = IF n > 0
                            THEN [JanWaits EXCEPT !.pc = "reserve", !.left = n]
                            ELSE JanWaits]
EndExpiry(j) == ExpireMore(j, 0)
EndSweep(j) == CleanMore(j, 0)

-----------------------------------------------------------------------------
(* Expiry sweep.                                                           *)

\* The timer fires.
runMaintenanceLoop(j) ==
  /\ JanAt(j, "wait")
  /\ ExpireMore(j, ExpiryBatch)
  /\ UNCHANGED storeVars

\* FOR UPDATE SKIP LOCKED.
ExpiryDue(u) ==
  ~Locked(u) /\ uploads[u].state = "pending" /\ uploads[u].deadline <= now

expireNextPendingUpload(j) ==
  /\ JanAt(j, "expiry")
  /\ \/ \E u \in Uploads :
          /\ ExpiryDue(u)
          /\ PendingExpirable(u)
          /\ Commit(u, transitionPendingExpiredLocked(u),
                    ExpireMore(j, jan[j].left - 1),
                    jan' = [jan EXCEPT ![j].pc = "confirmExpired",
                                       ![j].upload = u,
                                       ![j].horizon = uploads[u].horizon])
     \/ /\ \A u \in Uploads : ~ExpiryDue(u)
        /\ EndExpiry(j)
        /\ UNCHANGED <<faults, db>>
     \/ Fails(EndExpiry(j))
  /\ UNCHANGED <<now, bucket, caps>>

\* The row shows the expiry, whoever committed it.
ExpiryConfirmed(j) ==
  LET u == jan[j].upload
  IN /\ uploads[u].state = "expired"
     /\ uploads[u].reason = "upload_deadline_elapsed"
     /\ uploads[u].horizon = jan[j].horizon
     /\ Staging \in tombstoned[u]
     /\ duty[u][Staging].notBefore = jan[j].horizon

confirmPendingExpired(j) ==
  /\ JanAt(j, "confirmExpired")
  /\ \/ ExpiryConfirmed(j) /\ ExpireMore(j, jan[j].left - 1) /\ UNCHANGED <<faults, db>>
     \/ ~ExpiryConfirmed(j) /\ EndExpiry(j) /\ UNCHANGED <<faults, db>>
     \/ Fails(EndExpiry(j))
  /\ UNCHANGED <<now, bucket, caps>>

-----------------------------------------------------------------------------
(* Cleanup sweep.                                                          *)

\* A duty is due; a selected key is never deleted, whatever its tombstone says.
DutyDue(u, k) ==
  /\ k \in tombstoned[u]
  /\ duty[u][k].notBefore <= now
  /\ duty[u][k].next <= now
  /\ duty[u][k].token = Null \/ duty[u][k].expires <= now
  /\ uploads[u].final # k

\* Faulty variant: duties are taken in no particular order.
AnyDuty(j, u, k) == TRUE

\* ORDER BY next_attempt_at ... FOR UPDATE SKIP LOCKED: the duty that has been
\* due longest, or a later one while another loop may have it locked.
OldestDuty(j, u, k) ==
  \/ \A v \in Uploads, l \in Keys : DutyDue(v, l) => duty[u][k].next <= duty[v][l].next
  \/ \E i \in Janitors \ {j} : ~JanAt(i, "wait")

FreshReservation(u, k, t) ==
  t # duty[u][k].token /\ \A i \in Janitors : jan[i].token # t

SetDuty(u, k, row) ==
  /\ duty' = [duty EXCEPT ![u][k] = row]
  /\ UNCHANGED <<uploads, candidates, tombstoned, doubt>>

\* The commit of a transaction on one tombstone.  When it is in doubt the row
\* stays locked and both sweeps skip it, which is the same as a duty that is
\* not picked; so the transaction is applied or rolled back at once, and a
\* read-back that came too early is one that failed.
CommitDuty(u, k, row, done, unknown) ==
  \/ SetDuty(u, k, row) /\ done /\ UNCHANGED faults
  \/ Fault /\ SetDuty(u, k, row) /\ unknown
  \/ Fault /\ UNCHANGED db /\ unknown

\* The loop goes on with the duty it has reserved.
HoldDuty(j, u, k, t, pc) ==
  jan' = [jan EXCEPT ![j] = [@ EXCEPT !.pc = pc, !.upload = u, !.key = k, !.token = t]]

reserveNextCleanup(j) ==
  /\ JanAt(j, "reserve")
  /\ \/ \E u \in Uploads, k \in Keys, t \in Tokens :
          /\ DutyDue(u, k)
          /\ OldestDuty(j, u, k)
          /\ FreshReservation(u, k, t)
          /\ CommitDuty(u, k, [duty[u][k] EXCEPT
                                 !.token = t, !.expires = now + ReservationLease],
                        HoldDuty(j, u, k, t, "delete"),
                        HoldDuty(j, u, k, t, "confirmReservation"))
     \/ /\ \A u \in Uploads, k \in Keys : ~DutyDue(u, k)
        /\ EndSweep(j)
        /\ UNCHANGED <<faults, db>>
     \/ Fails(EndSweep(j))
  /\ UNCHANGED <<now, bucket, caps>>

confirmCleanupReservation(j) ==
  /\ JanAt(j, "confirmReservation")
  /\ LET u == jan[j].upload
         k == jan[j].key
         reserved == /\ k \in tombstoned[u]
                     /\ duty[u][k].token = jan[j].token
                     /\ now < duty[u][k].expires
                     /\ uploads[u].final # k
     IN \/ reserved /\ jan' = [jan EXCEPT ![j].pc = "delete"] /\ UNCHANGED <<faults, db>>
        \/ ~reserved /\ EndSweep(j) /\ UNCHANGED <<faults, db>>
        \/ Fails(EndSweep(j))
  /\ UNCHANGED <<now, bucket, caps>>

\* The reservation is not checked again before the DELETE.
deleteS3Object(j) ==
  /\ JanAt(j, "delete")
  /\ LET answered(ok) == jan' = [jan EXCEPT ![j].pc = "apply", ![j].deleted = ok]
     IN S3Write(jan[j].upload, jan[j].key, Null, answered(TRUE), answered(FALSE))
  /\ UNCHANGED <<now, db, caps>>

\* The result is applied while the reservation has not been taken over, even
\* when it has expired.  The confirmation of an unknown commit only decides
\* on a metric and on going on with the batch.
applyCleanupResult(j) ==
  /\ JanAt(j, "apply")
  /\ LET u == jan[j].upload
         k == jan[j].key
         delays == IF jan[j].deleted THEN {ProtectiveInterval} ELSE CleanupDelays
         more == CleanMore(j, jan[j].left - 1)
     IN \/ /\ duty[u][k].token = jan[j].token
           /\ \E d \in delays :
                CommitDuty(u, k, [duty[u][k] EXCEPT
                                    !.next = now + d, !.token = Null, !.expires = 0],
                           more, more \/ EndSweep(j))
        \/ duty[u][k].token # jan[j].token /\ more /\ UNCHANGED <<faults, db>>
        \/ Fails(EndSweep(j))
  /\ UNCHANGED <<now, bucket, caps>>

CrashJanitor(j) ==
  /\ ~JanAt(j, "wait")
  /\ Fault
  /\ EndSweep(j)
  /\ UNCHANGED <<now, db, bucket, caps>>

JanitorStep(j) ==
  \/ runMaintenanceLoop(j)
  \/ expireNextPendingUpload(j)
  \/ confirmPendingExpired(j)
  \/ reserveNextCleanup(j)
  \/ confirmCleanupReservation(j)
  \/ deleteS3Object(j)
  \/ applyCleanupResult(j)

MaintenanceNext == \E j \in Janitors : JanitorStep(j) \/ CrashJanitor(j)
=============================================================================
