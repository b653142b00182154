----------------------------- MODULE Finalizer -----------------------------
(***************************************************************************)
(* The finalizer loop: claim a due upload, look for a candidate that is    *)
(* already stored, otherwise capture and validate staging, track the       *)
(* candidate, PUT it, GET it back, and commit a terminal state or schedule *)
(* a retry.  One process runs one finalizer; several finalizers stand for  *)
(* processes that overlap during a restart.                                *)
(*                                                                         *)
(* fin[f] holds the local variables of processNext: the claim (upload,     *)
(* token, expect for a renewal whose commit is unknown), the candidates    *)
(* loaded and still to look at, the image at hand, what was observed       *)
(* before the staging read, and the rejection reason.                      *)
(***************************************************************************)
EXTENDS Store

CONSTANTS
  Finalizers,
  Lease,           \* FINALIZE_CLAIM_LEASE
  RetryDelays      \* the values finalizerRetryDelay may return

ASSUME FinalizerAssumption ==
  /\ Lease \in Nat \ {0}
  /\ RetryDelays \subseteq Nat \ {0}

VARIABLE fin

FinPCs ==
  {"idle", "confirmClaim", "load", "renew", "confirmRenew", "getCand",
   "observe", "getStaging", "register", "confirmRegister", "put", "verify",
   "ready", "confirmReady", "reject", "confirmRejected",
   "expire", "confirmExpired", "retry"}

FinRow ==
  [ pc       : FinPCs,
    upload   : Uploads \cup {Null},
    token    : Tokens \cup {Null},
    next     : {"getCand", "observe", "put", "verify", Null}, \* after the renewal
    expect   : Time,
    cands    : SUBSET Images,
    todo     : SUBSET Images,
    img      : Images \cup {Null},
    horizon  : Time,
    eligible : BOOLEAN,
    reason   : RejectReasons \cup {Null} ]

FinIdle ==
  [ pc |-> "idle", upload |-> Null, token |-> Null, next |-> Null, expect |-> 0,
    cands |-> {}, todo |-> {}, img |-> Null, horizon |-> 0, eligible |-> FALSE,
    reason |-> Null ]

FinTypeOK == fin \in [Finalizers -> FinRow]
FinInit == fin = [f \in Finalizers |-> FinIdle]

-----------------------------------------------------------------------------
(* Control.                                                                *)

At(f, pc) == fin[f].pc = pc
Goto(f, pc) == fin' = [fin EXCEPT ![f].pc = pc]
Stop(f) == fin' = [fin EXCEPT ![f] = FinIdle]

\* Renew the claim before the next S3 operation.
RenewThen(f, next) == fin' = [fin EXCEPT ![f].pc = "renew", ![f].next = next]

\* What follows a step of the candidate loop: the next candidate or staging.
NextCandidate(todo) == IF todo = {} THEN "observe" ELSE "getCand"

RejectWith(f, reason) ==
  fin' = [fin EXCEPT ![f].pc = "reject", ![f].reason = reason]

Row(f) == uploads[fin[f].upload]

\* The row is finalizing under this worker's token ...
OwnsClaim(f) == Row(f).state = "finalizing" /\ Row(f).claim = fin[f].token

\* ... and the lease has not run out (lockFinalizeParent returns active).
Active(f) == OwnsClaim(f) /\ now < Row(f).claimExp

\* A transaction on the upload at hand that writes its row only.
CommitRow(f, row, done, unknown) ==
  Commit(fin[f].upload, WriteRow(fin[f].upload, row), done, unknown)

-----------------------------------------------------------------------------
(* Claim, load and renew.                                                  *)

\* Faulty variants: the running lease of another worker is ignored; a claim
\* whose lease has run out is not taken over.
ClaimDueIgnoringLease(u) ==
  uploads[u].state = "finalizing" /\ uploads[u].due <= now
ClaimDueUnclaimed(u) ==
  uploads[u].state = "finalizing" /\ uploads[u].due <= now /\ uploads[u].claim = Null

ClaimDue(u) ==
  /\ uploads[u].state = "finalizing"
  /\ uploads[u].due <= now
  /\ uploads[u].claim = Null \/ uploads[u].claimExp <= now

\* A UUID nobody holds: the row and the workers are the places tokens live.
FreshClaim(u, t) ==
  t # uploads[u].claim /\ \A g \in Finalizers : fin[g].token # t

\* FOR UPDATE SKIP LOCKED: rows locked by other transactions are skipped, so
\* any due row may come.
claimNextFinalizing(f, u, t) ==
  /\ At(f, "idle")
  /\ ~Locked(u)
  /\ ClaimDue(u)
  /\ FreshClaim(u, t)
  /\ LET claimed(pc) == fin' = [fin EXCEPT ![f].pc = pc, ![f].upload = u,
                                           ![f].token = t]
     IN Commit(u, WriteRow(u, [uploads[u] EXCEPT !.claim = t,
                                                 !.claimExp = now + Lease]),
               claimed("load"), claimed("confirmClaim"))
  /\ UNCHANGED <<now, bucket, caps>>

confirmFinalizeClaim(f) ==
  /\ At(f, "confirmClaim")
  /\ \/ Active(f) /\ Goto(f, "load") /\ UNCHANGED <<faults, db>>
     \/ ~Active(f) /\ Stop(f) /\ UNCHANGED <<faults, db>>
     \/ Fails(Stop(f))
  /\ UNCHANGED <<now, bucket, caps>>

\* The join with the claim returns no rows when the claim has been lost.
loadTrackedCandidates(f) ==
  /\ At(f, "load")
  /\ \/ LET cands == IF Active(f) THEN candidates[fin[f].upload] ELSE {}
        IN /\ fin' = [fin EXCEPT ![f].pc = "renew",
                                 ![f].next = NextCandidate(cands),
                                 ![f].cands = cands,
                                 ![f].todo = cands]
           /\ UNCHANGED <<faults, db>>
     \/ Fails(Goto(f, "retry"))
  /\ UNCHANGED <<now, bucket, caps>>

renewFinalizeClaim(f) ==
  /\ At(f, "renew")
  /\ Transaction(fin[f].upload,
       \/ /\ Active(f)
          /\ CommitRow(f, [Row(f) EXCEPT !.claimExp = now + Lease],
                       Goto(f, fin[f].next),
                       fin' = [fin EXCEPT ![f].pc = "confirmRenew",
                                          ![f].expect = now + Lease])
       \/ ~Active(f) /\ Stop(f) /\ UNCHANGED <<faults, db>>,
       Goto(f, "retry"))
  /\ UNCHANGED <<now, bucket, caps>>

confirmFinalizeRenewal(f) ==
  /\ At(f, "confirmRenew")
  /\ LET renewed == Active(f) /\ Row(f).claimExp >= fin[f].expect
     IN \/ renewed /\ Goto(f, fin[f].next) /\ UNCHANGED <<faults, db>>
        \/ ~renewed /\ Stop(f) /\ UNCHANGED <<faults, db>>
        \/ Fails(Goto(f, "retry"))
  /\ UNCHANGED <<now, bucket, caps>>

-----------------------------------------------------------------------------
(* Reads of S3, validation, candidate registration and PUT.                *)

Object(f, k) == objects[fin[f].upload][k]

\* A GET of a tracked candidate.  A read may return bytes whose digest is not
\* the tracked one; the service then rejects the upload.
getCandidate(f) ==
  /\ At(f, "getCand")
  /\ \/ \E c \in fin[f].todo :
          /\ UNCHANGED faults
          /\ \/ /\ Object(f, c) = Null
                /\ fin' = [fin EXCEPT ![f].pc = "renew",
                                      ![f].next = NextCandidate(fin[f].todo \ {c}),
                                      ![f].todo = @ \ {c}]
             \/ /\ Object(f, c) = c
                /\ fin' = [fin EXCEPT ![f].pc = "ready", ![f].img = c]
     \/ Fault /\ RejectWith(f, "internal_invariant")
     \/ Fault /\ Goto(f, "retry")
  /\ UNCHANGED <<now, db, bucket, caps>>

\* Faulty variant: the write horizon may still be running.
MissingIsFinalAtDeadline(f) == now >= Row(f).deadline

\* Would a missing staging object be final?
MissingIsFinal(f) == now >= Row(f).deadline /\ now >= Row(f).horizon

\* Read the horizon before the GET of staging.
prepareMissingObservation(f) ==
  /\ At(f, "observe")
  /\ Transaction(fin[f].upload,
       \/ /\ Active(f)
          /\ fin' = [fin EXCEPT
               ![f].pc = "getStaging",
               ![f].horizon = Row(f).horizon,
               ![f].eligible = MissingIsFinal(f)]
          /\ UNCHANGED <<faults, db>>
       \/ ~Active(f) /\ Stop(f) /\ UNCHANGED <<faults, db>>,
       Goto(f, "retry"))
  /\ UNCHANGED <<now, bucket, caps>>

\* GET of staging and validateImageBytes, which finds fault with the input or
\* with the decoder.
captureStaging(f) ==
  /\ At(f, "getStaging")
  /\ \/ /\ UNCHANGED faults
        /\ \/ /\ Object(f, Staging) = Null
              /\ Goto(f, IF fin[f].eligible THEN "expire" ELSE "retry")
           \/ /\ Object(f, Staging) \in Junk
              /\ \E reason \in RejectReasons : RejectWith(f, reason)
           \/ /\ Object(f, Staging) \in Images
              /\ fin' = [fin EXCEPT ![f].pc = "register",
                                    ![f].img = Object(f, Staging)]
     \/ Fault /\ Goto(f, "retry")
  /\ UNCHANGED <<now, db, bucket, caps>>

\* The metadata of a candidate is a function of its bytes, so a stored row
\* with the same digest is the same candidate.
registerCandidate(f) ==
  /\ At(f, "register")
  /\ Transaction(fin[f].upload,
       \/ /\ Active(f)
          /\ Commit(fin[f].upload,
                    WriteOf(fin[f].upload, Row(f),
                            candidates[fin[f].upload] \cup {fin[f].img}, {}),
                    RenewThen(f, "put"),
                    Goto(f, "confirmRegister"))
       \/ ~Active(f) /\ Stop(f) /\ UNCHANGED <<faults, db>>,
       Goto(f, "retry"))
  /\ UNCHANGED <<now, bucket, caps>>

\* Faulty variant: a registration of unknown outcome is taken to have worked.
candidateAssumedTracked(f) ==
  /\ At(f, "confirmRegister")
  /\ RenewThen(f, "put")
  /\ UNCHANGED storeVars

candidateTracked(f) ==
  /\ At(f, "confirmRegister")
  /\ LET tracked == fin[f].img \in candidates[fin[f].upload]
     IN \/ tracked /\ RenewThen(f, "put") /\ UNCHANGED <<faults, db>>
        \/ ~tracked /\ Goto(f, "retry") /\ UNCHANGED <<faults, db>>
        \/ Fails(Goto(f, "retry"))
  /\ UNCHANGED <<now, bucket, caps>>

\* Whatever the PUT answers, the claim is renewed and the object read back.
putCandidateObject(f) ==
  /\ At(f, "put")
  /\ S3Write(fin[f].upload, fin[f].img, fin[f].img,
             RenewThen(f, "verify"), RenewThen(f, "verify"))
  /\ UNCHANGED <<now, db, caps>>

\* Faulty variant: the candidate is published without reading it back.
publishUnverified(f) ==
  /\ At(f, "verify")
  /\ Goto(f, "ready")
  /\ UNCHANGED storeVars

verifyCandidate(f) ==
  /\ At(f, "verify")
  /\ \/ Object(f, fin[f].img) = Null /\ Goto(f, "retry") /\ UNCHANGED faults
     \/ Object(f, fin[f].img) = fin[f].img /\ Goto(f, "ready") /\ UNCHANGED faults
     \/ Fault /\ RejectWith(f, "internal_invariant")
     \/ Fault /\ Goto(f, "retry")
  /\ UNCHANGED <<now, db, bucket, caps>>

-----------------------------------------------------------------------------
(* Terminal transitions and retries.                                       *)

\* Faulty variant: the claim is not released.
TerminateKeepingClaim(f, row, selected) ==
  WriteOf(fin[f].upload, [row EXCEPT !.due = 0], candidates[fin[f].upload],
          terminalTombstones(fin[f].upload, selected))

\* The terminal transition of the locked row, with its deletion duties.
Terminate(f, row, selected) ==
  WriteOf(fin[f].upload, [row EXCEPT !.due = 0, !.claim = Null, !.claimExp = 0],
          candidates[fin[f].upload], terminalTombstones(fin[f].upload, selected))

TerminateConflict(f, selected) ==
  TombstonesConflict(fin[f].upload, terminalTombstones(fin[f].upload, selected))

transitionFinalizeReady(f) ==
  /\ At(f, "ready")
  /\ LET img == fin[f].img
         sound == /\ img \in candidates[fin[f].upload]
                  /\ img \notin tombstoned[fin[f].upload]
                  /\ ~TerminateConflict(f, img)
         ready == Terminate(f, [Row(f) EXCEPT !.state = "ready", !.final = img], img)
     IN Transaction(fin[f].upload,
          \/ /\ Active(f) /\ sound
             /\ Commit(fin[f].upload, ready, Stop(f), Goto(f, "confirmReady"))
          \/ Active(f) /\ ~sound /\ Goto(f, "retry") /\ UNCHANGED <<faults, db>>
          \/ ~Active(f) /\ Stop(f) /\ UNCHANGED <<faults, db>>,
          Goto(f, "retry"))
  /\ UNCHANGED <<now, bucket, caps>>

transitionFinalizeRejected(f) ==
  /\ At(f, "reject")
  /\ LET conflict == TerminateConflict(f, Null)
         rejected == Terminate(f, [Row(f) EXCEPT !.state = "rejected",
                                                 !.reason = fin[f].reason], Null)
     IN Transaction(fin[f].upload,
          \/ /\ Active(f) /\ ~conflict
             /\ Commit(fin[f].upload, rejected, Stop(f), Goto(f, "confirmRejected"))
          \/ Active(f) /\ conflict /\ Goto(f, "retry") /\ UNCHANGED <<faults, db>>
          \/ ~Active(f) /\ Stop(f) /\ UNCHANGED <<faults, db>>,
          Goto(f, "retry"))
  /\ UNCHANGED <<now, bucket, caps>>

\* Unlike the other two transitions a stale claim leads to retry, which then
\* finds the claim lost.
transitionFinalizeExpiredMissing(f) ==
  /\ At(f, "expire")
  /\ LET expirable == /\ Active(f)
                      /\ Row(f).horizon = fin[f].horizon
                      /\ now >= Row(f).deadline
                      /\ now >= Row(f).horizon
                      /\ candidates[fin[f].upload] = fin[f].cands
                      /\ ~TerminateConflict(f, Null)
         expired == Terminate(f, [Row(f) EXCEPT
                                    !.state = "expired",
                                    !.reason = "staging_missing_after_write_window"],
                              Null)
     IN Transaction(fin[f].upload,
          \/ expirable /\ Commit(fin[f].upload, expired, Stop(f), Goto(f, "confirmExpired"))
          \/ ~expirable /\ Goto(f, "retry") /\ UNCHANGED <<faults, db>>,
          Goto(f, "retry"))
  /\ UNCHANGED <<now, bucket, caps>>

\* After an unknown commit the row tells whether the transition is durable.
TransitionDurable(f) ==
  CASE At(f, "confirmReady") ->
         Row(f).state = "ready" /\ Row(f).final = fin[f].img
    [] At(f, "confirmRejected") ->
         Row(f).state = "rejected" /\ Row(f).reason = fin[f].reason
    [] At(f, "confirmExpired") ->
         /\ Row(f).state = "expired"
         /\ Row(f).reason = "staging_missing_after_write_window"
         /\ Row(f).horizon = fin[f].horizon
         /\ Cardinality(candidates[fin[f].upload]) = Cardinality(fin[f].cands)
         /\ {Staging} \cup candidates[fin[f].upload] \subseteq tombstoned[fin[f].upload]
         /\ duty[fin[f].upload][Staging].notBefore = fin[f].horizon

confirmTerminal(f) ==
  /\ fin[f].pc \in {"confirmReady", "confirmRejected", "confirmExpired"}
  /\ \/ TransitionDurable(f) /\ Stop(f) /\ UNCHANGED <<faults, db>>
     \/ ~TransitionDurable(f) /\ Goto(f, "retry") /\ UNCHANGED <<faults, db>>
     \/ Fails(Goto(f, "retry"))
  /\ UNCHANGED <<now, bucket, caps>>

\* The confirmation of an unknown commit only decides on a metric.
scheduleFinalizeRetry(f) ==
  /\ At(f, "retry")
  /\ Transaction(fin[f].upload,
       \/ /\ Active(f)
          /\ \E d \in RetryDelays :
               CommitRow(f, [Row(f) EXCEPT !.due = now + d, !.claim = Null, !.claimExp = 0],
                         Stop(f), Stop(f))
       \/ ~Active(f) /\ Stop(f) /\ UNCHANGED <<faults, db>>,
       Stop(f))
  /\ UNCHANGED <<now, bucket, caps>>

\* The process dies and a new one starts with an idle finalizer.
CrashFinalizer(f) ==
  /\ ~At(f, "idle")
  /\ Fault
  /\ Stop(f)
  /\ UNCHANGED <<now, db, bucket, caps>>

FinalizerStep(f) ==
  \/ \E u \in Uploads, t \in Tokens : claimNextFinalizing(f, u, t)
  \/ confirmFinalizeClaim(f)
  \/ loadTrackedCandidates(f)
  \/ renewFinalizeClaim(f)
  \/ confirmFinalizeRenewal(f)
  \/ getCandidate(f)
  \/ prepareMissingObservation(f)
  \/ captureStaging(f)
  \/ registerCandidate(f)
  \/ candidateTracked(f)
  \/ putCandidateObject(f)
  \/ verifyCandidate(f)
  \/ transitionFinalizeReady(f)
  \/ transitionFinalizeRejected(f)
  \/ transitionFinalizeExpiredMissing(f)
  \/ confirmTerminal(f)
  \/ scheduleFinalizeRetry(f)

FinalizerNext == \E f \in Finalizers : FinalizerStep(f) \/ CrashFinalizer(f)
=============================================================================
