---------------------------- MODULE MediaUpload ----------------------------
(***************************************************************************)
(* The service: request handlers, finalizers and maintenance loops over    *)
(* one database and one bucket, with clients and the clock.                *)
(***************************************************************************)
EXTENDS Api, Finalizer, Maintenance

vars == <<storeVars, apiVars, fin, jan>>

Init == StoreInit /\ ApiInit /\ FinInit /\ JanInit

ServiceNext ==
  \/ EnvironmentNext /\ UNCHANGED <<apiVars, fin, jan>>
  \/ ApiNext /\ UNCHANGED <<fin, jan>>
  \/ FinalizerNext /\ UNCHANGED <<apiVars, jan>>
  \/ MaintenanceNext /\ UNCHANGED <<apiVars, fin>>

Next ==
  \/ ServiceNext
  \/ (\E u \in Uploads : ClientReads(u)) /\ UNCHANGED <<fin, jan>>

Spec == Init /\ [][Next]_vars

\* Both loops poll for as long as the process runs, time passes, a request in
\* flight is applied in the end, and the database ends every transaction.
\* Nothing is assumed of clients or of the handlers.
Fairness ==
  /\ WF_vars(UNCHANGED <<apiVars, fin, jan>> /\ Tick)
  /\ WF_vars(UNCHANGED <<apiVars, fin, jan>> /\ \E m \in inflight : Land(m))
  /\ \A u \in Uploads : WF_vars(UNCHANGED <<apiVars, fin, jan>> /\ Settle(u))
  /\ \A f \in Finalizers : WF_vars(UNCHANGED <<apiVars, jan>> /\ FinalizerStep(f))
  /\ \A j \in Janitors : WF_vars(UNCHANGED <<apiVars, fin>> /\ JanitorStep(j))

-----------------------------------------------------------------------------
(* Safety.                                                                 *)

\* Every variable has its type: rows, worker registers, object contents.
TypeOK == StoreTypeOK /\ ApiTypeOK /\ FinTypeOK /\ JanTypeOK

\* The transactions of the service keep within these constraints of
\* migrations/0001_initial.sql: a claim exists only on a finalizing row, a
\* final key exactly on a ready row and names a tracked candidate, replays
\* extend the write horizon by at most the presign time beyond the deadline,
\* tombstones name staging or tracked candidates and are never due before they
\* may be executed.  Nothing in the model tests any of this, as the database
\* does; a violation would be a transaction that fails for ever.  The other
\* half of uploads_write_horizon_check, that the horizon lies after the
\* creation, is not among them: an insert whose PUT has expired meanwhile does
\* run into it, and createOrReplayUpload has that refusal.
SchemaHolds ==
  \A u \in Uploads :
    LET row == uploads[u] IN
    /\ (row.claim = Null) = (row.claimExp = 0)
    /\ row.claim # Null => row.state = "finalizing"
    /\ (row.final # Null) = (row.state = "ready")
    /\ row.final # Null => row.final \in candidates[u]
    /\ row.state # "none" => row.horizon <= row.deadline + PresignTTL
    /\ row.state = "rejected" <=> row.reason \in RejectReasons
    /\ row.state = "expired" <=> row.reason \in ExpiryReasons
    /\ row.reason = "staging_missing_after_write_window" =>
         now >= row.deadline /\ now >= row.horizon
    /\ tombstoned[u] \subseteq {Staging} \cup candidates[u]
    /\ \A k \in tombstoned[u] :
         /\ duty[u][k].next >= duty[u][k].notBefore
         /\ (duty[u][k].token = Null) = (duty[u][k].expires = 0)

\* A ready upload can always be read: its final key holds the very image that
\* was verified, no tombstone names it, and no DELETE of it is about to be
\* sent or on its way, whatever other finalizers and sweeps still do.
ReadyContentDurable ==
  \A u \in Uploads : uploads[u].state = "ready" =>
    LET k == uploads[u].final IN
    /\ objects[u][k] = k
    /\ k \notin tombstoned[u]
    /\ \A m \in inflight : m.upload = u /\ m.key = k => m.content # Null
    /\ \A j \in Janitors : ~(JanAt(j, "delete") /\ jan[j].upload = u /\ jan[j].key = k)

\* The finalizer has an image at hand that it will PUT.
WillPut(f) ==
  \/ fin[f].pc = "put"
  \/ fin[f].pc \in {"renew", "confirmRenew"} /\ fin[f].next = "put"

\* Candidate keys of upload u that hold bytes or may come to hold bytes.
Written(u) ==
  {k \in Images :
     \/ objects[u][k] # Null
     \/ \E m \in inflight : m.upload = u /\ m.key = k /\ m.content # Null
     \/ \E f \in Finalizers : WillPut(f) /\ fin[f].upload = u /\ fin[f].img = k}

\* Nothing is left in the bucket for ever: a candidate is tracked before its
\* bytes can exist, and once the upload is terminal, staging and every
\* candidate but the published one have a tombstone, also when a finalizer
\* that lost its claim is about to PUT or its PUT arrives late.
NoOrphanedObject ==
  \A u \in Uploads :
    /\ Written(u) \subseteq candidates[u]
    /\ uploads[u].state \in Terminal =>
         {Staging} \cup (candidates[u] \ {uploads[u].final}) \subseteq tombstoned[u]

\* Staging is not deleted under a client that may still PUT: every capability
\* handed out expires within the row's write horizon, which the tombstone of
\* staging waits for, also for capabilities whose commit was in doubt.
CapabilityCovered ==
  \A u \in Uploads :
    /\ caps[u] <= uploads[u].horizon
    /\ Staging \in tombstoned[u] => caps[u] <= duty[u][Staging].notBefore
    /\ \A j \in Janitors :
         JanAt(j, "delete") /\ jan[j].upload = u /\ jan[j].key = Staging =>
           caps[u] <= now

\* A capability names the upload the client was told: when two creates race on
\* one idempotency key, or a commit is in doubt, no client receives a PUT for
\* an upload id that has no row (its object would never be cleaned up), nor
\* for an upload that was declared otherwise than the client did.
CapabilityNamesRow ==
  \A u \in Uploads : \A h \in handed[u] :
    uploads[u].id = h[1] /\ uploads[u].declared = h[2]

\* An upload is written off as missing only when no bytes arrived in staging
\* before the write horizon: the emptiness was observed after the last moment
\* at which a capability was valid.
NoAcceptedBytesExpired ==
  \A u \in Uploads :
    uploads[u].reason = "staging_missing_after_write_window" => ~early[u]

\* An observation that makes a missing object final cannot go stale: until
\* the claim is lost, no replay moves the horizon that was read before the
\* GET of staging.
ObservedHorizonStable ==
  \A f \in Finalizers :
    /\ fin[f].pc \in {"getStaging", "expire"}
    /\ fin[f].eligible
    /\ Row(f).state = "finalizing"
    => Row(f).horizon = fin[f].horizon /\ now >= Row(f).horizon

\* What a client was told stays true, also by a handler that recovered from
\* an unknown commit while the transaction was still in doubt: an upload that
\* was said to exist exists, one said to be finalizing is never pending again
\* nor expired for lack of a completion, and a terminal state is final.
AnswersStayTrue ==
  \A u \in Uploads :
    /\ told[u] = "pending" => uploads[u].state # "none"
    /\ told[u] = "finalizing" => /\ uploads[u].state \in {"finalizing"} \cup Terminal
                                /\ uploads[u].reason # "upload_deadline_elapsed"
    /\ told[u] \in Terminal => uploads[u].state = told[u]

\* Every redirect that GET /content ever answered leads to the image that was
\* verified, for as long as a client may take to follow it.
RedirectsResolve ==
  \A u \in Uploads : \A k \in redirected[u] : objects[u][k] = k

\* The columns a claim protects.
ClaimColumns(row) == <<row.state, row.claim, row.claimExp>>

\* While a claim's lease runs, the claim, its expiry and the state of the row
\* are changed only by the finalizer that holds the token: by its step, or by
\* the late commit of a transaction that its step left in doubt.  Workers that
\* lost their claim, sweeps and requests do not interfere.
LiveClaimRespected ==
  [][\A u \in Uploads :
       LET Changes(row) == ClaimColumns(row) # ClaimColumns(uploads[u])
       IN /\ uploads[u].claim # Null
          /\ now < uploads[u].claimExp
          /\ \/ ~Locked(u) /\ Changes(uploads'[u])
             \/ ~Locked(u) /\ doubt'[u] # Null /\ Changes(doubt'[u].row)
             \/ Locked(u) /\ uploads'[u] \notin {uploads[u], doubt[u].row}
          => \E f \in Finalizers :
               fin[f].token = uploads[u].claim /\ fin'[f] # fin[f]]_vars

-----------------------------------------------------------------------------
(* Refinement.                                                             *)

Lifecycle == INSTANCE UploadLifecycle WITH
  state <- [u \in Uploads |-> uploads[u].state],
  published <- [u \in Uploads |-> IF uploads[u].state = "ready"
                                  THEN objects[u][uploads[u].final]
                                  ELSE Null]

\* The service implements the lifecycle it promises; the published bytes are
\* what the bucket holds under the final key.
ImplementsLifecycle == Lifecycle!Spec

-----------------------------------------------------------------------------
(* Liveness, under Fairness.                                               *)

\* An upload that is being finalized reaches a terminal state, in spite of
\* crashes, lost claims and commits of unknown outcome.
FinalizingTerminates ==
  \A u \in Uploads :
    uploads[u].state = "finalizing" ~> uploads[u].state \in Terminal

\* An upload nobody completes is expired by the sweep.
PendingResolved ==
  \A u \in Uploads : uploads[u].state = "pending" ~> uploads[u].state # "pending"

\* Every object with a deletion duty is in the end gone for good, also when a
\* late PUT brings it back after a DELETE.
CleanupConverges ==
  \A u \in Uploads, k \in Keys :
    k \in tombstoned[u] ~> [](objects[u][k] = Null)
=============================================================================
