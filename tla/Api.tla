-------------------------------- MODULE Api --------------------------------
(***************************************************************************)
(* POST /uploads (create or replay), POST /uploads/{id}/complete and the   *)
(* two GET endpoints.  reqs[r] holds the local variables of one POST       *)
(* handler: the upload, what the client declared, the id and the expiry of *)
(* the presigned PUT it has signed but not yet handed out, the attempt,    *)
(* and the due time a completion of a finalizing row asked for.            *)
(***************************************************************************)
EXTENDS Store

VARIABLES
  reqs,
  handed,     \* history: the PUT capabilities handed out, each as the upload
              \* id it names and what its client declared
  told,       \* history: the most advanced state a client was told
  redirected  \* history: the keys clients were sent to for the content

history == <<handed, told, redirected>>
apiVars == <<reqs, history>>

ReqPCs == {"idle", "insert", "signReplay", "authorize", "recover",
           "complete", "readback"}

ReqRow ==
  [ pc      : ReqPCs,
    upload  : Uploads \cup {Null},
    decl    : Declarations \cup {Null},
    id      : Requests \cup {Null}, \* the upload id in the signed staging key
    expires : Time,                 \* ExpiresAt of the signed request, 0: none
    created : BOOLEAN,              \* the commit in doubt is that of an insert
    attempt : 0..2,
    dueBy   : Time \cup {Null} ]    \* completionRecovery.finalizingDueBy

ReqIdle ==
  [ pc |-> "idle", upload |-> Null, decl |-> Null, id |-> Null, expires |-> 0,
    created |-> FALSE, attempt |-> 0, dueBy |-> Null ]

ApiTypeOK ==
  /\ reqs \in [Requests -> ReqRow]
  /\ handed \in [Uploads -> SUBSET (Requests \X Declarations)]
  /\ told \in [Uploads -> States]
  /\ redirected \in [Uploads -> SUBSET Images]

ApiInit ==
  /\ reqs = [r \in Requests |-> ReqIdle]
  /\ handed = [u \in Uploads |-> {}]
  /\ told = [u \in Uploads |-> "none"]
  /\ redirected = [u \in Uploads |-> {}]

ReqAt(r, pc) == reqs[r].pc = pc
ReqGoto(r, pc) == reqs' = [reqs EXCEPT ![r].pc = pc]
Respond(r) == reqs' = [reqs EXCEPT ![r] = ReqIdle]
ReqUpload(r) == uploads[reqs[r].upload]

Rank == [s \in States |->
  CASE s = "none" -> 0 [] s = "pending" -> 1 [] s = "finalizing" -> 2 [] OTHER -> 3]

\* A response tells a client that upload u is in this state.
Tell(u, state) ==
  told' = [told EXCEPT ![u] = IF Rank[state] > Rank[@] THEN state ELSE @]

-----------------------------------------------------------------------------
(* Create and replay.                                                      *)

\* The signed request leaves the service with the state of the row, unless it
\* has expired meanwhile.
HandOut(r, state) ==
  LET u == reqs[r].upload
      valid == now < reqs[r].expires
  IN /\ Respond(r)
     /\ IF valid
        THEN /\ caps' = [caps EXCEPT ![u] =
                            IF reqs[r].expires > @ THEN reqs[r].expires ELSE @]
             /\ handed' = [handed EXCEPT ![u] = @ \cup {<<reqs[r].id, reqs[r].decl>>}]
             /\ Tell(u, state)
        ELSE UNCHANGED <<caps, handed, told>>

\* An answer without a capability: the state of the row, or an error.
AnswerState(r, state) ==
  Respond(r) /\ Tell(reqs[r].upload, state) /\ UNCHANGED <<caps, handed>>
Refuse(r) == Respond(r) /\ UNCHANGED <<caps, handed, told>>

\* ExpiresAt of a PUT that is signed now: the X-Amz-Date and X-Amz-Expires of
\* the signed URL.  A request that cannot be signed is one that is given up.
presignUploadPUT == now + PresignTTL

\* A fresh upload id is made up and its PUT presigned, before any row exists.
presignCreate(r, u) ==
  /\ ReqAt(r, "idle")
  /\ \E d \in Declarations :
       reqs' = [reqs EXCEPT ![r] = [ReqIdle EXCEPT !.pc = "insert", !.upload = u,
                                                   !.decl = d, !.id = r,
                                                   !.expires = presignUploadPUT]]
  /\ UNCHANGED <<storeVars, history>>

\* Faulty variant: the declared tuple is not compared.
uploadMatchesAny(r) == TRUE

\* The row is for what the client declared; otherwise the idempotency key has
\* been reused (422).
uploadMatchesCommand(r) == ReqUpload(r).declared = reqs[r].decl

\* The commit of the insert or of the replay returns an error.
Recover(r, created) ==
  /\ reqs' = [reqs EXCEPT ![r].pc = "recover", ![r].created = created]
  /\ UNCHANGED <<caps, handed, told>>

\* INSERT ... ON CONFLICT (idempotency_key) DO NOTHING, which waits for a
\* transaction that is inserting or updating the row of that key.  The database
\* refuses a horizon that is not in the future (uploads_write_horizon_check).
createOrReplayUpload(r) ==
  /\ ReqAt(r, "insert")
  /\ LET u == reqs[r].upload
         row == uploads[u]
         inserted == [NoUpload EXCEPT !.state = "pending", !.id = reqs[r].id,
                                      !.declared = reqs[r].decl,
                                      !.deadline = now + UploadWindow,
                                      !.horizon = reqs[r].expires]
     IN Transaction(u,
          \/ /\ row.state = "none"
             /\ now < reqs[r].expires
             /\ Commit(u, WriteRow(u, inserted), HandOut(r, "pending"), Recover(r, TRUE))
          \/ /\ row.state = "none"
             /\ now >= reqs[r].expires
             /\ Refuse(r) /\ UNCHANGED <<faults, db>>
          \/ /\ row.state # "none"
             /\ \/ ~uploadMatchesCommand(r) /\ Refuse(r)
                \/ /\ uploadMatchesCommand(r) /\ ~uploadAcceptsWrites(row)
                   /\ AnswerState(r, row.state)
                \/ /\ uploadMatchesCommand(r) /\ uploadAcceptsWrites(row)
                   /\ ReqGoto(r, "signReplay") /\ UNCHANGED <<caps, handed, told>>
             /\ UNCHANGED <<faults, db>>,
          Refuse(r))
  /\ UNCHANGED <<now, bucket, redirected>>

presignReplay(r) ==
  /\ ReqAt(r, "signReplay")
  /\ reqs' = [reqs EXCEPT ![r].pc = "authorize", ![r].id = ReqUpload(r).id,
                          ![r].expires = presignUploadPUT]
  /\ UNCHANGED <<storeVars, history>>

authorizeReplay(r) ==
  /\ ReqAt(r, "authorize")
  /\ LET u == reqs[r].upload
         row == uploads[u]
         authorized == /\ uploadMatchesCommand(r)
                       /\ row.id = reqs[r].id
                       /\ uploadAcceptsWrites(row)
         horizon == IF reqs[r].expires > row.horizon THEN reqs[r].expires ELSE row.horizon
     IN Transaction(u,
          \/ /\ authorized
             /\ Commit(u, WriteRow(u, [row EXCEPT !.horizon = horizon]),
                       HandOut(r, row.state), Recover(r, FALSE))
          \/ /\ ~authorized
             /\ IF uploadMatchesCommand(r) THEN AnswerState(r, row.state) ELSE Refuse(r)
             /\ UNCHANGED <<faults, db>>,
          Refuse(r))
  /\ UNCHANGED <<now, bucket, redirected>>

\* Faulty variant: the write horizon is not compared.
CommitShowsWithoutHorizon(r) == ReqUpload(r).id = reqs[r].id

\* The stored row is the one this request's signed PUT is for, and its write
\* horizon covers the request.
CommitShows(r) ==
  /\ ReqUpload(r).id = reqs[r].id
  /\ ReqUpload(r).horizon >= reqs[r].expires

\* The commit of the insert or of the replay is unknown: read the row back.
\* It may not show what the transaction in doubt will still write.
recoverUnknownUploadCommit(r) ==
  /\ ReqAt(r, "recover")
  /\ LET row == ReqUpload(r)
     IN \/ /\ \/ ~uploadMatchesCommand(r) /\ Refuse(r)
              \/ /\ uploadMatchesCommand(r) /\ ~uploadAcceptsWrites(row)
                 /\ AnswerState(r, row.state)
              \/ /\ uploadMatchesCommand(r) /\ uploadAcceptsWrites(row)
                 /\ IF CommitShows(r) THEN HandOut(r, row.state) ELSE Refuse(r)
           /\ UNCHANGED <<faults, db>>
        \/ Fails(Refuse(r))
  /\ UNCHANGED <<now, bucket, redirected>>

-----------------------------------------------------------------------------
(* Completion.                                                             *)

\* Answer with the state of the row; upload ids nobody stored are not found.
Answer(r, state) == Respond(r) /\ Tell(reqs[r].upload, state)

startComplete(r, u) ==
  /\ ReqAt(r, "idle")
  /\ reqs' = [reqs EXCEPT ![r] = [ReqIdle EXCEPT !.pc = "complete", !.upload = u,
                                                 !.attempt = 1]]
  /\ UNCHANGED <<storeVars, history>>

\* Faulty variant: a commit whose outcome is unknown is taken to have worked.
ReadBackSkipped(r, dueBy) == Answer(r, "finalizing")

\* The outcome of a commit is unknown: read the row back.
ReadBack(r, dueBy) ==
  /\ reqs' = [reqs EXCEPT ![r].pc = "readback", ![r].dueBy = dueBy]
  /\ UNCHANGED told

completeUploadAttempt(r) ==
  /\ ReqAt(r, "complete")
  /\ LET u == reqs[r].upload
         row == uploads[u]
     IN Transaction(u,
          \/ /\ row.state = "pending" /\ now < row.deadline
             /\ Commit(u, WriteRow(u, [row EXCEPT !.state = "finalizing", !.due = now]),
                       Answer(r, "finalizing"), ReadBack(r, Null))
          \/ /\ PendingExpirable(u)
             /\ Commit(u, transitionPendingExpiredLocked(u),
                       Answer(r, "expired"), ReadBack(r, Null))
          \/ /\ row.state = "finalizing"
             /\ Commit(u, WriteRow(u, [row EXCEPT !.due = IF now < @ THEN now ELSE @]),
                       Answer(r, "finalizing"), ReadBack(r, now))
          \/ /\ row.state \in Terminal \cup {"none"}
             /\ Answer(r, row.state)
             /\ UNCHANGED <<faults, db>>,
          Respond(r) /\ UNCHANGED told)
  /\ UNCHANGED <<now, bucket, caps, handed, redirected>>

completionOutcomeIsDurable(row, dueBy) ==
  \/ row.state \in Terminal
  \/ row.state = "finalizing" /\ (dueBy # Null => row.due <= dueBy)

\* One more attempt is made when the read-back shows no durable outcome.
recoverCompletionOutcome(r) ==
  /\ ReqAt(r, "readback")
  /\ LET durable == completionOutcomeIsDurable(ReqUpload(r), reqs[r].dueBy)
     IN \/ durable /\ Answer(r, ReqUpload(r).state) /\ UNCHANGED <<faults, db>>
        \/ /\ ~durable
           /\ IF reqs[r].attempt < 2
              THEN reqs' = [reqs EXCEPT ![r].pc = "complete", ![r].attempt = @ + 1,
                                        ![r].dueBy = Null]
              ELSE Respond(r)
           /\ UNCHANGED <<faults, db, told>>
        \/ Fails(Respond(r)) /\ UNCHANGED told
  /\ UNCHANGED <<now, bucket, caps, handed, redirected>>

-----------------------------------------------------------------------------
(* GET /uploads/{id} and GET /uploads/{id}/content: one read of the row as  *)
(* committed.  Signing the GET of the final key and answering touch nothing *)
(* the service shares, so a late answer is a client that is slow to follow  *)
(* it.                                                                      *)

getUploadByID(u) ==
  /\ uploads[u].state # "none"
  /\ Tell(u, uploads[u].state)
  /\ UNCHANGED <<storeVars, reqs, handed, redirected>>

\* Ready uploads are redirected to their final key; the other states have an
\* answer of their own.
authorizeContentRead(u) ==
  /\ uploads[u].state # "none"
  /\ Tell(u, uploads[u].state)
  /\ redirected' = [redirected EXCEPT ![u] =
       IF uploads[u].state = "ready" THEN @ \cup {uploads[u].final} ELSE @]
  /\ UNCHANGED <<storeVars, reqs, handed>>

\* The process dies or the client hangs up.
CrashRequest(r) ==
  /\ ~ReqAt(r, "idle")
  /\ Fault
  /\ Respond(r)
  /\ UNCHANGED <<now, db, bucket, caps, history>>

RequestStep(r) ==
  \/ createOrReplayUpload(r)
  \/ presignReplay(r)
  \/ authorizeReplay(r)
  \/ recoverUnknownUploadCommit(r)
  \/ completeUploadAttempt(r)
  \/ recoverCompletionOutcome(r)

ClientCalls(r, u) == presignCreate(r, u) \/ startComplete(r, u)

ClientReads(u) == getUploadByID(u) \/ authorizeContentRead(u)

ApiNext ==
  \E r \in Requests :
    RequestStep(r) \/ CrashRequest(r) \/ \E u \in Uploads : ClientCalls(r, u)
=============================================================================
