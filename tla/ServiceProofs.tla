--------------------------- MODULE ServiceProofs ----------------------------
(***************************************************************************)
(* What the steps of the service and of its clients may do to the bucket,  *)
(* that the tables, the bucket and what finalizers, maintenance loops and  *)
(* requests are about to do stay consistent with each other, that what     *)
(* clients are told, given and sent to stays true, and the theorems about  *)
(* the service: its invariant Inv is inductive, and the properties the     *)
(* runs check on small instances hold for every value of the constants.    *)
(***************************************************************************)
EXTENDS TransactionProofs

-----------------------------------------------------------------------------
(* The effects of steps on the bucket.                                     *)

BucketOK ==
  /\ objects \in [Uploads -> [Keys -> Contents \cup {Null}]]
  /\ inflight \in SUBSET S3Request
  /\ written \in [Uploads -> SUBSET Contents]
  /\ early \in [Uploads -> BOOLEAN]

\* A write is applied, or joins the requests in flight.
Applies(u, k, c) == Arrive(u, k, c) /\ inflight' \subseteq inflight

Sends(u, k, c) ==
  /\ inflight' = inflight \cup {[upload |-> u, key |-> k, content |-> c]}
  /\ UNCHANGED <<objects, written, early>>

BucketEffect ==
  \E u \in Uploads, k \in Keys, c \in Contents \cup {Null} :
    Allowed(u, k, c) /\ (Applies(u, k, c) \/ Sends(u, k, c))

\* A step works on the database or on the bucket, never on both.
Effect ==
  \/ DbEffect /\ UNCHANGED bucket
  \/ BucketEffect /\ UNCHANGED db

\* A stored image stays stored while no tombstone names it.
StoredStays ==
  \A u \in Uploads, k \in Images :
    objects[u][k] = k /\ k \notin tombstoned[u] => objects'[u][k] = k

\* The tables and the bucket after a step.
EffectAfter ==
  /\ TablesOK'
  /\ BucketOK'
  /\ DOMAIN doubt' = Uploads
  /\ \A v \in Uploads : Phase(v)' /\ DoubtLegal(v)' /\ Monotone(v)
  /\ \A u \in Uploads, k \in Images : CandidateKey(u, k)'
  /\ \A m \in inflight' : Allowed(m.upload, m.key, m.content)'
  /\ StoredStays

-----------------------------------------------------------------------------
(* The bucket.                                                             *)

\* Bytes that arrive, or a DELETE, are of their types.
LEMMA ArriveType ==
  ASSUME Inv, NEW u \in Uploads, NEW k \in Keys, NEW c \in Contents \cup {Null},
         Arrive(u, k, c)
  PROVE  /\ objects' \in [Uploads -> [Keys -> Contents \cup {Null}]]
         /\ written' \in [Uploads -> SUBSET Contents]
         /\ early' \in [Uploads -> BOOLEAN]
  <1>1. /\ objects \in [Uploads -> [Keys -> Contents \cup {Null}]]
        /\ written \in [Uploads -> SUBSET Contents]
        /\ early \in [Uploads -> BOOLEAN]
    BY DEF Inv, Registers, StoreTypeOK
  <1>2. objects' \in [Uploads -> [Keys -> Contents \cup {Null}]] BY <1>1 DEF Arrive
  <1>3. written' \in [Uploads -> SUBSET Contents] BY <1>1 DEF Arrive
  <1>4. early' \in [Uploads -> BOOLEAN]
    <2> DEFINE b == early[u] \/ (k = Staging /\ c # Null /\ now < uploads[u].horizon)
    <2>1. early' = [early EXCEPT ![u] = b] BY DEF Arrive
    <2>2. b \in BOOLEAN BY <1>1
    <2> HIDE DEF b
    <2> QED BY <1>1, <2>1, <2>2
  <1> QED BY <1>2, <1>3, <1>4

\* The objects after an allowed write: only its key changes, to the tracked
\* image, to nothing, or (staging) to any bytes.
LEMMA Written1 ==
  ASSUME Inv, NEW u \in Uploads, NEW k \in Keys, NEW c \in Contents \cup {Null},
         Allowed(u, k, c), Applies(u, k, c), NEW v \in Uploads, NEW i \in Images
  PROVE  \/ objects'[v][i] = objects[v][i]
         \/ v = u /\ i = k /\ objects'[v][i] = c /\ c = i /\ i \in candidates[v]
         \/ v = u /\ i = k /\ objects'[v][i] = c /\ c = Null /\ i \in tombstoned[v]
  <1>1. /\ objects \in [Uploads -> [Keys -> Contents \cup {Null}]]
        /\ objects' = [objects EXCEPT ![u][k] = c]
        /\ i \in Keys /\ i # Staging
    BY StoreAssumption DEF Inv, Registers, StoreTypeOK, Applies, Arrive, Keys
  <1>2. CASE v = u /\ i = k
    <2>1. objects'[v][i] = c BY <1>1, <1>2
    <2>2. (i \in candidates[v] /\ c = i) \/ (i \in tombstoned[v] /\ c = Null)
      BY <1>1, <1>2 DEF Allowed
    <2> QED BY <1>2, <2>1, <2>2
  <1>3. CASE ~(v = u /\ i = k) BY <1>1, <1>3
  <1> QED BY <1>2, <1>3

\* A step on the bucket, or on nothing, keeps what is stored and published.
LEMMA BucketStays ==
  ASSUME Inv, BucketEffect
  PROVE  StoredStays
  <1> SUFFICES ASSUME NEW v \in Uploads, NEW i \in Images, objects[v][i] = i,
                      i \notin tombstoned[v]
               PROVE  objects'[v][i] = i
    BY DEF StoredStays
  <1>1. PICK u \in Uploads, k \in Keys, c \in Contents \cup {Null} :
          Allowed(u, k, c) /\ (Applies(u, k, c) \/ Sends(u, k, c))
    BY DEF BucketEffect
  <1>2. CASE Applies(u, k, c)
    <2>1. \/ objects'[v][i] = objects[v][i]
          \/ objects'[v][i] = c /\ c = i
          \/ i \in tombstoned[v]
      BY <1>1, <1>2, Written1
    <2> QED BY <2>1
  <1>3. CASE Sends(u, k, c) BY <1>3 DEF Sends
  <1> QED BY <1>1, <1>2, <1>3

\* A step on the bucket keeps rows and transactions in doubt consistent with
\* what is stored.
LEMMA BucketPhase ==
  ASSUME Inv, BucketEffect, UNCHANGED db, NEW u \in Uploads
  PROVE  Phase(u)' /\ DoubtLegal(u)' /\ Monotone(u)
  <1>0. Phase(u) /\ DoubtLegal(u) /\ StoredStays BY BucketStays DEF Inv
  <1>1. UNCHANGED <<uploads, candidates, tombstoned, duty, doubt>> BY DEF db, tables
  <1>2. candidates[u] \subseteq Images BY DEF Inv, Registers, StoreTypeOK
  <1>3. Phase(u)'
    <2>1. uploads[u].state = "ready" => objects'[u][uploads[u].final] = uploads[u].final
      <3> SUFFICES ASSUME uploads[u].state = "ready"
                   PROVE  objects'[u][uploads[u].final] = uploads[u].final
        OBVIOUS
      <3>1. /\ uploads[u].final \in candidates[u]
            /\ uploads[u].final \notin tombstoned[u]
            /\ objects[u][uploads[u].final] = uploads[u].final
        BY <1>0 DEF Phase, PhaseFor
      <3> QED BY <1>0, <1>2, <3>1 DEF StoredStays
    <2> QED BY <1>0, <1>1, <2>1 DEF Phase, PhaseFor
  <1>4. DoubtLegal(u)'
    <2> SUFFICES ASSUME Locked(u) PROVE Legal(u, doubt[u])'
      BY <1>1 DEF DoubtLegal, Locked
    <2> DEFINE w == doubt[u]
    <2>1. LegalFor(uploads[u], candidates[u], objects[u], w) BY <1>0 DEF DoubtLegal, Legal
    <2>2. uploads[u].state \notin Terminal BY <2>1 DEF LegalFor, StateMoves, Terminal
    <2>3. tombstoned[u] = {} BY <1>0, <2>2 DEF Phase, PhaseFor
    <2>4. w.row.state = "ready" => objects'[u][w.row.final] = w.row.final
      <3>1. w.cands \subseteq Images BY <2>1 DEF LegalFor, IsWrite
      <3>2. w.row.state = "ready" => w.row.final \in w.cands /\ objects[u][w.row.final] = w.row.final
        BY <2>1 DEF LegalFor
      <3> QED BY <1>0, <2>3, <3>1, <3>2 DEF StoredStays
    <2> HIDE DEF w
    <2>5. LegalFor(uploads[u], candidates[u], objects'[u], w) BY <2>1, <2>4 DEF LegalFor
    <2>6. uploads'[u] = uploads[u] /\ candidates'[u] = candidates[u] /\ doubt'[u] = w
      BY <1>1 DEF w
    <2> QED BY <2>5, <2>6 DEF Legal
  <1>5. Monotone(u) BY <1>1, Unwritten
  <1> QED BY <1>3, <1>4, <1>5

\* A step on the bucket keeps candidate keys and requests in flight allowed.
LEMMA BucketKeys ==
  ASSUME Inv, BucketEffect, UNCHANGED db
  PROVE  /\ BucketOK'
         /\ \A u \in Uploads, k \in Images : CandidateKey(u, k)'
         /\ \A m \in inflight' : Allowed(m.upload, m.key, m.content)'
  <1>1. UNCHANGED <<uploads, candidates, tombstoned>> BY DEF db, tables
  <1>2. PICK u \in Uploads, k \in Keys, c \in Contents \cup {Null} :
          Allowed(u, k, c) /\ (Applies(u, k, c) \/ Sends(u, k, c))
    BY DEF BucketEffect
  <1>3. /\ inflight \in SUBSET S3Request
        /\ \A m \in inflight : Allowed(m.upload, m.key, m.content)
        /\ \A v \in Uploads, i \in Images : CandidateKey(v, i)
    BY DEF Inv, Registers, StoreTypeOK
  <1>4. CASE Applies(u, k, c)
    <2>1. BucketOK'
      <3>1. inflight' \subseteq inflight BY <1>4 DEF Applies
      <3>2. Arrive(u, k, c) BY <1>4 DEF Applies
      <3> QED BY <1>3, <3>1, <3>2, ArriveType DEF BucketOK
    <2>2. ASSUME NEW v \in Uploads, NEW i \in Images PROVE CandidateKey(v, i)'
      <3>1. CandidateKey(v, i) BY <1>3
      <3>2. \/ objects'[v][i] = objects[v][i]
            \/ objects'[v][i] = i /\ i \in candidates[v]
            \/ objects'[v][i] = Null
        BY <1>2, <1>4, Written1
      <3> QED BY <1>1, <3>1, <3>2 DEF CandidateKey
    <2>3. ASSUME NEW m \in inflight' PROVE Allowed(m.upload, m.key, m.content)'
      <3>1. Allowed(m.upload, m.key, m.content) BY <1>3, <1>4 DEF Applies
      <3> QED BY <1>1, <3>1 DEF Allowed
    <2> QED BY <2>1, <2>2, <2>3
  <1>5. CASE Sends(u, k, c)
    <2> DEFINE sent == [upload |-> u, key |-> k, content |-> c]
    <2>1. BucketOK'
      <3>1. sent \in S3Request BY DEF S3Request
      <3>2. inflight' \in SUBSET S3Request BY <1>3, <1>5, <3>1 DEF Sends
      <3>3. UNCHANGED <<objects, written, early>> BY <1>5 DEF Sends
      <3> QED BY <3>2, <3>3 DEF BucketOK, Inv, Registers, StoreTypeOK
    <2>2. ASSUME NEW v \in Uploads, NEW i \in Images PROVE CandidateKey(v, i)'
      BY <1>1, <1>3, <1>5 DEF CandidateKey, Sends
    <2>3. ASSUME NEW m \in inflight' PROVE Allowed(m.upload, m.key, m.content)'
      <3>1. m \in inflight \/ m = sent BY <1>5 DEF Sends
      <3>2. sent.upload = u /\ sent.key = k /\ sent.content = c OBVIOUS
      <3> HIDE DEF sent
      <3>3. Allowed(m.upload, m.key, m.content) BY <1>2, <1>3, <3>1, <3>2
      <3> QED BY <1>1, <3>3 DEF Allowed
    <2> QED BY <2>1, <2>2, <2>3
  <1> QED BY <1>2, <1>4, <1>5

\* A step on the database keeps the bucket and what it may receive.
LEMMA DbKeys ==
  ASSUME Inv, DbAfter, UNCHANGED bucket
  PROVE  EffectAfter
  <1>0. UNCHANGED <<objects, inflight, written, early>> BY DEF bucket
  <1>1. BucketOK' BY <1>0 DEF BucketOK, Inv, Registers, StoreTypeOK
  <1>2. \A v \in Uploads : /\ candidates[v] \subseteq candidates'[v]
                           /\ tombstoned[v] \subseteq tombstoned'[v]
    BY DEF DbAfter, Monotone
  <1>3. ASSUME NEW v \in Uploads, NEW i \in Images PROVE CandidateKey(v, i)'
    <2>1. CandidateKey(v, i) BY DEF Inv
    <2> QED BY <1>0, <1>2, <2>1 DEF CandidateKey
  <1>4. ASSUME NEW m \in inflight' PROVE Allowed(m.upload, m.key, m.content)'
    <2>1. m \in inflight /\ Allowed(m.upload, m.key, m.content) BY <1>0 DEF Inv
    <2>2. m.upload \in Uploads BY <2>1 DEF Inv, Registers, StoreTypeOK, S3Request
    <2> QED BY <1>2, <2>1, <2>2 DEF Allowed
  <1>5. StoredStays BY <1>0 DEF StoredStays
  <1> QED BY <1>1, <1>3, <1>4, <1>5 DEF EffectAfter, DbAfter

\* Every effect leaves the tables and the bucket consistent.
LEMMA EffectKeeps ==
  ASSUME Inv, Effect
  PROVE  EffectAfter
  <1>1. CASE DbEffect /\ UNCHANGED bucket
    <2>1. DbAfter BY <1>1, DbEffectKeeps DEF bucket
    <2> QED BY <1>1, <2>1, DbKeys
  <1>2. CASE BucketEffect /\ UNCHANGED db
    <2>1. TablesOK' /\ DOMAIN doubt' = Uploads
      BY <1>2 DEF Inv, Registers, StoreTypeOK, TablesOK, db, tables
    <2>2. \A v \in Uploads : Phase(v)' /\ DoubtLegal(v)' /\ Monotone(v) BY <1>2, BucketPhase
    <2>3. StoredStays BY <1>2, BucketStays
    <2> QED BY <1>2, <2>1, <2>2, <2>3, BucketKeys DEF EffectAfter
  <1> QED BY <1>1, <1>2 DEF Effect

-----------------------------------------------------------------------------
(* Every step has such an effect.                                          *)

\* A fault may be counted; the clock and the capabilities stay.
Frame == UNCHANGED <<now, caps>> /\ (UNCHANGED faults \/ Fault)

\* Finalizer steps: only the PUT of a candidate touches the bucket.
LEMMA FinalizerFrame ==
  ASSUME NEW f \in Finalizers, FinalizerStep(f) \/ CrashFinalizer(f)
  PROVE  Frame /\ (putCandidateObject(f) \/ UNCHANGED bucket)
  <1> USE DEF Frame
  <1>1. ASSUME NEW u \in Uploads, NEW t \in Tokens, claimNextFinalizing(f, u, t)
        PROVE  Frame /\ UNCHANGED bucket
    BY <1>1 DEF claimNextFinalizing, Commit
  <1>2. CASE confirmFinalizeClaim(f) BY <1>2 DEF confirmFinalizeClaim, Fails
  <1>3. CASE loadTrackedCandidates(f) BY <1>3 DEF loadTrackedCandidates, Fails
  <1>4. CASE renewFinalizeClaim(f)
    BY <1>4 DEF renewFinalizeClaim, Transaction, CommitRow, Commit, Fails
  <1>5. CASE confirmFinalizeRenewal(f) BY <1>5 DEF confirmFinalizeRenewal, Fails
  <1>6. CASE getCandidate(f) BY <1>6 DEF getCandidate
  <1>7. CASE prepareMissingObservation(f)
    BY <1>7 DEF prepareMissingObservation, Transaction, Fails
  <1>8. CASE captureStaging(f) BY <1>8 DEF captureStaging
  <1>9. CASE registerCandidate(f) BY <1>9 DEF registerCandidate, Transaction, Commit, Fails
  <1>10. CASE candidateTracked(f) BY <1>10 DEF candidateTracked, Fails
  <1>11. CASE putCandidateObject(f) BY <1>11 DEF putCandidateObject, S3Write
  <1>12. CASE verifyCandidate(f) BY <1>12 DEF verifyCandidate
  <1>13. CASE transitionFinalizeReady(f)
    BY <1>13 DEF transitionFinalizeReady, Transaction, Commit, Fails
  <1>14. CASE transitionFinalizeRejected(f)
    BY <1>14 DEF transitionFinalizeRejected, Transaction, Commit, Fails
  <1>15. CASE transitionFinalizeExpiredMissing(f)
    BY <1>15 DEF transitionFinalizeExpiredMissing, Transaction, Commit, Fails
  <1>16. CASE confirmTerminal(f) BY <1>16 DEF confirmTerminal, Fails
  <1>17. CASE scheduleFinalizeRetry(f)
    BY <1>17 DEF scheduleFinalizeRetry, Transaction, CommitRow, Commit, Fails
  <1>18. CASE CrashFinalizer(f) BY <1>18 DEF CrashFinalizer
  <1> HIDE DEF Frame
  <1> QED BY <1>1, <1>2, <1>3, <1>4, <1>5, <1>6, <1>7, <1>8, <1>9, <1>10, <1>11, <1>12,
             <1>13, <1>14, <1>15, <1>16, <1>17, <1>18 DEF FinalizerStep

\* A finalizer writes one row in a transaction, or PUTs a tracked candidate.
LEMMA FinalizerEffect ==
  ASSUME Inv, NEW f \in Finalizers, FinalizerStep(f) \/ CrashFinalizer(f)
  PROVE  Effect
  <1> DEFINE u == fin[f].upload
             i == fin[f].img
  <1>1. CASE putCandidateObject(f)
    <2>1. fin[f].pc = "put" /\ UNCHANGED db BY <1>1 DEF putCandidateObject, At
    <2>2. fin[f] \in GoodFin /\ FinHolds(f) BY DEF Inv, Registers
    <2>3. u \in Uploads /\ i \in Images BY <2>1, <2>2 DEF GoodFin, FinSet, HoldsImage
    <2>4. i \in Keys /\ i \in Contents \cup {Null} BY <2>3 DEF Keys, Contents
    <2>5. Allowed(u, i, i) BY <2>1, <2>2 DEF FinHolds, WillPut, Allowed
    <2>6. Applies(u, i, i) \/ Sends(u, i, i) \/ UNCHANGED bucket
      BY <1>1 DEF putCandidateObject, S3Write, Applies, Sends
    <2>7. CASE UNCHANGED bucket BY <2>1, <2>7 DEF Effect, DbEffect
    <2> QED BY <2>1, <2>3, <2>4, <2>5, <2>6, <2>7 DEF Effect, BucketEffect
  <1>2. CASE ~putCandidateObject(f)
    <2>1. UNCHANGED bucket BY <1>2, FinalizerFrame
    <2>2. DbEffect BY FinalizerDb
    <2> QED BY <2>1, <2>2 DEF Effect
  <1> QED BY <1>1, <1>2

\* Maintenance steps: only the DELETE touches the bucket.
LEMMA JanitorFrame ==
  ASSUME NEW j \in Janitors, JanitorStep(j) \/ CrashJanitor(j)
  PROVE  Frame /\ (deleteS3Object(j) \/ UNCHANGED bucket)
  <1> USE DEF Frame
  <1>1. CASE runMaintenanceLoop(j) BY <1>1 DEF runMaintenanceLoop, storeVars
  <1>2. CASE expireNextPendingUpload(j) BY <1>2 DEF expireNextPendingUpload, Commit, Fails
  <1>3. CASE confirmPendingExpired(j) BY <1>3 DEF confirmPendingExpired, Fails
  <1>4. CASE reserveNextCleanup(j) BY <1>4 DEF reserveNextCleanup, CommitDuty, Fails
  <1>5. CASE confirmCleanupReservation(j) BY <1>5 DEF confirmCleanupReservation, Fails
  <1>6. CASE deleteS3Object(j) BY <1>6 DEF deleteS3Object, S3Write
  <1>7. CASE applyCleanupResult(j) BY <1>7 DEF applyCleanupResult, CommitDuty, Fails
  <1>8. CASE CrashJanitor(j) BY <1>8 DEF CrashJanitor
  <1> HIDE DEF Frame
  <1> QED BY <1>1, <1>2, <1>3, <1>4, <1>5, <1>6, <1>7, <1>8 DEF JanitorStep

\* A maintenance loop writes one row or one duty, or DELETEs a tombstoned key.
LEMMA JanitorEffect ==
  ASSUME Inv, NEW j \in Janitors, JanitorStep(j) \/ CrashJanitor(j)
  PROVE  Effect
  <1> DEFINE u == jan[j].upload
             k == jan[j].key
  <1>1. CASE deleteS3Object(j)
    <2>1. jan[j].pc = "delete" /\ UNCHANGED db BY <1>1 DEF deleteS3Object, JanAt
    <2>2. jan[j] \in GoodJan /\ JanHolds(j) BY DEF Inv, Registers
    <2>3. u \in Uploads /\ k \in Keys BY <2>1, <2>2 DEF GoodJan, JanSet
    <2>4. Allowed(u, k, Null) BY <2>1, <2>2 DEF JanHolds, Allowed
    <2>5. Applies(u, k, Null) \/ Sends(u, k, Null) \/ UNCHANGED bucket
      BY <1>1 DEF deleteS3Object, S3Write, Applies, Sends
    <2>6. CASE UNCHANGED bucket BY <2>1, <2>6 DEF Effect, DbEffect
    <2> QED BY <2>1, <2>3, <2>4, <2>5, <2>6 DEF Effect, BucketEffect
  <1>2. CASE ~deleteS3Object(j)
    <2>1. UNCHANGED bucket BY <1>2, JanitorFrame
    <2>2. DbEffect BY JanitorDb
    <2> QED BY <2>1, <2>2 DEF Effect
  <1> QED BY <1>1, <1>2

\* Requests leave the bucket and the clock alone.
LEMMA RequestFrame ==
  ASSUME NEW q \in Requests,
         \/ RequestStep(q)
         \/ CrashRequest(q)
         \/ \E u \in Uploads : ClientCalls(q, u)
  PROVE  UNCHANGED <<now, bucket, redirected>> /\ (UNCHANGED faults \/ Fault)
  <1>1. CASE createOrReplayUpload(q) BY <1>1 DEF createOrReplayUpload, Transaction, Commit, Fails
  <1>2. CASE presignReplay(q) BY <1>2 DEF presignReplay, storeVars, history
  <1>3. CASE authorizeReplay(q) BY <1>3 DEF authorizeReplay, Transaction, Commit, Fails
  <1>4. CASE recoverUnknownUploadCommit(q) BY <1>4 DEF recoverUnknownUploadCommit, Fails
  <1>5. CASE completeUploadAttempt(q) BY <1>5 DEF completeUploadAttempt, Transaction, Commit, Fails
  <1>6. CASE recoverCompletionOutcome(q) BY <1>6 DEF recoverCompletionOutcome, Fails
  <1>7. CASE CrashRequest(q) BY <1>7 DEF CrashRequest, history
  <1>8. CASE \E u \in Uploads : ClientCalls(q, u)
    BY <1>8 DEF ClientCalls, presignCreate, startComplete, storeVars, history
  <1> QED BY <1>1, <1>2, <1>3, <1>4, <1>5, <1>6, <1>7, <1>8 DEF RequestStep

\* Clients PUT to staging, requests given up on land, and the database ends
\* transactions in doubt.
LEMMA EnvironmentEffect ==
  ASSUME Inv, EnvironmentNext
  PROVE  Effect
  <1>1. CASE Tick BY <1>1 DEF Tick, Effect, DbEffect
  <1>2. ASSUME NEW u \in Uploads, Settle(u) PROVE Effect
    <2>1. Ends(u) /\ UNCHANGED bucket BY <1>2 DEF Settle, Ends
    <2> QED BY <2>1 DEF Effect, DbEffect
  <1>3. ASSUME NEW m \in inflight, Land(m) PROVE Effect
    <2>1. m \in S3Request /\ Allowed(m.upload, m.key, m.content)
      BY DEF Inv, Registers, StoreTypeOK
    <2>2. m.upload \in Uploads /\ m.key \in Keys /\ m.content \in Contents \cup {Null}
      BY <2>1 DEF S3Request
    <2>3. Applies(m.upload, m.key, m.content) /\ UNCHANGED db BY <1>3 DEF Land, Applies
    <2> QED BY <2>1, <2>2, <2>3 DEF Effect, BucketEffect
  <1>4. ASSUME NEW u \in Uploads, NEW c \in Contents, ClientPut(u, c) PROVE Effect
    <2>1. Staging \in Keys /\ c \in Contents \cup {Null} /\ Allowed(u, Staging, c)
      BY StoreAssumption DEF Keys, Allowed
    <2>2. (Applies(u, Staging, c) \/ Sends(u, Staging, c)) /\ UNCHANGED db
      BY <1>4 DEF ClientPut, Applies, Sends
    <2> QED BY <2>1, <2>2 DEF Effect, BucketEffect
  <1> QED BY <1>1, <1>2, <1>3, <1>4 DEF EnvironmentNext

-----------------------------------------------------------------------------
(* What finalizers hold.                                                   *)

\* A finalizer that takes no step keeps what it holds.
LEMMA OtherFinHolds ==
  ASSUME Inv, EffectAfter, NEW g \in Finalizers, fin'[g] = fin[g]
  PROVE  FinHolds(g)'
  <1> DEFINE u == fin[g].upload
             i == fin[g].img
  <1>0. FinHolds(g) /\ fin[g] \in GoodFin BY DEF Inv, Registers
  <1>1. WillPut(g)' => fin'[g].img \in candidates'[fin'[g].upload]
    <2> SUFFICES ASSUME WillPut(g) PROVE i \in candidates'[u]
      BY DEF WillPut
    <2>1. u \in Uploads BY <1>0 DEF WillPut, GoodFin, FinSet
    <2> QED BY <1>0, <2>1 DEF FinHolds, EffectAfter, Monotone
  <1>2. fin'[g].pc = "ready" /\ Row(g)'.state \notin Terminal =>
          Object(g, fin[g].img)' = fin'[g].img
    <2> SUFFICES ASSUME fin[g].pc = "ready", uploads'[u].state \notin Terminal
                 PROVE  objects'[u][i] = i
      BY DEF Row, Object
    <2>1. u \in Uploads /\ i \in Images BY <1>0 DEF GoodFin, FinSet, HoldsImage
    <2>2. uploads[u].state \notin Terminal BY <2>1 DEF EffectAfter, Monotone
    <2>3. objects[u][i] = i BY <1>0, <2>2 DEF FinHolds, Row, Object
    <2>4. tombstoned[u] = {} BY <2>1, <2>2 DEF Inv, Phase, PhaseFor
    <2> QED BY <2>1, <2>3, <2>4 DEF EffectAfter, StoredStays
  <1> QED BY <1>1, <1>2 DEF FinHolds, Row, Object

\* Registers with which a finalizer holds something.
Holds(r) ==
  r.pc \in {"put", "ready"} \/ (r.pc \in {"renew", "confirmRenew"} /\ r.next = "put")

\* A finalizer at a control point that holds no image owes nothing.
LEMMA NothingHeld ==
  ASSUME Inv, NEW f \in Finalizers, NEW r, fin' = [fin EXCEPT ![f] = r], ~Holds(r)
  PROVE  FinHolds(f)'
  <1>1. fin'[f] = r BY DEF Inv, Registers
  <1> QED BY <1>1 DEF FinHolds, WillPut, Holds

\* The moves to such a control point.
FreePCs == FinPCs \ {"put", "ready", "renew", "confirmRenew"}
Frees(f) ==
  \/ Stop(f)
  \/ \E pc \in FreePCs : Goto(f, pc)
  \/ \E reason \in RejectReasons : RejectWith(f, reason)
  \/ RenewThen(f, "verify")

\* After such a move a finalizer owes nothing.
LEMMA FreesHolds ==
  ASSUME Inv, NEW f \in Finalizers, Frees(f)
  PROVE  FinHolds(f)'
  <1>0. fin[f] \in FinRow BY DEF Inv, Registers, GoodFin
  <1>1. CASE Stop(f)
    <2>1. ~Holds(FinIdle) BY DEF Holds, FinIdle
    <2> QED BY <1>1, <2>1, NothingHeld DEF Stop
  <1>2. ASSUME NEW pc \in FreePCs, Goto(f, pc) PROVE FinHolds(f)'
    <2>1. fin' = [fin EXCEPT ![f] = [fin[f] EXCEPT !.pc = pc]] BY <1>2 DEF Goto
    <2>2. ~Holds([fin[f] EXCEPT !.pc = pc]) BY <1>0, <1>2 DEF Holds, FinRow, FreePCs
    <2> QED BY <2>1, <2>2, NothingHeld
  <1>3. ASSUME NEW reason \in RejectReasons, RejectWith(f, reason) PROVE FinHolds(f)'
    <2>1. fin' = [fin EXCEPT ![f] = [fin[f] EXCEPT !.pc = "reject", !.reason = reason]]
      BY <1>3 DEF RejectWith
    <2>2. ~Holds([fin[f] EXCEPT !.pc = "reject", !.reason = reason])
      BY <1>0 DEF Holds, FinRow
    <2> QED BY <2>1, <2>2, NothingHeld
  <1>4. CASE RenewThen(f, "verify")
    <2>1. fin' = [fin EXCEPT ![f] = [fin[f] EXCEPT !.pc = "renew", !.next = "verify"]]
      BY <1>4 DEF RenewThen
    <2>2. ~Holds([fin[f] EXCEPT !.pc = "renew", !.next = "verify"])
      BY <1>0 DEF Holds, FinRow
    <2> QED BY <2>1, <2>2, NothingHeld
  <1> QED BY <1>1, <1>2, <1>3, <1>4 DEF Frees

\* The steps of a finalizer that end at such a control point.
LEMMA FreeingSteps ==
  ASSUME NEW f \in Finalizers,
         \/ confirmFinalizeClaim(f)
         \/ putCandidateObject(f)
         \/ transitionFinalizeReady(f)
         \/ transitionFinalizeRejected(f)
         \/ transitionFinalizeExpiredMissing(f)
         \/ confirmTerminal(f)
         \/ scheduleFinalizeRetry(f)
         \/ CrashFinalizer(f)
  PROVE  Frees(f)
  <1>0. {"load", "retry", "confirmReady", "confirmRejected", "confirmExpired"} \subseteq FreePCs
    BY DEF FreePCs, FinPCs
  <1> USE <1>0 DEF Frees
  <1>1. CASE confirmFinalizeClaim(f) BY <1>1 DEF confirmFinalizeClaim, Fails
  <1>2. CASE putCandidateObject(f) BY <1>2 DEF putCandidateObject, S3Write
  <1>3. CASE transitionFinalizeReady(f)
    BY <1>3 DEF transitionFinalizeReady, Transaction, Commit, Fails
  <1>4. CASE transitionFinalizeRejected(f)
    BY <1>4 DEF transitionFinalizeRejected, Transaction, Commit, Fails
  <1>5. CASE transitionFinalizeExpiredMissing(f)
    BY <1>5 DEF transitionFinalizeExpiredMissing, Transaction, Commit, Fails
  <1>6. CASE confirmTerminal(f) BY <1>6 DEF confirmTerminal, Fails
  <1>7. CASE scheduleFinalizeRetry(f)
    BY <1>7 DEF scheduleFinalizeRetry, Transaction, CommitRow, Commit, Fails
  <1>8. CASE CrashFinalizer(f) BY <1>8 DEF CrashFinalizer
  <1> QED BY <1>1, <1>2, <1>3, <1>4, <1>5, <1>6, <1>7, <1>8

\* A finalizer that goes on to publish an image it has just found stored.
LEMMA FoundHolds ==
  ASSUME Inv, EffectAfter, NEW f \in Finalizers, fin[f].upload \in Uploads,
         NEW i \in Images, Object(f, i) = i,
         fin'[f].pc = "ready", fin'[f].upload = fin[f].upload, fin'[f].img = i
  PROVE  FinHolds(f)'
  <1> DEFINE u == fin[f].upload
  <1>1. uploads'[u].state \notin Terminal => objects'[u][i] = i
    <2> SUFFICES ASSUME uploads'[u].state \notin Terminal PROVE objects'[u][i] = i
      OBVIOUS
    <2>1. uploads[u].state \notin Terminal BY DEF EffectAfter, Monotone
    <2>2. tombstoned[u] = {} BY <2>1 DEF Inv, Phase, PhaseFor
    <2> QED BY <2>2 DEF EffectAfter, StoredStays, Object
  <1> QED BY <1>1 DEF FinHolds, WillPut, Row, Object

\* A finalizer that goes on to PUT an image that is tracked.
LEMMA TrackedHolds ==
  ASSUME Inv, NEW f \in Finalizers, RenewThen(f, "put"),
         fin[f].img \in candidates'[fin[f].upload]
  PROVE  FinHolds(f)'
  <1>1. fin \in [Finalizers -> GoodFin] /\ fin[f] \in FinRow BY DEF Inv, Registers, GoodFin
  <1>2. fin' = [fin EXCEPT ![f] = [fin[f] EXCEPT !.pc = "renew", !.next = "put"]]
    BY DEF RenewThen
  <1>3. /\ fin'[f].pc = "renew" /\ fin'[f].upload = fin[f].upload
        /\ fin'[f].img = fin[f].img
    BY <1>1, <1>2 DEF FinRow
  <1> QED BY <1>3 DEF FinHolds

\* registerCandidate goes on when its commit is acknowledged, and after an
\* unknown commit when the row read back has the candidate.
LEMMA RegisterHolds ==
  ASSUME Inv, EffectAfter, NEW f \in Finalizers, registerCandidate(f) \/ candidateTracked(f)
  PROVE  FinHolds(f)'
  <1> DEFINE u == fin[f].upload
             w == WriteOf(u, Row(f), candidates[u] \cup {fin[f].img}, {})
  <1>0. {"retry", "confirmRegister"} \subseteq FreePCs BY DEF FreePCs, FinPCs
  <1>1. u \in Uploads
    <2>1. fin[f].pc # "idle" BY DEF registerCandidate, candidateTracked, At
    <2> QED BY <2>1 DEF Inv, Registers, GoodFin, FinSet
  <1>2. CASE registerCandidate(f)
    <2>1. Frees(f) \/ (RenewThen(f, "put") /\ Apply(u, w))
      BY <1>0, <1>2 DEF registerCandidate, Transaction, Commit, Fails, Frees
    <2>2. ASSUME Apply(u, w) PROVE fin[f].img \in candidates'[u]
      <3>1. candidates' = [candidates EXCEPT ![u] = w.cands] BY <2>2 DEF Apply
      <3>2. w.cands = candidates[u] \cup {fin[f].img} BY DEF WriteOf
      <3>3. candidates \in [Uploads -> SUBSET Images] BY DEF Inv, Registers, StoreTypeOK
      <3> HIDE DEF w
      <3> QED BY <1>1, <3>1, <3>2, <3>3
    <2> QED BY <2>1, <2>2, FreesHolds, TrackedHolds
  <1>3. CASE candidateTracked(f)
    <2>1. Frees(f) \/ (RenewThen(f, "put") /\ fin[f].img \in candidates[u])
      BY <1>0, <1>3 DEF candidateTracked, Fails, Frees
    <2>2. candidates[u] \subseteq candidates'[u] BY <1>1 DEF EffectAfter, Monotone
    <2> QED BY <2>1, <2>2, FreesHolds, TrackedHolds
  <1> QED BY <1>2, <1>3

\* A renewal goes on with what the finalizer held before it.
LEMMA RenewHolds ==
  ASSUME Inv, EffectAfter, NEW f \in Finalizers,
         renewFinalizeClaim(f) \/ confirmFinalizeRenewal(f)
  PROVE  FinHolds(f)'
  <1> DEFINE u == fin[f].upload
             i == fin[f].img
             unknown == [fin[f] EXCEPT !.pc = "confirmRenew", !.expect = now + Lease]
  <1>0. /\ fin \in [Finalizers -> GoodFin] /\ fin[f] \in GoodFin /\ fin[f] \in FinRow
        /\ FinHolds(f)
    BY DEF Inv, Registers, GoodFin
  <1>1. fin[f].pc \in {"renew", "confirmRenew"}
    BY DEF renewFinalizeClaim, confirmFinalizeRenewal, At
  <1>2. /\ u \in Uploads
        /\ fin[f].next \in {"getCand", "observe", "put", "verify"}
    BY <1>0, <1>1 DEF GoodFin, FinSet
  <1>3. fin[f].next = "put" => i \in candidates'[u]
    <2>1. candidates[u] \subseteq candidates'[u] BY <1>2 DEF EffectAfter, Monotone
    <2> QED BY <1>0, <1>1, <2>1 DEF FinHolds, WillPut
  <1>4. \/ Stop(f) \/ Goto(f, "retry") \/ Goto(f, fin[f].next)
        \/ fin' = [fin EXCEPT ![f] = unknown]
    BY DEF renewFinalizeClaim, confirmFinalizeRenewal, Transaction, CommitRow, Commit, Fails
  <1>5. CASE Goto(f, fin[f].next)
    <2>1. CASE fin[f].next = "put"
      <3>1. fin' = [fin EXCEPT ![f] = [fin[f] EXCEPT !.pc = "put"]] BY <1>5, <2>1 DEF Goto
      <3>2. fin'[f].pc = "put" /\ fin'[f].upload = u /\ fin'[f].img = i
        BY <1>0, <3>1 DEF FinRow
      <3> QED BY <1>3, <2>1, <3>2 DEF FinHolds
    <2>2. CASE fin[f].next # "put"
      <3>1. fin[f].next \in FreePCs BY <1>2, <2>2 DEF FreePCs, FinPCs
      <3> QED BY <1>5, <3>1, FreesHolds DEF Frees
    <2> QED BY <2>1, <2>2
  <1>6. CASE fin' = [fin EXCEPT ![f] = unknown]
    <2>1. /\ fin'[f].pc = "confirmRenew" /\ fin'[f].upload = u /\ fin'[f].img = i
          /\ fin'[f].next = fin[f].next
      BY <1>0, <1>6 DEF FinRow
    <2> QED BY <1>3, <2>1 DEF FinHolds, WillPut
  <1>7. CASE Stop(f) \/ Goto(f, "retry")
    <2>1. "retry" \in FreePCs BY DEF FreePCs, FinPCs
    <2> QED BY <1>7, <2>1, FreesHolds DEF Frees
  <1> QED BY <1>4, <1>5, <1>6, <1>7

\* The steps that read the database or the bucket.
LEMMA ReadHolds ==
  ASSUME Inv, EffectAfter, NEW f \in Finalizers,
         \/ loadTrackedCandidates(f)
         \/ getCandidate(f)
         \/ prepareMissingObservation(f)
         \/ captureStaging(f)
         \/ verifyCandidate(f)
  PROVE  FinHolds(f)'
  <1> DEFINE u == fin[f].upload
  <1>0. fin \in [Finalizers -> GoodFin] /\ fin[f] \in GoodFin /\ fin[f] \in FinRow
    BY DEF Inv, Registers, GoodFin
  <1>1. {"retry", "expire"} \subseteq FreePCs BY DEF FreePCs, FinPCs
  <1>2. u \in Uploads
    <2>1. fin[f].pc # "idle"
      BY DEF loadTrackedCandidates, getCandidate, prepareMissingObservation, captureStaging,
             verifyCandidate, At
    <2> QED BY <1>0, <2>1 DEF GoodFin, FinSet
  <1>3. CASE loadTrackedCandidates(f)
    <2> DEFINE cands == IF Active(f) THEN candidates[u] ELSE {}
               row == [fin[f] EXCEPT !.pc = "renew", !.next = NextCandidate(cands),
                                     !.cands = cands, !.todo = cands]
    <2>1. Frees(f) \/ fin' = [fin EXCEPT ![f] = row]
      BY <1>1, <1>3 DEF loadTrackedCandidates, Fails, Frees
    <2>2. ~Holds(row)
      <3>1. NextCandidate(cands) # "put" BY DEF NextCandidate
      <3> HIDE DEF cands
      <3> QED BY <1>0, <3>1 DEF Holds, FinRow
    <2> HIDE DEF row
    <2> QED BY <2>1, <2>2, NothingHeld, FreesHolds
  <1>4. CASE getCandidate(f)
    <2>1. \/ Frees(f)
          \/ \E c \in fin[f].todo :
               fin' = [fin EXCEPT ![f].pc = "renew",
                                  ![f].next = NextCandidate(fin[f].todo \ {c}),
                                  ![f].todo = @ \ {c}]
          \/ \E c \in fin[f].todo :
               Object(f, c) = c /\ fin' = [fin EXCEPT ![f].pc = "ready", ![f].img = c]
      BY <1>1, <1>4 DEF getCandidate, Frees, RejectReasons
    <2>2. ASSUME NEW c \in fin[f].todo,
                 fin' = [fin EXCEPT ![f].pc = "renew",
                                    ![f].next = NextCandidate(fin[f].todo \ {c}),
                                    ![f].todo = @ \ {c}]
          PROVE  FinHolds(f)'
      <3> DEFINE n == NextCandidate(fin[f].todo \ {c})
                 row == [fin[f] EXCEPT !.pc = "renew", !.next = n, !.todo = @ \ {c}]
      <3>1. fin' = [fin EXCEPT ![f] = row] BY <2>2
      <3>2. n # "put" BY DEF NextCandidate
      <3>3. ~Holds(row)
        <4> HIDE DEF n
        <4> QED BY <1>0, <3>2 DEF Holds, FinRow
      <3> HIDE DEF row
      <3> QED BY <3>1, <3>3, NothingHeld
    <2>3. ASSUME NEW c \in fin[f].todo, Object(f, c) = c,
                 fin' = [fin EXCEPT ![f].pc = "ready", ![f].img = c]
          PROVE  FinHolds(f)'
      <3>1. fin'[f].pc = "ready" /\ fin'[f].upload = u /\ fin'[f].img = c
        BY <1>0, <2>3 DEF FinRow
      <3>2. c \in Images BY <1>0 DEF FinRow
      <3> QED BY <1>2, <2>3, <3>1, <3>2, FoundHolds
    <2> QED BY <2>1, <2>2, <2>3, FreesHolds
  <1>5. CASE prepareMissingObservation(f)
    <2> DEFINE row == [fin[f] EXCEPT !.pc = "getStaging", !.horizon = Row(f).horizon,
                                     !.eligible = MissingIsFinal(f)]
    <2>1. Frees(f) \/ fin' = [fin EXCEPT ![f] = row]
      BY <1>1, <1>5 DEF prepareMissingObservation, Transaction, Fails, Frees
    <2>2. ~Holds(row) BY <1>0 DEF Holds, FinRow
    <2> HIDE DEF row
    <2> QED BY <2>1, <2>2, NothingHeld, FreesHolds
  <1>6. CASE captureStaging(f)
    <2> DEFINE row == [fin[f] EXCEPT !.pc = "register", !.img = Object(f, Staging)]
    <2>1. Frees(f) \/ fin' = [fin EXCEPT ![f] = row]
      BY <1>1, <1>6 DEF captureStaging, Frees
    <2>2. ~Holds(row) BY <1>0 DEF Holds, FinRow
    <2> HIDE DEF row
    <2> QED BY <2>1, <2>2, NothingHeld, FreesHolds
  <1>7. CASE verifyCandidate(f)
    <2>1. fin[f].pc = "verify" BY <1>7 DEF verifyCandidate, At
    <2>2. fin[f].img \in Images BY <1>0, <2>1 DEF GoodFin, FinSet, HoldsImage
    <2>3. Frees(f) \/ (Object(f, fin[f].img) = fin[f].img /\ Goto(f, "ready"))
      BY <1>1, <1>7 DEF verifyCandidate, Frees, RejectReasons
    <2>4. ASSUME Object(f, fin[f].img) = fin[f].img, Goto(f, "ready") PROVE FinHolds(f)'
      <3>1. fin' = [fin EXCEPT ![f] = [fin[f] EXCEPT !.pc = "ready"]] BY <2>4 DEF Goto
      <3>2. fin'[f].pc = "ready" /\ fin'[f].upload = u /\ fin'[f].img = fin[f].img
        BY <1>0, <3>1 DEF FinRow
      <3> QED BY <1>2, <2>2, <2>4, <3>2, FoundHolds
    <2> QED BY <2>3, <2>4, FreesHolds
  <1> QED BY <1>3, <1>4, <1>5, <1>6, <1>7

\* A claim starts with nothing held.
LEMMA ClaimHolds ==
  ASSUME Inv, NEW f \in Finalizers, NEW u \in Uploads, NEW t \in Tokens,
         claimNextFinalizing(f, u, t)
  PROVE  FinHolds(f)'
  <1> DEFINE row(pc) == [fin[f] EXCEPT !.pc = pc, !.upload = u, !.token = t]
  <1>0. fin[f] \in FinRow BY DEF Inv, Registers, GoodFin
  <1>1. fin' = [fin EXCEPT ![f] = row("load")] \/ fin' = [fin EXCEPT ![f] = row("confirmClaim")]
    BY DEF claimNextFinalizing, Commit
  <1>2. ~Holds(row("load")) BY <1>0 DEF Holds, FinRow
  <1>3. ~Holds(row("confirmClaim")) BY <1>0 DEF Holds, FinRow
  <1> HIDE DEF row
  <1> QED BY <1>1, <1>2, <1>3, NothingHeld

\* After a step of a finalizer every finalizer holds what it must.
LEMMA FinalizersHold ==
  ASSUME Inv, EffectAfter, NEW f \in Finalizers, FinalizerStep(f) \/ CrashFinalizer(f),
         FinKept(f)
  PROVE  \A g \in Finalizers : FinHolds(g)'
  <1>1. FinHolds(f)'
    BY FreeingSteps, FreesHolds, RegisterHolds, RenewHolds, ReadHolds, ClaimHolds
    DEF FinalizerStep
  <1>2. ASSUME NEW g \in Finalizers, g # f PROVE FinHolds(g)'
    BY <1>2, OtherFinHolds DEF FinKept
  <1> QED BY <1>1, <1>2

-----------------------------------------------------------------------------
(* What maintenance loops hold.                                            *)

\* A tombstone that was due stays due.
LEMMA DueStays ==
  ASSUME Inv, EffectAfter, now <= now', NEW u \in Uploads, NEW k \in tombstoned[u],
         duty[u][k].notBefore <= now, now' \in Nat
  PROVE  k \in tombstoned'[u] /\ duty'[u][k].notBefore <= now'
  <1>1. k \in tombstoned'[u] /\ duty'[u][k].notBefore = duty[u][k].notBefore
    BY DEF EffectAfter, Monotone
  <1>2. now \in Nat /\ duty[u][k].notBefore \in Nat
    <2>1. k \in Keys /\ duty[u][k] \in DutyRow /\ now \in Nat
      BY DEF Inv, Registers, StoreTypeOK, Time
    <2> QED BY <2>1 DEF DutyRow, Time
  <1> QED BY <1>1, <1>2

\* A maintenance loop that keeps its upload and key keeps what it holds.
LEMMA JanKeeps ==
  ASSUME Inv, EffectAfter, now <= now', now' \in Nat, NEW j \in Janitors,
         jan[j].pc \in {"confirmReservation", "delete"},
         jan'[j].upload = jan[j].upload, jan'[j].key = jan[j].key
  PROVE  JanHolds(j)'
  <1>1. jan[j].upload \in Uploads BY DEF Inv, Registers, GoodJan, JanSet
  <1>2. /\ jan[j].key \in tombstoned[jan[j].upload]
        /\ duty[jan[j].upload][jan[j].key].notBefore <= now
    BY DEF Inv, JanHolds
  <1> QED BY <1>1, <1>2, DueStays DEF JanHolds

\* A maintenance loop that takes no step.
LEMMA OtherJanHolds ==
  ASSUME Inv, EffectAfter, now <= now', now' \in Nat, NEW j \in Janitors, jan'[j] = jan[j]
  PROVE  JanHolds(j)'
  <1>1. CASE jan[j].pc \in {"confirmReservation", "delete"} BY <1>1, JanKeeps
  <1>2. CASE jan[j].pc \notin {"confirmReservation", "delete"} BY <1>2 DEF JanHolds
  <1> QED BY <1>1, <1>2

\* A loop that goes on with its batch, or ends it, holds nothing.
LEMMA MoreHolds ==
  ASSUME Inv, NEW j \in Janitors, NEW n, ExpireMore(j, n) \/ CleanMore(j, n)
  PROVE  JanHolds(j)'
  <1>0. jan \in [Janitors -> GoodJan] BY DEF Inv, Registers
  <1>1. CASE ExpireMore(j, n)
    <2> DEFINE more == [JanWaits EXCEPT !.pc = "expiry", !.left = n]
               done == [JanWaits EXCEPT !.pc = "reserve", !.left = CleanupBatch]
    <2>1. more.pc = "expiry" /\ done.pc = "reserve" BY DEF JanWaits
    <2>2. jan'[j] = more \/ jan'[j] = done BY <1>0, <1>1 DEF ExpireMore
    <2> HIDE DEF more, done
    <2> QED BY <2>1, <2>2 DEF JanHolds
  <1>2. CASE CleanMore(j, n)
    <2> DEFINE more == [JanWaits EXCEPT !.pc = "reserve", !.left = n]
    <2>1. more.pc = "reserve" /\ JanWaits.pc = "wait" BY DEF JanWaits
    <2>2. jan'[j] = more \/ jan'[j] = JanWaits BY <1>0, <1>2 DEF CleanMore
    <2> HIDE DEF more
    <2> QED BY <2>1, <2>2 DEF JanHolds
  <1> QED BY <1>1, <1>2

\* The expiry sweep holds no key.
LEMMA ExpirySweepHolds ==
  ASSUME Inv, NEW j \in Janitors, expireNextPendingUpload(j)
  PROVE  JanHolds(j)'
  <1>0. jan \in [Janitors -> GoodJan] /\ jan[j] \in JanRow BY DEF Inv, Registers, GoodJan
  <1>1. \/ \E n : ExpireMore(j, n)
        \/ \E u \in Uploads : jan' = [jan EXCEPT ![j].pc = "confirmExpired", ![j].upload = u,
                                                 ![j].horizon = uploads[u].horizon]
    BY DEF expireNextPendingUpload, Commit, Fails, EndExpiry
  <1>2. ASSUME NEW u \in Uploads,
               jan' = [jan EXCEPT ![j].pc = "confirmExpired", ![j].upload = u,
                                  ![j].horizon = uploads[u].horizon]
        PROVE  JanHolds(j)'
    <2>1. jan'[j].pc = "confirmExpired" BY <1>0, <1>2 DEF JanRow
    <2> QED BY <2>1 DEF JanHolds
  <1> QED BY <1>1, <1>2, MoreHolds

\* The cleanup sweep reserves a duty that is due.
LEMMA ReserveHolds ==
  ASSUME Inv, EffectAfter, NEW j \in Janitors, reserveNextCleanup(j)
  PROVE  JanHolds(j)'
  <1>0. jan \in [Janitors -> GoodJan] /\ jan[j] \in JanRow /\ now \in Nat
    BY DEF Inv, Registers, GoodJan, StoreTypeOK, Time
  <1>1. UNCHANGED now BY DEF reserveNextCleanup
  <1>2. CASE EndSweep(j) BY <1>2, MoreHolds DEF EndSweep
  <1>3. CASE ~EndSweep(j)
    <2>1. PICK u \in Uploads, k \in Keys, t \in Tokens :
            /\ DutyDue(u, k)
            /\ \E pc \in {"delete", "confirmReservation"} : HoldDuty(j, u, k, t, pc)
      BY <1>3 DEF reserveNextCleanup, CommitDuty, Fails
    <2>2. k \in tombstoned[u] /\ duty[u][k].notBefore <= now BY <2>1 DEF DutyDue
    <2>3. PICK pc \in {"delete", "confirmReservation"} : HoldDuty(j, u, k, t, pc) BY <2>1
    <2>4. jan'[j] = [jan[j] EXCEPT !.pc = pc, !.upload = u, !.key = k, !.token = t]
      BY <1>0, <2>3 DEF HoldDuty
    <2>5. jan'[j].upload = u /\ jan'[j].key = k BY <1>0, <2>4 DEF JanRow
    <2>6. k \in tombstoned'[u] /\ duty'[u][k].notBefore <= now'
      BY <1>0, <1>1, <2>2, DueStays
    <2> QED BY <2>5, <2>6 DEF JanHolds
  <1> QED BY <1>2, <1>3

\* The confirmation of a reservation and the DELETE.
LEMMA DeleteHolds ==
  ASSUME Inv, EffectAfter, NEW j \in Janitors,
         confirmCleanupReservation(j) \/ deleteS3Object(j)
  PROVE  JanHolds(j)'
  <1>0. jan \in [Janitors -> GoodJan] /\ jan[j] \in JanRow /\ now \in Nat
    BY DEF Inv, Registers, GoodJan, StoreTypeOK, Time
  <1>1. CASE confirmCleanupReservation(j)
    <2>1. (\E n : CleanMore(j, n)) \/ jan' = [jan EXCEPT ![j].pc = "delete"]
      BY <1>1 DEF confirmCleanupReservation, Fails, EndSweep
    <2>2. ASSUME jan' = [jan EXCEPT ![j].pc = "delete"] PROVE JanHolds(j)'
      <3>1. jan'[j].upload = jan[j].upload /\ jan'[j].key = jan[j].key
        BY <1>0, <2>2 DEF JanRow
      <3>2. jan[j].pc = "confirmReservation" /\ UNCHANGED now
        BY <1>1 DEF confirmCleanupReservation, JanAt
      <3>3. now <= now' /\ now' \in Nat BY <1>0, <3>2
      <3> QED BY <3>1, <3>2, <3>3, JanKeeps
    <2> QED BY <2>1, <2>2, MoreHolds
  <1>2. CASE deleteS3Object(j)
    <2>1. PICK ok \in BOOLEAN : jan' = [jan EXCEPT ![j].pc = "apply", ![j].deleted = ok]
      BY <1>2 DEF deleteS3Object, S3Write
    <2>2. jan'[j].pc = "apply" BY <1>0, <2>1 DEF JanRow
    <2> QED BY <2>2 DEF JanHolds
  <1> QED BY <1>1, <1>2

\* After a step of a maintenance loop every loop holds what it must.
LEMMA JanitorsHold ==
  ASSUME Inv, EffectAfter, NEW j \in Janitors, JanitorStep(j) \/ CrashJanitor(j), JanKept(j)
  PROVE  \A i \in Janitors : JanHolds(i)'
  <1>1. JanHolds(j)'
    <2>1. CASE runMaintenanceLoop(j) BY <2>1, MoreHolds DEF runMaintenanceLoop
    <2>2. CASE confirmPendingExpired(j)
      BY <2>2, MoreHolds DEF confirmPendingExpired, Fails, EndExpiry
    <2>3. CASE applyCleanupResult(j)
      BY <2>3, MoreHolds DEF applyCleanupResult, CommitDuty, Fails, EndSweep
    <2>4. CASE CrashJanitor(j) BY <2>4, MoreHolds DEF CrashJanitor, EndSweep
    <2> QED
      BY <2>1, <2>2, <2>3, <2>4, ExpirySweepHolds, ReserveHolds, DeleteHolds DEF JanitorStep
  <1>2. ASSUME NEW i \in Janitors, i # j PROVE JanHolds(i)'
    <2>1. now <= now' /\ now' \in Nat
      BY JanitorFrame DEF Frame, Inv, Registers, StoreTypeOK, Time
    <2> QED BY <1>2, <2>1, OtherJanHolds DEF JanKept
  <1> QED BY <1>1, <1>2

-----------------------------------------------------------------------------
(* Answers.                                                                *)

\* What was told stays true when the row moves forward.
LEMMA HistoryStays ==
  ASSUME Inv, EffectAfter, NEW u \in Uploads
  PROVE  HistoryFor(uploads'[u], told[u], handed[u], redirected[u], caps[u])
  <1>0. History(u) /\ Monotone(u) BY DEF Inv, EffectAfter
  <1>1. caps[u] <= uploads'[u].horizon
    <2>1. caps[u] \in Nat /\ uploads[u].horizon \in Nat
      BY DEF Inv, Registers, StoreTypeOK, UploadRow, Time
    <2>2. uploads'[u].horizon \in Nat BY DEF EffectAfter, TablesOK, UploadRow, Time
    <2>3. caps[u] <= uploads[u].horizon BY <1>0 DEF History, HistoryFor
    <2>4. uploads[u].horizon <= uploads'[u].horizon BY <1>0 DEF Monotone
    <2> QED BY <2>1, <2>2, <2>3, <2>4
  <1>2. told[u] = "pending" => uploads'[u].state # "none"
    BY <1>0 DEF History, HistoryFor, Monotone
  <1>3. told[u] = "finalizing" => /\ uploads'[u].state \in {"finalizing"} \cup Terminal
                                  /\ uploads'[u].reason # "upload_deadline_elapsed"
    BY <1>0 DEF History, HistoryFor, Monotone
  <1>4. told[u] \in Terminal => uploads'[u].state = told[u]
    BY <1>0 DEF History, HistoryFor, Monotone
  <1>5. \A h \in handed[u] : /\ uploads'[u].state # "none"
                             /\ uploads'[u].id = h[1] /\ uploads'[u].declared = h[2]
    BY <1>0 DEF History, HistoryFor, Monotone
  <1>6. \A k \in redirected[u] : uploads'[u].state = "ready" /\ uploads'[u].final = k
    BY <1>0 DEF History, HistoryFor, Monotone, Terminal
  <1> QED BY <1>1, <1>2, <1>3, <1>4, <1>5, <1>6 DEF HistoryFor

\* A response that tells the state the row has after the step.
LEMMA TellKeeps ==
  ASSUME Inv, EffectAfter, NEW u \in Uploads, Tell(u, uploads'[u].state)
  PROVE  /\ told' \in [Uploads -> States]
         /\ \A v \in Uploads : HistoryFor(uploads'[v], told'[v], handed[v], redirected[v], caps[v])
  <1> DEFINE s == uploads'[u].state
  <1>1. told \in [Uploads -> States] BY DEF Inv, Registers
  <1>2. s \in States BY DEF EffectAfter, TablesOK, UploadRow
  <1>3. told' = [told EXCEPT ![u] = s] \/ told' = [told EXCEPT ![u] = told[u]]
    BY DEF Tell
  <1>4. told' \in [Uploads -> States] BY <1>1, <1>2, <1>3
  <1>5. ASSUME NEW v \in Uploads
        PROVE  HistoryFor(uploads'[v], told'[v], handed[v], redirected[v], caps[v])
    <2>1. HistoryFor(uploads'[v], told[v], handed[v], redirected[v], caps[v]) BY HistoryStays
    <2>2. told'[v] = told[v] \/ (v = u /\ told'[v] = s) BY <1>1, <1>3
    <2>3. CASE v = u /\ told'[v] = s
      <3>1. s = "finalizing" => uploads'[u].reason # "upload_deadline_elapsed"
        BY DEF EffectAfter, Phase, PhaseFor
      <3> QED BY <2>1, <2>3, <3>1 DEF HistoryFor, Terminal
    <2> QED BY <2>1, <2>2, <2>3
  <1> QED BY <1>4, <1>5

\* The row after the step is the one the signed PUT of a request is for.
Granted(q) ==
  LET row == uploads'[reqs[q].upload]
  IN /\ row.state # "none" /\ row.id = reqs[q].id /\ row.declared = reqs[q].decl
     /\ reqs[q].expires <= row.horizon

\* What a request tells and hands out.
Says(q) ==
  \/ UNCHANGED <<caps, handed, told>>
  \/ /\ reqs[q].upload \in Uploads
     /\ Tell(reqs[q].upload, uploads'[reqs[q].upload].state)
     /\ UNCHANGED <<caps, handed>>
  \/ /\ reqs[q].upload \in Uploads /\ reqs[q].id \in Requests /\ reqs[q].decl \in Declarations
     /\ Granted(q)
     /\ HandOut(q, uploads'[reqs[q].upload].state)

HistoryAfter ==
  /\ told' \in [Uploads -> States]
  /\ handed' \in [Uploads -> SUBSET (Requests \X Declarations)]
  /\ redirected' \in [Uploads -> SUBSET Images]
  /\ caps' \in [Uploads -> Time]
  /\ \A u \in Uploads : History(u)'

\* A step that answers nobody.
LEMMA SilentHistory ==
  ASSUME Inv, EffectAfter, UNCHANGED <<caps, history>>
  PROVE  HistoryAfter
  <1>1. UNCHANGED <<caps, handed, told, redirected>> BY DEF history
  <1>2. \A u \in Uploads : History(u)' BY <1>1, HistoryStays DEF History
  <1> QED BY <1>1, <1>2 DEF HistoryAfter, Inv, Registers, StoreTypeOK

\* A capability that is handed out.
LEMMA HandOutHistory ==
  ASSUME Inv, EffectAfter, NEW q \in Requests, UNCHANGED redirected,
         reqs[q].upload \in Uploads, reqs[q].id \in Requests, reqs[q].decl \in Declarations,
         Granted(q), HandOut(q, uploads'[reqs[q].upload].state)
  PROVE  HistoryAfter
  <1> DEFINE u == reqs[q].upload
             given == <<reqs[q].id, reqs[q].decl>>
             expires == IF reqs[q].expires > caps[u] THEN reqs[q].expires ELSE caps[u]
  <1>0. /\ caps \in [Uploads -> Time]
        /\ handed \in [Uploads -> SUBSET (Requests \X Declarations)]
        /\ redirected \in [Uploads -> SUBSET Images]
        /\ reqs[q].expires \in Time
    BY DEF Inv, Registers, StoreTypeOK, GoodReq, ReqRow
  <1>1. CASE UNCHANGED <<caps, handed, told>>
    BY <1>1, SilentHistory DEF history
  <1>2. CASE /\ caps' = [caps EXCEPT ![u] = expires]
             /\ handed' = [handed EXCEPT ![u] = @ \cup {given}]
             /\ Tell(u, uploads'[u].state)
    <2>1. /\ told' \in [Uploads -> States]
          /\ \A v \in Uploads : HistoryFor(uploads'[v], told'[v], handed[v], redirected[v], caps[v])
      BY <1>2, TellKeeps
    <2>2. expires \in Time BY <1>0 DEF Time
    <2>3. caps[u] <= uploads'[u].horizon BY <2>1 DEF HistoryFor
    <2>4. expires <= uploads'[u].horizon BY <2>3 DEF Granted
    <2>5. given \in Requests \X Declarations /\ given[1] = reqs[q].id /\ given[2] = reqs[q].decl
      OBVIOUS
    <2> HIDE DEF expires, given
    <2>6. caps' \in [Uploads -> Time] BY <1>0, <1>2, <2>2
    <2>7. handed' \in [Uploads -> SUBSET (Requests \X Declarations)] BY <1>0, <1>2, <2>5
    <2>8. ASSUME NEW v \in Uploads PROVE History(v)'
      <3>0. redirected'[v] = redirected[v] OBVIOUS
      <3>1. CASE v # u
        <4>1. caps'[v] = caps[v] /\ handed'[v] = handed[v] BY <1>0, <1>2, <3>1
        <4> QED BY <2>1, <3>0, <4>1 DEF History
      <3>2. CASE v = u
        <4>1. caps'[v] = expires /\ handed'[v] = handed[v] \cup {given} BY <1>0, <1>2, <3>2
        <4>2. HistoryFor(uploads'[v], told'[v], handed[v], redirected[v], caps[v]) BY <2>1
        <4>3. \A h \in handed'[v] : /\ uploads'[v].state # "none"
                                    /\ uploads'[v].id = h[1] /\ uploads'[v].declared = h[2]
          BY <2>5, <3>2, <4>1, <4>2 DEF HistoryFor, Granted
        <4> QED BY <2>4, <3>0, <3>2, <4>1, <4>2, <4>3 DEF History, HistoryFor
      <3> QED BY <3>1, <3>2
    <2> QED BY <1>0, <2>1, <2>6, <2>7, <2>8 DEF HistoryAfter
  <1>3. \/ UNCHANGED <<caps, handed, told>>
        \/ /\ caps' = [caps EXCEPT ![u] = expires]
           /\ handed' = [handed EXCEPT ![u] = @ \cup {given}]
           /\ Tell(u, uploads'[u].state)
    BY DEF HandOut
  <1> QED BY <1>1, <1>2, <1>3

\* What a request says keeps the histories true.
LEMMA SaysKeeps ==
  ASSUME Inv, EffectAfter, NEW q \in Requests, UNCHANGED redirected, Says(q)
  PROVE  HistoryAfter
  <1> DEFINE u == reqs[q].upload
  <1>1. CASE UNCHANGED <<caps, handed, told>> BY <1>1, SilentHistory DEF history
  <1>2. CASE u \in Uploads /\ Tell(u, uploads'[u].state) /\ UNCHANGED <<caps, handed>>
    <2>1. /\ told' \in [Uploads -> States]
          /\ \A v \in Uploads : HistoryFor(uploads'[v], told'[v], handed[v], redirected[v], caps[v])
      BY <1>2, TellKeeps
    <2>2. \A v \in Uploads : History(v)' BY <1>2, <2>1 DEF History
    <2> QED BY <1>2, <2>1, <2>2 DEF HistoryAfter, Inv, Registers, StoreTypeOK
  <1>3. CASE /\ u \in Uploads /\ reqs[q].id \in Requests /\ reqs[q].decl \in Declarations
             /\ Granted(q) /\ HandOut(q, uploads'[u].state)
    BY <1>3, HandOutHistory
  <1> QED BY <1>1, <1>2, <1>3 DEF Says

\* The row of an upload after an acknowledged write.
LEMMA AppliedRow ==
  ASSUME Inv, NEW u \in Uploads, NEW w, Apply(u, w)
  PROVE  uploads'[u] = w.row
  BY DEF Apply, Inv, Registers, StoreTypeOK

\* createOrReplayUpload hands out a PUT for the row it inserted, and otherwise
\* tells the state of the row it found.
LEMMA CreateSays ==
  ASSUME Inv, NEW q \in Requests, createOrReplayUpload(q)
  PROVE  Says(q)
  <1> DEFINE u == reqs[q].upload
             row == [NoUpload EXCEPT !.state = "pending", !.id = reqs[q].id,
                                     !.declared = reqs[q].decl,
                                     !.deadline = now + UploadWindow,
                                     !.horizon = reqs[q].expires]
  <1>0. reqs[q].pc = "insert" BY DEF createOrReplayUpload, ReqAt
  <1>1. u \in Uploads /\ reqs[q].id \in Requests /\ reqs[q].decl \in Declarations
    BY <1>0 DEF Inv, Registers, GoodReq, ReqSet
  <1>2. \/ UNCHANGED <<caps, handed, told>>
        \/ AnswerState(q, uploads[u].state) /\ UNCHANGED db
        \/ HandOut(q, "pending") /\ Apply(u, WriteRow(u, row))
    BY DEF createOrReplayUpload, Transaction, Commit, Fails, Refuse, Recover
  <1>3. CASE AnswerState(q, uploads[u].state) /\ UNCHANGED db
    <2>1. uploads'[u].state = uploads[u].state BY <1>3 DEF db, tables
    <2> QED BY <1>1, <1>3, <2>1 DEF Says, AnswerState
  <1>4. CASE HandOut(q, "pending") /\ Apply(u, WriteRow(u, row))
    <2>1. WriteRow(u, row).row = row BY DEF WriteRow, WriteOf
    <2>2. uploads'[u] = row BY <1>1, <1>4, <2>1, AppliedRow
    <2>3. row.state = "pending" /\ row.id = reqs[q].id /\ row.declared = reqs[q].decl
          /\ row.horizon = reqs[q].expires
      BY DEF NoUpload
    <2>4. reqs[q].expires <= reqs[q].expires
      BY DEF Inv, Registers, GoodReq, ReqRow, Time
    <2> HIDE DEF row
    <2>5. Granted(q) BY <2>2, <2>3, <2>4 DEF Granted
    <2> QED BY <1>1, <1>4, <2>2, <2>3, <2>5 DEF Says
  <1>5. CASE UNCHANGED <<caps, handed, told>> BY <1>5 DEF Says
  <1> QED BY <1>2, <1>3, <1>4, <1>5

\* authorizeReplay hands out a PUT once the row's horizon covers it.
LEMMA ReplaySays ==
  ASSUME Inv, NEW q \in Requests, authorizeReplay(q)
  PROVE  Says(q)
  <1> DEFINE u == reqs[q].upload
             horizon == IF reqs[q].expires > uploads[u].horizon
                        THEN reqs[q].expires ELSE uploads[u].horizon
             row == [uploads[u] EXCEPT !.horizon = horizon]
  <1>0. reqs[q].pc = "authorize" BY DEF authorizeReplay, ReqAt
  <1>1. u \in Uploads /\ reqs[q].id \in Requests /\ reqs[q].decl \in Declarations
    BY <1>0 DEF Inv, Registers, GoodReq, ReqSet
  <1>2. \/ UNCHANGED <<caps, handed, told>>
        \/ AnswerState(q, uploads[u].state) /\ UNCHANGED db
        \/ /\ uploadMatchesCommand(q) /\ uploads[u].id = reqs[q].id
           /\ uploadAcceptsWrites(uploads[u])
           /\ HandOut(q, uploads[u].state)
           /\ Apply(u, WriteRow(u, row))
    BY DEF authorizeReplay, Transaction, Commit, Fails, Refuse, Recover
  <1>3. CASE AnswerState(q, uploads[u].state) /\ UNCHANGED db
    <2>1. uploads'[u].state = uploads[u].state BY <1>3 DEF db, tables
    <2> QED BY <1>1, <1>3, <2>1 DEF Says, AnswerState
  <1>4. CASE /\ uploadMatchesCommand(q) /\ uploads[u].id = reqs[q].id
             /\ uploadAcceptsWrites(uploads[u])
             /\ HandOut(q, uploads[u].state)
             /\ Apply(u, WriteRow(u, row))
    <2>1. WriteRow(u, row).row = row BY DEF WriteRow, WriteOf
    <2>2. uploads'[u] = row BY <1>1, <1>4, <2>1, AppliedRow
    <2>3. uploads[u] \in UploadRow /\ reqs[q].expires \in Nat
      BY <1>1 DEF Inv, Registers, StoreTypeOK, GoodReq, ReqRow, Time
    <2>4. row.state = uploads[u].state /\ row.id = uploads[u].id
          /\ row.declared = uploads[u].declared /\ row.horizon = horizon
      BY <2>3 DEF UploadRow
    <2>5. reqs[q].expires <= horizon BY <2>3 DEF UploadRow, Time
    <2>6. uploads[u].declared = reqs[q].decl /\ uploads[u].state # "none"
      BY <1>4 DEF uploadMatchesCommand, uploadAcceptsWrites, ReqUpload
    <2> HIDE DEF row, horizon
    <2>7. Granted(q) BY <1>4, <2>2, <2>4, <2>5, <2>6 DEF Granted
    <2> QED BY <1>1, <1>4, <2>2, <2>4, <2>7 DEF Says
  <1>5. CASE UNCHANGED <<caps, handed, told>> BY <1>5 DEF Says
  <1> QED BY <1>2, <1>3, <1>4, <1>5

\* recoverUnknownUploadCommit hands out a PUT only when the stored row is the
\* request's and covers it, whatever the transaction in doubt will still do.
LEMMA RecoverSays ==
  ASSUME Inv, NEW q \in Requests, recoverUnknownUploadCommit(q)
  PROVE  Says(q)
  <1> DEFINE u == reqs[q].upload
  <1>0. reqs[q].pc = "recover" BY DEF recoverUnknownUploadCommit, ReqAt
  <1>1. u \in Uploads /\ reqs[q].id \in Requests /\ reqs[q].decl \in Declarations
    BY <1>0 DEF Inv, Registers, GoodReq, ReqSet
  <1>2. \/ UNCHANGED <<caps, handed, told>>
        \/ AnswerState(q, uploads[u].state) /\ UNCHANGED db
        \/ /\ uploadMatchesCommand(q) /\ uploadAcceptsWrites(uploads[u])
           /\ CommitShows(q)
           /\ HandOut(q, uploads[u].state)
           /\ UNCHANGED db
    BY DEF recoverUnknownUploadCommit, Fails, Refuse, ReqUpload
  <1>3. CASE AnswerState(q, uploads[u].state) /\ UNCHANGED db
    <2>1. uploads'[u].state = uploads[u].state BY <1>3 DEF db, tables
    <2> QED BY <1>1, <1>3, <2>1 DEF Says, AnswerState
  <1>4. CASE /\ uploadMatchesCommand(q) /\ uploadAcceptsWrites(uploads[u])
             /\ CommitShows(q)
             /\ HandOut(q, uploads[u].state)
             /\ UNCHANGED db
    <2>1. uploads'[u] = uploads[u] BY <1>4 DEF db, tables
    <2>2. uploads[u].horizon \in Nat /\ reqs[q].expires \in Nat
      BY <1>1 DEF Inv, Registers, StoreTypeOK, GoodReq, ReqRow, Time, UploadRow
    <2>3. /\ uploads[u].declared = reqs[q].decl /\ uploads[u].state # "none"
          /\ uploads[u].id = reqs[q].id /\ uploads[u].horizon >= reqs[q].expires
      BY <1>4 DEF uploadMatchesCommand, uploadAcceptsWrites, CommitShows, ReqUpload
    <2>4. reqs[q].expires <= uploads[u].horizon BY <2>2, <2>3
    <2>5. Granted(q) BY <2>1, <2>3, <2>4 DEF Granted
    <2> QED BY <1>1, <1>4, <2>1, <2>5 DEF Says
  <1>5. CASE UNCHANGED <<caps, handed, told>> BY <1>5 DEF Says
  <1> QED BY <1>2, <1>3, <1>4, <1>5

\* completeUploadAttempt and its recovery tell a state that is committed.
LEMMA CompleteSays ==
  ASSUME Inv, NEW q \in Requests, completeUploadAttempt(q) \/ recoverCompletionOutcome(q)
  PROVE  Says(q)
  <1> DEFINE u == reqs[q].upload
             started == [uploads[u] EXCEPT !.state = "finalizing", !.due = now]
             due == IF now < uploads[u].due THEN now ELSE uploads[u].due
             hurried == [uploads[u] EXCEPT !.due = due]
             expired == [uploads[u] EXCEPT !.state = "expired",
                                           !.reason = "upload_deadline_elapsed"]
  <1>0. reqs[q].pc # "idle" /\ UNCHANGED <<caps, handed>>
    BY DEF completeUploadAttempt, recoverCompletionOutcome, ReqAt
  <1>1. u \in Uploads /\ uploads[u] \in UploadRow
    BY <1>0 DEF Inv, Registers, GoodReq, ReqSet, StoreTypeOK
  <1>2. \/ UNCHANGED told
        \/ Answer(q, uploads[u].state) /\ UNCHANGED db
        \/ Answer(q, "finalizing") /\ Apply(u, WriteRow(u, started))
        \/ /\ uploads[u].state = "finalizing"
           /\ Answer(q, "finalizing") /\ Apply(u, WriteRow(u, hurried))
        \/ Answer(q, "expired") /\ Apply(u, transitionPendingExpiredLocked(u))
    <2>1. CASE completeUploadAttempt(q)
      BY <2>1 DEF completeUploadAttempt, Transaction, Commit, Fails, ReadBack
    <2>2. CASE recoverCompletionOutcome(q)
      BY <2>2 DEF recoverCompletionOutcome, Fails, ReqUpload
    <2> QED BY <2>1, <2>2
  <1>3. ASSUME NEW s, Answer(q, s), uploads'[u].state = s PROVE Says(q)
    BY <1>0, <1>1, <1>3 DEF Says, Answer
  <1>4. CASE UNCHANGED told BY <1>0, <1>4 DEF Says
  <1>5. CASE Answer(q, uploads[u].state) /\ UNCHANGED db
    <2>1. uploads'[u].state = uploads[u].state BY <1>5 DEF db, tables
    <2> QED BY <1>3, <1>5, <2>1
  <1>6. CASE Answer(q, "finalizing") /\ Apply(u, WriteRow(u, started))
    <2>1. WriteRow(u, started).row = started BY DEF WriteRow, WriteOf
    <2>2. started.state = "finalizing" BY <1>1 DEF UploadRow
    <2> HIDE DEF started
    <2>3. uploads'[u].state = "finalizing" BY <1>1, <1>6, <2>1, <2>2, AppliedRow
    <2> QED BY <1>3, <1>6, <2>3
  <1>7. CASE /\ uploads[u].state = "finalizing"
             /\ Answer(q, "finalizing") /\ Apply(u, WriteRow(u, hurried))
    <2>1. WriteRow(u, hurried).row = hurried BY DEF WriteRow, WriteOf
    <2>2. hurried.state = "finalizing"
      <3> HIDE DEF due
      <3> QED BY <1>1, <1>7 DEF UploadRow
    <2> HIDE DEF hurried
    <2>3. uploads'[u].state = "finalizing" BY <1>1, <1>7, <2>1, <2>2, AppliedRow
    <2> QED BY <1>3, <1>7, <2>3
  <1>8. CASE Answer(q, "expired") /\ Apply(u, transitionPendingExpiredLocked(u))
    <2>1. transitionPendingExpiredLocked(u).row = expired
      BY DEF transitionPendingExpiredLocked, WriteOf
    <2>2. expired.state = "expired" BY <1>1 DEF UploadRow
    <2> HIDE DEF expired
    <2>3. uploads'[u].state = "expired" BY <1>1, <1>8, <2>1, <2>2, AppliedRow
    <2> QED BY <1>3, <1>8, <2>3
  <1> QED BY <1>2, <1>4, <1>5, <1>6, <1>7, <1>8

\* What every request step says.
LEMMA RequestSays ==
  ASSUME Inv, NEW q \in Requests,
         \/ RequestStep(q)
         \/ CrashRequest(q)
         \/ \E u \in Uploads : ClientCalls(q, u)
  PROVE  Says(q)
  <1>1. CASE UNCHANGED <<caps, handed, told>> BY <1>1 DEF Says
  <1>2. CASE presignReplay(q) BY <1>1, <1>2 DEF presignReplay, storeVars, history
  <1>3. CASE CrashRequest(q) BY <1>1, <1>3 DEF CrashRequest, history
  <1>4. CASE \E u \in Uploads : ClientCalls(q, u)
    BY <1>1, <1>4 DEF ClientCalls, presignCreate, startComplete, storeVars, history
  <1> QED BY <1>2, <1>3, <1>4, CreateSays, ReplaySays, RecoverSays, CompleteSays
          DEF RequestStep

\* The two GET handlers tell the committed state, and redirect to the final
\* key of a ready upload.
LEMMA ReadsHistory ==
  ASSUME Inv, EffectAfter, NEW u \in Uploads, ClientReads(u)
  PROVE  HistoryAfter
  <1>0. UNCHANGED <<uploads, caps, handed>> /\ Tell(u, uploads[u].state)
    BY DEF ClientReads, getUploadByID, authorizeContentRead, storeVars, db, tables
  <1>1. /\ told' \in [Uploads -> States]
        /\ \A v \in Uploads : HistoryFor(uploads'[v], told'[v], handed[v], redirected[v], caps[v])
    BY <1>0, TellKeeps
  <1>2. redirected \in [Uploads -> SUBSET Images] BY DEF Inv, Registers
  <1>3. \/ UNCHANGED redirected
        \/ /\ uploads[u].state = "ready"
           /\ redirected' = [redirected EXCEPT ![u] = @ \cup {uploads[u].final}]
    <2>1. CASE getUploadByID(u) BY <2>1 DEF getUploadByID
    <2>2. CASE authorizeContentRead(u) BY <1>2, <2>2 DEF authorizeContentRead
    <2> QED BY <2>1, <2>2 DEF ClientReads
  <1>4. CASE UNCHANGED redirected
    <2>1. \A v \in Uploads : History(v)' BY <1>0, <1>1, <1>4 DEF History
    <2> QED BY <1>0, <1>1, <1>4, <2>1 DEF HistoryAfter, Inv, Registers, StoreTypeOK
  <1>5. CASE /\ uploads[u].state = "ready"
             /\ redirected' = [redirected EXCEPT ![u] = @ \cup {uploads[u].final}]
    <2>1. uploads[u].final \in Images
      BY <1>5 DEF Inv, Registers, StoreTypeOK, Phase, PhaseFor
    <2>2. redirected' \in [Uploads -> SUBSET Images] BY <1>2, <1>5, <2>1
    <2>3. ASSUME NEW v \in Uploads PROVE History(v)'
      <3>1. HistoryFor(uploads'[v], told'[v], handed[v], redirected[v], caps[v]) BY <1>1
      <3>2. \A k \in redirected'[v] : k \in redirected[v] \/ (v = u /\ k = uploads[u].final)
        BY <1>2, <1>5
      <3>3. \A k \in redirected'[v] : uploads'[v].state = "ready" /\ uploads'[v].final = k
        BY <1>0, <1>5, <3>1, <3>2 DEF HistoryFor
      <3> QED BY <1>0, <3>1, <3>3 DEF History, HistoryFor
    <2> QED BY <1>0, <1>1, <2>2, <2>3 DEF HistoryAfter, Inv, Registers, StoreTypeOK
  <1> QED BY <1>3, <1>4, <1>5

-----------------------------------------------------------------------------
(* The invariant.                                                          *)

\* Init sets up an empty database and an empty bucket.
LEMMA InitInv == Init => Inv
  <1> SUFFICES ASSUME Init PROVE Inv OBVIOUS
  <1>0. Registers BY InitRegisters
  <1> USE DEF Init, StoreInit, ApiInit, FinInit, JanInit
  <1>1. ASSUME NEW u \in Uploads PROVE Phase(u)
    <2>1. /\ uploads[u].state = "none" /\ uploads[u].horizon = 0
          /\ uploads[u].final = Null /\ uploads[u].reason = Null
          /\ candidates[u] = {} /\ tombstoned[u] = {}
      BY DEF NoUpload
    <2>2. Null # "upload_deadline_elapsed" BY ReasonAssumption DEF ExpiryReasons
    <2> QED BY <2>1, <2>2 DEF Phase, PhaseFor, Terminal
  <1>2. \A u \in Uploads : DoubtLegal(u) BY DEF DoubtLegal, Locked
  <1>3. ASSUME NEW u \in Uploads PROVE History(u)
    <2>1. /\ told[u] = "none" /\ handed[u] = {} /\ redirected[u] = {}
          /\ caps[u] = 0 /\ uploads[u].horizon = 0
      BY DEF NoUpload
    <2> QED BY <2>1 DEF History, HistoryFor, Terminal
  <1>4. \A u \in Uploads, k \in Images : CandidateKey(u, k) BY DEF CandidateKey, Keys
  <1>5. \A f \in Finalizers : FinHolds(f) BY DEF FinHolds, WillPut, FinIdle
  <1>6. \A j \in Janitors : JanHolds(j) BY DEF JanHolds, JanWaits
  <1>7. inflight = {} OBVIOUS
  <1> QED BY <1>0, <1>1, <1>2, <1>3, <1>4, <1>5, <1>6, <1>7 DEF Inv

\* What is left to show of a step whose effect is known.
WorkersAfter ==
  /\ now' \in Time
  /\ faults' \in Nat
  /\ fin' \in [Finalizers -> GoodFin]
  /\ jan' \in [Janitors -> GoodJan]
  /\ reqs' \in [Requests -> GoodReq]
  /\ \A r \in Requests : reqs'[r].pc = "signReplay" => uploads'[reqs'[r].upload].state # "none"
  /\ \A f \in Finalizers : FinHolds(f)'
  /\ \A j \in Janitors : JanHolds(j)'

\* The parts of the invariant after a step, put together.
LEMMA Together ==
  ASSUME EffectAfter, HistoryAfter, WorkersAfter
  PROVE  Inv'
  <1>1. \A u \in Uploads : doubt'[u] = Null \/ IsWrite(doubt'[u])
    BY DEF EffectAfter, DoubtLegal, Locked, Legal, LegalFor
  <1>2. StoreTypeOK'
    BY <1>1 DEF StoreTypeOK, EffectAfter, TablesOK, BucketOK, HistoryAfter, WorkersAfter
  <1>3. Registers'
    BY <1>2 DEF Registers, EffectAfter, TablesOK, HistoryAfter, WorkersAfter
  <1> QED BY <1>3 DEF Inv, EffectAfter, HistoryAfter, WorkersAfter

\* At most one fault is counted in a step.
LEMMA FaultType ==
  ASSUME Inv, UNCHANGED faults \/ Fault
  PROVE  faults' \in Nat
  <1>1. faults \in Nat BY DEF Inv, Registers, StoreTypeOK
  <1> QED BY <1>1 DEF Fault

\* A request that is about to sign the PUT of a replay knows a row, which stays.
LEMMA SigningStays ==
  ASSUME Inv, EffectAfter, NEW r \in Requests, reqs'[r] = reqs[r],
         reqs'[r].pc = "signReplay"
  PROVE  uploads'[reqs'[r].upload].state # "none"
  <1>1. reqs[r].upload \in Uploads BY DEF Inv, Registers, GoodReq, ReqSet
  <1>2. uploads[reqs[r].upload].state # "none" BY DEF Inv, Registers
  <1> QED BY <1>1, <1>2 DEF EffectAfter, Monotone

\* A request comes to sign the PUT of a replay when it has found the row.
LEMMA SigningRow ==
  ASSUME Inv, NEW q \in Requests,
         \/ RequestStep(q)
         \/ CrashRequest(q)
         \/ \E u \in Uploads : ClientCalls(q, u),
         reqs'[q].pc = "signReplay"
  PROVE  uploads'[reqs'[q].upload].state # "none"
  <1>0. reqs \in [Requests -> GoodReq] /\ reqs[q] \in ReqRow BY DEF Inv, Registers, GoodReq
  <1>1. ~Respond(q)
    <2>1. ReqIdle.pc = "idle" BY DEF ReqIdle
    <2> QED BY <1>0, <2>1 DEF Respond
  <1>2. ~HandOut(q, "pending") /\ ~Refuse(q) /\ \A s : ~HandOut(q, s) /\ ~AnswerState(q, s) /\ ~Answer(q, s)
    BY <1>1 DEF HandOut, Refuse, AnswerState, Answer
  <1>3. ASSUME NEW b, Recover(q, b) PROVE FALSE
    <2>1. reqs'[q].pc = "recover" BY <1>0, <1>3 DEF Recover, ReqRow
    <2> QED BY <2>1
  <1>4. CASE createOrReplayUpload(q)
    <2>1. /\ ReqGoto(q, "signReplay") /\ UNCHANGED db
          /\ uploads[reqs[q].upload].state # "none"
      BY <1>2, <1>3, <1>4 DEF createOrReplayUpload, Transaction, Commit, Fails
    <2>2. reqs'[q].upload = reqs[q].upload BY <1>0, <2>1 DEF ReqGoto, ReqRow
    <2> QED BY <2>1, <2>2 DEF db, tables
  <1>5. CASE presignReplay(q)
    <2>1. reqs'[q].pc = "authorize" BY <1>0, <1>5 DEF presignReplay, ReqRow
    <2> QED BY <2>1
  <1>6. CASE authorizeReplay(q)
    BY <1>2, <1>3, <1>6 DEF authorizeReplay, Transaction, Commit, Fails
  <1>7. CASE recoverUnknownUploadCommit(q)
    BY <1>2, <1>7 DEF recoverUnknownUploadCommit, Fails
  <1>8. ASSUME NEW d, ReadBack(q, d) PROVE FALSE
    <2>1. reqs'[q].pc = "readback" BY <1>0, <1>8 DEF ReadBack, ReqRow
    <2> QED BY <2>1
  <1>9. CASE completeUploadAttempt(q)
    BY <1>1, <1>2, <1>8, <1>9 DEF completeUploadAttempt, Transaction, Commit, Fails
  <1>10. CASE recoverCompletionOutcome(q)
    <2>1. reqs' = [reqs EXCEPT ![q].pc = "complete", ![q].attempt = @ + 1, ![q].dueBy = Null]
      BY <1>1, <1>2, <1>10 DEF recoverCompletionOutcome, Fails
    <2>2. reqs'[q].pc = "complete" BY <1>0, <2>1 DEF ReqRow
    <2> QED BY <2>2
  <1>11. CASE CrashRequest(q) BY <1>1, <1>11 DEF CrashRequest
  <1>12. ASSUME NEW u \in Uploads, ClientCalls(q, u) PROVE FALSE
    <2> DEFINE create(d) == [ReqIdle EXCEPT !.pc = "insert", !.upload = u, !.decl = d,
                                            !.id = q, !.expires = now + PresignTTL]
               complete == [ReqIdle EXCEPT !.pc = "complete", !.upload = u, !.attempt = 1]
    <2>1. (\A d : create(d).pc = "insert") /\ complete.pc = "complete" BY DEF ReqIdle
    <2>2. \/ \E d \in Declarations : reqs' = [reqs EXCEPT ![q] = create(d)]
          \/ reqs' = [reqs EXCEPT ![q] = complete]
      BY <1>12 DEF ClientCalls, presignCreate, presignUploadPUT, startComplete
    <2> HIDE DEF create, complete
    <2> QED BY <1>0, <2>1, <2>2
  <1> QED BY <1>4, <1>5, <1>6, <1>7, <1>9, <1>10, <1>11, <1>12 DEF RequestStep

\* A step of a request keeps the invariant.
LEMMA RequestInv ==
  ASSUME Inv, NEW q \in Requests,
         \/ RequestStep(q)
         \/ CrashRequest(q)
         \/ \E u \in Uploads : ClientCalls(q, u),
         UNCHANGED <<fin, jan>>
  PROVE  Inv'
  <1>0. Registers BY DEF Inv
  <1>1. UNCHANGED <<now, bucket, redirected>> /\ (UNCHANGED faults \/ Fault) BY RequestFrame
  <1>2. EffectAfter
    <2>1. DbEffect BY RequestDb
    <2> QED BY <1>1, <2>1, EffectKeeps DEF Effect
  <1>3. HistoryAfter BY <1>1, <1>2, RequestSays, SaysKeeps
  <1>4. ReqKept(q) BY <1>0, RequestReqs
  <1>5. now \in Nat /\ now' = now BY <1>1 DEF Inv, Registers, StoreTypeOK, Time
  <1>6. now <= now' /\ now' \in Nat BY <1>5
  <1>7. ASSUME NEW r \in Requests, reqs'[r].pc = "signReplay"
        PROVE  uploads'[reqs'[r].upload].state # "none"
    <2>1. CASE r = q BY <1>7, <2>1, SigningRow
    <2>2. CASE r # q BY <1>2, <1>4, <1>7, <2>2, SigningStays DEF ReqKept
    <2> QED BY <2>1, <2>2
  <1>8. \A f \in Finalizers : FinHolds(f)' BY <1>2, OtherFinHolds
  <1>9. \A j \in Janitors : JanHolds(j)' BY <1>2, <1>6, OtherJanHolds
  <1>10. faults' \in Nat BY <1>1, FaultType
  <1>11. fin' \in [Finalizers -> GoodFin] /\ jan' \in [Janitors -> GoodJan] BY <1>0 DEF Registers
  <1>12. WorkersAfter
    BY <1>4, <1>6, <1>7, <1>8, <1>9, <1>10, <1>11 DEF WorkersAfter, ReqKept, Time
  <1> QED BY <1>2, <1>3, <1>12, Together

\* The registers of requests and what clients know, after a step of a worker.
LEMMA RequestsWait ==
  ASSUME Inv, EffectAfter, UNCHANGED apiVars, UNCHANGED caps
  PROVE  /\ HistoryAfter
         /\ reqs' \in [Requests -> GoodReq]
         /\ \A r \in Requests : reqs'[r].pc = "signReplay" => uploads'[reqs'[r].upload].state # "none"
  <1>1. UNCHANGED reqs /\ UNCHANGED history BY DEF apiVars
  <1>2. HistoryAfter BY <1>1, SilentHistory
  <1>3. reqs' \in [Requests -> GoodReq] BY <1>1 DEF Inv, Registers
  <1>4. \A r \in Requests : reqs'[r].pc = "signReplay" => uploads'[reqs'[r].upload].state # "none"
    BY <1>1, SigningStays
  <1> QED BY <1>2, <1>3, <1>4

\* A step of a finalizer keeps the invariant.
LEMMA FinalizerInv ==
  ASSUME Inv, NEW f \in Finalizers, FinalizerStep(f) \/ CrashFinalizer(f),
         UNCHANGED <<apiVars, jan>>
  PROVE  Inv'
  <1>0. Registers BY DEF Inv
  <1>1. Frame BY FinalizerFrame
  <1>2. EffectAfter BY FinalizerEffect, EffectKeeps
  <1>3. FinKept(f)
    BY <1>0, ClaimFin, MovingSteps, RenewFin, ReadFin DEF FinalizerStep
  <1>4. now \in Nat /\ now' = now /\ UNCHANGED caps
    BY <1>1 DEF Frame, Inv, Registers, StoreTypeOK, Time
  <1>5. now <= now' /\ now' \in Nat BY <1>4
  <1>6. \A g \in Finalizers : FinHolds(g)' BY <1>2, <1>3, FinalizersHold
  <1>7. \A j \in Janitors : JanHolds(j)' BY <1>2, <1>5, OtherJanHolds
  <1>8. faults' \in Nat BY <1>1, FaultType DEF Frame
  <1>9. /\ HistoryAfter
        /\ reqs' \in [Requests -> GoodReq]
        /\ \A r \in Requests : reqs'[r].pc = "signReplay" => uploads'[reqs'[r].upload].state # "none"
    BY <1>2, <1>4, RequestsWait
  <1>10. jan' \in [Janitors -> GoodJan] BY <1>0 DEF Registers
  <1>11. WorkersAfter
    BY <1>3, <1>5, <1>6, <1>7, <1>8, <1>9, <1>10 DEF WorkersAfter, FinKept, Time
  <1> QED BY <1>2, <1>9, <1>11, Together

\* A step of a maintenance loop keeps the invariant.
LEMMA JanitorInv ==
  ASSUME Inv, NEW j \in Janitors, JanitorStep(j) \/ CrashJanitor(j),
         UNCHANGED <<apiVars, fin>>
  PROVE  Inv'
  <1>0. Registers BY DEF Inv
  <1>1. Frame BY JanitorFrame
  <1>2. EffectAfter BY JanitorEffect, EffectKeeps
  <1>3. JanKept(j) BY <1>0, JanitorJan
  <1>4. now \in Nat /\ now' = now /\ UNCHANGED caps
    BY <1>1 DEF Frame, Inv, Registers, StoreTypeOK, Time
  <1>5. \A g \in Finalizers : FinHolds(g)' BY <1>2, OtherFinHolds
  <1>6. \A i \in Janitors : JanHolds(i)' BY <1>2, <1>3, JanitorsHold
  <1>7. faults' \in Nat BY <1>1, FaultType DEF Frame
  <1>8. /\ HistoryAfter
        /\ reqs' \in [Requests -> GoodReq]
        /\ \A r \in Requests : reqs'[r].pc = "signReplay" => uploads'[reqs'[r].upload].state # "none"
    BY <1>2, <1>4, RequestsWait
  <1>9. fin' \in [Finalizers -> GoodFin] BY <1>0 DEF Registers
  <1>10. WorkersAfter
    BY <1>3, <1>4, <1>5, <1>6, <1>7, <1>8, <1>9 DEF WorkersAfter, JanKept, Time
  <1> QED BY <1>2, <1>8, <1>10, Together

\* A step of the clock, the database, the bucket or a client's PUT, or no step,
\* keeps the invariant.
LEMMA EnvironmentInv ==
  ASSUME Inv, EnvironmentNext \/ UNCHANGED storeVars, UNCHANGED <<apiVars, fin, jan>>
  PROVE  Inv'
  <1>0. Registers /\ now \in Nat /\ faults \in Nat BY DEF Inv, Registers, StoreTypeOK, Time
  <1>1. EffectAfter
    <2>1. CASE EnvironmentNext BY <2>1, EnvironmentEffect, EffectKeeps
    <2>2. CASE UNCHANGED storeVars
      BY <2>2, EffectKeeps DEF storeVars, Effect, DbEffect
    <2> QED BY <2>1, <2>2
  <1>2. /\ now' = now \/ now' = now + 1
        /\ UNCHANGED faults \/ Fault
        /\ UNCHANGED caps
    <2>1. CASE Tick BY <2>1 DEF Tick
    <2>2. ASSUME NEW u \in Uploads, Settle(u) PROVE UNCHANGED <<now, faults, caps>>
      BY <2>2 DEF Settle
    <2>3. ASSUME NEW m \in inflight, Land(m) PROVE UNCHANGED <<now, faults, caps>>
      BY <2>3 DEF Land
    <2>4. ASSUME NEW u \in Uploads, NEW c \in Contents, ClientPut(u, c)
          PROVE  UNCHANGED <<now, caps>> /\ (UNCHANGED faults \/ Fault)
      BY <2>4 DEF ClientPut
    <2>5. CASE UNCHANGED storeVars BY <2>5 DEF storeVars
    <2> QED BY <2>1, <2>2, <2>3, <2>4, <2>5 DEF EnvironmentNext
  <1>3. now <= now' /\ now' \in Nat BY <1>0, <1>2
  <1>4. faults' \in Nat BY <1>2, FaultType
  <1>5. \A f \in Finalizers : FinHolds(f)' BY <1>1, OtherFinHolds
  <1>6. \A j \in Janitors : JanHolds(j)' BY <1>1, <1>3, OtherJanHolds
  <1>7. /\ HistoryAfter
        /\ reqs' \in [Requests -> GoodReq]
        /\ \A r \in Requests : reqs'[r].pc = "signReplay" => uploads'[reqs'[r].upload].state # "none"
    BY <1>1, <1>2, RequestsWait
  <1>8. fin' \in [Finalizers -> GoodFin] /\ jan' \in [Janitors -> GoodJan] BY <1>0 DEF Registers
  <1>9. WorkersAfter BY <1>3, <1>4, <1>5, <1>6, <1>7, <1>8 DEF WorkersAfter, Time
  <1> QED BY <1>1, <1>7, <1>9, Together

\* A GET keeps the invariant.
LEMMA ReadsInv ==
  ASSUME Inv, NEW u \in Uploads, ClientReads(u), UNCHANGED <<fin, jan>>
  PROVE  Inv'
  <1>0. UNCHANGED storeVars /\ UNCHANGED reqs
    BY DEF ClientReads, getUploadByID, authorizeContentRead
  <1>1. Registers /\ now \in Nat /\ faults \in Nat BY DEF Inv, Registers, StoreTypeOK, Time
  <1>2. EffectAfter BY <1>0, EffectKeeps DEF storeVars, Effect, DbEffect
  <1>3. now' = now /\ faults' = faults BY <1>0 DEF storeVars
  <1>4. now <= now' /\ now' \in Nat /\ faults' \in Nat BY <1>1, <1>3
  <1>5. HistoryAfter BY <1>2, ReadsHistory
  <1>6. \A f \in Finalizers : FinHolds(f)' BY <1>2, OtherFinHolds
  <1>7. \A j \in Janitors : JanHolds(j)' BY <1>2, <1>4, OtherJanHolds
  <1>8. \A r \in Requests : reqs'[r].pc = "signReplay" => uploads'[reqs'[r].upload].state # "none"
    BY <1>0, <1>2, SigningStays
  <1>9. /\ fin' \in [Finalizers -> GoodFin] /\ jan' \in [Janitors -> GoodJan]
        /\ reqs' \in [Requests -> GoodReq]
    BY <1>0, <1>1 DEF Registers
  <1>10. WorkersAfter BY <1>4, <1>6, <1>7, <1>8, <1>9 DEF WorkersAfter, Time
  <1> QED BY <1>2, <1>5, <1>10, Together

\* The registers, the tables with the transactions in doubt, the bucket with
\* the requests in flight, and what clients know are together inductive, for
\* any numbers of uploads, requests, finalizers, maintenance loops and faults.
THEOREM StorageInvariant == Spec => []Inv
  <1>1. Inv /\ [Next]_vars => Inv'
    <2> SUFFICES ASSUME Inv, [Next]_vars PROVE Inv' OBVIOUS
    <2>1. CASE EnvironmentNext /\ UNCHANGED <<apiVars, fin, jan>> BY <2>1, EnvironmentInv
    <2>2. CASE ApiNext /\ UNCHANGED <<fin, jan>> BY <2>2, RequestInv DEF ApiNext
    <2>3. CASE FinalizerNext /\ UNCHANGED <<apiVars, jan>>
      BY <2>3, FinalizerInv DEF FinalizerNext
    <2>4. CASE MaintenanceNext /\ UNCHANGED <<apiVars, fin>>
      BY <2>4, JanitorInv DEF MaintenanceNext
    <2>5. CASE (\E u \in Uploads : ClientReads(u)) /\ UNCHANGED <<fin, jan>> BY <2>5, ReadsInv
    <2>6. CASE UNCHANGED vars BY <2>6, EnvironmentInv DEF vars
    <2> QED BY <2>1, <2>2, <2>3, <2>4, <2>5, <2>6 DEF Next, ServiceNext
  <1> QED BY <1>1, InitInv, PTL DEF Spec

-----------------------------------------------------------------------------
(* The theorems.                                                           *)

\* Every variable of the service has its type in every reachable state.
THEOREM TypeCorrect == Spec => []TypeOK
  <1>1. Inv => TypeOK
    <2> SUFFICES ASSUME Inv PROVE TypeOK OBVIOUS
    <2>1. Registers BY DEF Inv
    <2>2. FinTypeOK BY <2>1 DEF Registers, FinTypeOK, GoodFin
    <2>3. JanTypeOK BY <2>1 DEF Registers, JanTypeOK, GoodJan
    <2>4. ApiTypeOK BY <2>1 DEF Registers, ApiTypeOK, GoodReq
    <2> QED BY <2>1, <2>2, <2>3, <2>4 DEF TypeOK, Registers
  <1> QED BY <1>1, StorageInvariant, PTL

\* Nothing is left in the bucket for ever: a candidate is tracked before its
\* bytes can exist, and a terminal upload has tombstones for staging and every
\* candidate it does not publish, for any number of racing finalizers.
THEOREM NoOrphans == Spec => []NoOrphanedObject
  <1>1. Inv => NoOrphanedObject
    <2> SUFFICES ASSUME Inv, NEW u \in Uploads
                 PROVE  /\ Written(u) \subseteq candidates[u]
                        /\ uploads[u].state \in Terminal =>
                             {Staging} \cup (candidates[u] \ {uploads[u].final}) \subseteq tombstoned[u]
      BY DEF NoOrphanedObject
    <2>1. ASSUME NEW k \in Written(u) PROVE k \in candidates[u]
      <3>1. k \in Images /\ k # Staging BY StoreAssumption DEF Written
      <3>2. CASE objects[u][k] # Null BY <3>1, <3>2 DEF Inv, CandidateKey
      <3>3. ASSUME NEW m \in inflight, m.upload = u, m.key = k, m.content # Null
            PROVE  k \in candidates[u]
        BY <3>1, <3>3 DEF Inv, Allowed
      <3>4. ASSUME NEW f \in Finalizers, WillPut(f), fin[f].upload = u, fin[f].img = k
            PROVE  k \in candidates[u]
        BY <3>4 DEF Inv, FinHolds
      <3> QED BY <3>2, <3>3, <3>4 DEF Written
    <2> QED BY <2>1 DEF Inv, Phase, PhaseFor
  <1> QED BY <1>1, StorageInvariant, PTL

\* A ready upload can be read for ever: the final key holds the verified image,
\* and no DELETE of it exists, for any number of maintenance loops and faults.
THEOREM ReadyIsDurable == Spec => []ReadyContentDurable
  <1>1. Inv => ReadyContentDurable
    <2> SUFFICES ASSUME Inv, NEW u \in Uploads, uploads[u].state = "ready"
                 PROVE  LET k == uploads[u].final IN
                        /\ objects[u][k] = k
                        /\ k \notin tombstoned[u]
                        /\ \A m \in inflight : m.upload = u /\ m.key = k => m.content # Null
                        /\ \A j \in Janitors :
                             ~(JanAt(j, "delete") /\ jan[j].upload = u /\ jan[j].key = k)
      BY DEF ReadyContentDurable
    <2> DEFINE k == uploads[u].final
    <2>1. objects[u][k] = k /\ k \notin tombstoned[u] /\ k \in candidates[u]
      BY DEF Inv, Phase, PhaseFor
    <2>2. k # Null BY <2>1, StoreAssumption DEF Inv, Registers, StoreTypeOK, Contents
    <2>3. ASSUME NEW m \in inflight, m.upload = u, m.key = k PROVE m.content # Null
      <3>1. Allowed(u, k, m.content) BY <2>3 DEF Inv
      <3>2. k # Staging
        BY <2>1, StoreAssumption DEF Inv, Registers, StoreTypeOK
      <3> QED BY <2>1, <2>2, <3>1, <3>2 DEF Allowed
    <2>4. ASSUME NEW j \in Janitors, JanAt(j, "delete"), jan[j].upload = u, jan[j].key = k
          PROVE  FALSE
      BY <2>1, <2>4 DEF Inv, JanHolds, JanAt
    <2> QED BY <2>1, <2>3, <2>4
  <1> QED BY <1>1, StorageInvariant, PTL

\* Staging is never deleted under a client that may still PUT: every capability
\* handed out ends within the write horizon, which the tombstone and every
\* DELETE of staging wait for, also when the commit that recorded it was in
\* doubt and any number of replays raced.
THEOREM CapabilitiesAreCovered == Spec => []CapabilityCovered
  <1>1. Inv => CapabilityCovered
    <2> SUFFICES ASSUME Inv, NEW u \in Uploads
                 PROVE  /\ caps[u] <= uploads[u].horizon
                        /\ Staging \in tombstoned[u] => caps[u] <= duty[u][Staging].notBefore
                        /\ \A j \in Janitors :
                             JanAt(j, "delete") /\ jan[j].upload = u /\ jan[j].key = Staging =>
                               caps[u] <= now
      BY DEF CapabilityCovered
    <2>1. caps[u] <= uploads[u].horizon BY DEF Inv, History, HistoryFor
    <2>2. Staging \in tombstoned[u] => uploads[u].horizon = duty[u][Staging].notBefore
      BY DEF Inv, Phase, PhaseFor
    <2>3. ASSUME NEW j \in Janitors, JanAt(j, "delete"), jan[j].upload = u, jan[j].key = Staging
          PROVE  caps[u] <= now
      <3>1. Staging \in tombstoned[u] /\ duty[u][Staging].notBefore <= now
        BY <2>3 DEF Inv, JanHolds, JanAt
      <3>2. caps[u] \in Nat /\ now \in Nat /\ uploads[u].horizon \in Nat
        BY DEF Inv, Registers, StoreTypeOK, UploadRow, Time
      <3> QED BY <2>1, <2>2, <3>1, <3>2
    <2> QED BY <2>1, <2>2, <2>3
  <1> QED BY <1>1, StorageInvariant, PTL

\* Every capability names the row of its idempotency key and what its client
\* declared, for any number of creates that race on one key.
THEOREM CapabilitiesNameRows == Spec => []CapabilityNamesRow
  <1>1. Inv => CapabilityNamesRow BY DEF Inv, History, HistoryFor, CapabilityNamesRow
  <1> QED BY <1>1, StorageInvariant, PTL

\* What a client was told stays true, whatever transactions were in doubt when
\* the answer was given and however late they are applied.
THEOREM AnswersHold == Spec => []AnswersStayTrue
  <1>1. Inv => AnswersStayTrue BY DEF Inv, History, HistoryFor, AnswersStayTrue
  <1> QED BY <1>1, StorageInvariant, PTL

\* Every redirect of GET /content leads to the verified image for ever.
THEOREM RedirectsHold == Spec => []RedirectsResolve
  <1>1. Inv => RedirectsResolve
    <2> SUFFICES ASSUME Inv, NEW u \in Uploads, NEW k \in redirected[u]
                 PROVE  objects[u][k] = k
      BY DEF RedirectsResolve
    <2>1. uploads[u].state = "ready" /\ uploads[u].final = k BY DEF Inv, History, HistoryFor
    <2> QED BY <2>1 DEF Inv, Phase, PhaseFor
  <1> QED BY <1>1, StorageInvariant, PTL
=============================================================================
