-------------------------- MODULE LifecycleProofs ---------------------------
(***************************************************************************)
(* Every transaction of the service writes rows that the constraints of    *)
(* migrations/0001_initial.sql allow, whenever it is applied, and leaves   *)
(* the running claim of another worker alone.  The bytes behind an upload  *)
(* come from its client: what is tracked and published arrived in staging, *)
(* and an upload is written off as missing only when nothing arrived in    *)
(* time.  The service therefore implements the lifecycle of module         *)
(* UploadLifecycle.                                                        *)
(***************************************************************************)
EXTENDS ServiceProofs

-----------------------------------------------------------------------------
(* The rows and duties that the schema allows.                             *)

Missing == "staging_missing_after_write_window"

\* The claim columns of a row.
ClaimOK(row) ==
  /\ (row.claim = Null) = (row.claimExp = 0)
  /\ row.claim # Null => row.state = "finalizing"

\* Its times and its reason, at time t.
WindowAt(row, t) ==
  /\ row.state # "none" => row.horizon <= row.deadline + PresignTTL
  /\ row.state = "rejected" <=> row.reason \in RejectReasons
  /\ row.state = "expired" <=> row.reason \in ExpiryReasons
  /\ row.reason = Missing => t >= row.deadline /\ t >= row.horizon

WindowOK(row) == WindowAt(row, now)
RowOK(row) == ClaimOK(row) /\ WindowOK(row)

\* A deletion duty is not due before it may be executed, and is reserved until
\* some time or not at all.
DutyOK(d) == d.next >= d.notBefore /\ (d.token = Null) = (d.expires = 0)

DutiesOK(u) ==
  /\ tombstoned[u] \subseteq {Staging} \cup candidates[u]
  /\ \A k \in tombstoned[u] : DutyOK(duty[u][k])

\* A loop that applies the result of a DELETE holds a duty that was due.
ApplyHolds(j) ==
  jan[j].pc = "apply" =>
    /\ jan[j].key \in tombstoned[jan[j].upload]
    /\ duty[jan[j].upload][jan[j].key].notBefore <= now

\* A PUT was signed at most the presign time ahead.
SignedOK(q) == reqs[q].expires <= now + PresignTTL

SchemaInv ==
  /\ \A u \in Uploads : RowOK(uploads[u])
  /\ \A u \in Uploads : Locked(u) => RowOK(doubt[u].row)
  /\ \A u \in Uploads : DutiesOK(u)
  /\ \A j \in Janitors : ApplyHolds(j)
  /\ \A q \in Requests : SignedOK(q)

-----------------------------------------------------------------------------
(* What the transactions of the service write.                             *)

\* A claim is changed when there is none, when its lease has run out, or by
\* the step of the worker that holds it.
ClaimRespected(u, row) ==
  \/ ClaimColumns(row) = ClaimColumns(uploads[u])
  \/ uploads[u].claim = Null
  \/ uploads[u].claimExp <= now
  \/ \E f \in Finalizers : fin[f].token = uploads[u].claim /\ fin'[f] # fin[f]

\* Only a worker that has captured bytes tracks one more candidate.
Tracks(u, cands) ==
  \/ cands = candidates[u]
  \/ \E f \in Finalizers : /\ fin[f].pc = "register" /\ fin[f].upload = u
                           /\ cands = candidates[u] \cup {fin[f].img}

\* Only a worker that found staging empty writes an upload off as missing.
WritesOff(u) ==
  /\ uploads[u].state = "finalizing"
  /\ \E f \in Finalizers : fin[f].pc = "expire" /\ fin[f].upload = u

\* Deletion duties are for staging and tracked candidates.
TombsOK(w) ==
  /\ DOMAIN w.tombs \subseteq {Staging} \cup w.cands
  /\ \A k \in DOMAIN w.tombs : w.tombs[k] \in Time

Writes(u, w) ==
  /\ RowOK(w.row)
  /\ TombsOK(w)
  /\ uploads[u].state # "none" => w.row.deadline = uploads[u].deadline
  /\ \/ w.row.horizon = uploads[u].horizon
     \/ uploads[u].state = "none"
     \/ now < uploads[u].deadline
  /\ Tracks(u, w.cands)
  /\ w.row.reason = Missing => WritesOff(u)
  /\ ClaimRespected(u, w.row)

\* A sweep books a duty: it reserves it or sets its next attempt.
Books(u, k) ==
  \E d \in DutyRow :
    /\ d.notBefore = duty[u][k].notBefore
    /\ DutyOK(duty[u][k]) => DutyOK(d)
    /\ SetDuty(u, k, d)

WriteEffect ==
  \/ UNCHANGED db
  \/ \E u \in Uploads, k \in Keys : Books(u, k)
  \/ \E u \in Uploads : Ends(u)
  \/ \E u \in Uploads : \E w : Writes(u, w) /\ Commits(u, w)

-----------------------------------------------------------------------------
(* The transactions of the finalizer.                                      *)

\* A step to another control point changes the registers.
LEMMA Moved ==
  ASSUME Inv, NEW f \in Finalizers, fin[f].pc # "idle",
         Stop(f) \/ \E pc : pc # fin[f].pc /\ Goto(f, pc)
  PROVE  fin'[f] # fin[f]
  <1>0. fin \in [Finalizers -> GoodFin] /\ fin[f] \in FinRow BY DEF Inv, Registers, GoodFin
  <1>1. CASE Stop(f) BY <1>0, <1>1 DEF Stop, FinIdle
  <1>2. ASSUME NEW pc, pc # fin[f].pc, Goto(f, pc) PROVE fin'[f] # fin[f]
    <2>1. fin'[f].pc = pc BY <1>0, <1>2 DEF Goto, FinRow
    <2> QED BY <1>2, <2>1
  <1> QED BY <1>1, <1>2

\* A row that keeps its state, times and reason keeps them sound.
LEMMA WindowKept ==
  ASSUME NEW row, NEW new, WindowOK(row), new.state = row.state,
         new.deadline = row.deadline, new.horizon = row.horizon, new.reason = row.reason
  PROVE  WindowOK(new)
  BY DEF WindowOK, WindowAt

\* The row of a worker that found its claim active, and its token.
LEMMA Claimed ==
  ASSUME Inv, SchemaInv, NEW f \in Finalizers, fin[f].pc # "idle", Active(f)
  PROVE  /\ fin[f].upload \in Uploads
         /\ uploads[fin[f].upload] \in UploadRow
         /\ uploads[fin[f].upload].state = "finalizing"
         /\ fin[f].token = uploads[fin[f].upload].claim
         /\ uploads[fin[f].upload].reason = Null
         /\ RowOK(uploads[fin[f].upload])
  <1>1. /\ fin[f].upload \in Uploads
        /\ uploads[fin[f].upload] \in UploadRow
        /\ uploads[fin[f].upload].state = "finalizing"
    BY ActiveRow DEF Row
  <1>2. fin[f].token = uploads[fin[f].upload].claim BY DEF Active, OwnsClaim, Row
  <1>3. RowOK(uploads[fin[f].upload]) BY <1>1 DEF SchemaInv
  <1>4. uploads[fin[f].upload].reason = Null
    BY <1>1, <1>3 DEF RowOK, WindowOK, WindowAt, UploadRow
  <1> QED BY <1>1, <1>2, <1>3, <1>4

\* What a transaction asks for besides the row it writes.
LEMMA TombsWritten ==
  ASSUME Inv, NEW u \in Uploads, NEW row, NEW cands, NEW keys,
         keys \subseteq {Staging} \cup cands
  PROVE  /\ WriteOf(u, row, cands, keys).row = row
         /\ WriteOf(u, row, cands, keys).cands = cands
         /\ TombsOK(WriteOf(u, row, cands, keys))
  <1>1. now \in Time /\ uploads[u].horizon \in Time
    BY DEF Inv, Registers, StoreTypeOK, UploadRow
  <1>2. \A k \in keys : DeleteNotBefore(u, k) \in Time BY <1>1 DEF DeleteNotBefore
  <1> QED BY <1>2 DEF WriteOf, TombsOK

\* A write of a row that goes on with its claim columns changed.
LEMMA RowWrites ==
  ASSUME Inv, SchemaInv, NEW u \in Uploads, NEW row, NEW cands,
         uploads[u].state \in {"pending", "finalizing"}, RowOK(uploads[u]),
         row.state = uploads[u].state, row.deadline = uploads[u].deadline,
         row.horizon = uploads[u].horizon, row.reason = uploads[u].reason,
         ClaimOK(row), ClaimRespected(u, row), Tracks(u, cands)
  PROVE  Writes(u, WriteOf(u, row, cands, {}))
  <1> DEFINE w == WriteOf(u, row, cands, {})
  <1>1. w.row = row /\ w.cands = cands /\ TombsOK(w) BY TombsWritten
  <1>2. WindowOK(row) BY WindowKept DEF RowOK
  <1>3. row.reason # Missing
    BY DEF RowOK, WindowOK, WindowAt, Missing, ExpiryReasons
  <1> HIDE DEF w
  <1>4. Writes(u, w) BY <1>1, <1>2, <1>3 DEF Writes, RowOK
  <1> QED BY <1>4 DEF w

\* claimNextFinalizing takes a row that nobody has claimed for now.
LEMMA ClaimWrites ==
  ASSUME Inv, SchemaInv, NEW f \in Finalizers, NEW u \in Uploads, NEW t \in Tokens,
         claimNextFinalizing(f, u, t)
  PROVE  WriteEffect
  <1> DEFINE row == [uploads[u] EXCEPT !.claim = t, !.claimExp = now + Lease]
  <1>1. /\ uploads[u] \in UploadRow /\ uploads[u].state = "finalizing"
        /\ uploads[u].claim = Null \/ uploads[u].claimExp <= now
    BY DEF Inv, Registers, StoreTypeOK, claimNextFinalizing, ClaimDue
  <1>2. /\ row.state = "finalizing" /\ row.claim = t /\ row.claimExp = now + Lease
        /\ row.deadline = uploads[u].deadline /\ row.horizon = uploads[u].horizon
        /\ row.reason = uploads[u].reason
    BY <1>1 DEF UploadRow
  <1>3. Commits(u, WriteRow(u, row)) BY DEF claimNextFinalizing, Commit, Commits
  <1>4. now + Lease # 0
    <2>1. now \in Nat BY DEF Inv, Registers, StoreTypeOK, Time
    <2> QED BY <2>1, FinalizerAssumption
  <1> HIDE DEF row
  <1>5. ClaimOK(row) BY <1>2, <1>4, StoreAssumption DEF ClaimOK
  <1>6. ClaimRespected(u, row) /\ Tracks(u, candidates[u]) BY <1>1 DEF ClaimRespected, Tracks
  <1>7. RowOK(uploads[u]) BY DEF SchemaInv
  <1>8. Writes(u, WriteRow(u, row)) BY <1>1, <1>2, <1>5, <1>6, <1>7, RowWrites DEF WriteRow
  <1> QED BY <1>3, <1>8 DEF WriteEffect

\* renewFinalizeClaim extends the lease of the worker's own claim.
LEMMA RenewWrites ==
  ASSUME Inv, SchemaInv, NEW f \in Finalizers, renewFinalizeClaim(f)
  PROVE  WriteEffect
  <1> DEFINE u == fin[f].upload
             row == [uploads[u] EXCEPT !.claimExp = now + Lease]
             unknown == fin' = [fin EXCEPT ![f].pc = "confirmRenew", ![f].expect = now + Lease]
  <1>0. fin[f].pc = "renew" /\ fin \in [Finalizers -> GoodFin] /\ fin[f] \in GoodFin
    BY DEF renewFinalizeClaim, At, Inv, Registers
  <1>1. UNCHANGED db \/ (/\ Active(f) /\ Commits(u, WriteRow(u, row))
                         /\ Goto(f, fin[f].next) \/ unknown)
    BY DEF renewFinalizeClaim, Transaction, CommitRow, Commit, Fails, Commits, Row
  <1>2. CASE UNCHANGED db BY <1>2 DEF WriteEffect
  <1>3. ASSUME Active(f), Commits(u, WriteRow(u, row)), Goto(f, fin[f].next) \/ unknown
        PROVE  WriteEffect
    <2>1. /\ u \in Uploads /\ uploads[u] \in UploadRow /\ uploads[u].state = "finalizing"
          /\ fin[f].token = uploads[u].claim /\ RowOK(uploads[u])
      BY <1>0, <1>3, Claimed
    <2>2. /\ row.state = "finalizing" /\ row.claim = uploads[u].claim
          /\ row.claimExp = now + Lease
          /\ row.deadline = uploads[u].deadline /\ row.horizon = uploads[u].horizon
          /\ row.reason = uploads[u].reason
      BY <2>1 DEF UploadRow
    <2>3. now + Lease # 0 /\ uploads[u].claimExp # 0
      <3>1. now \in Nat /\ now < uploads[u].claimExp
        BY <1>3 DEF Inv, Registers, StoreTypeOK, Time, Active, Row
      <3> QED BY <3>1, FinalizerAssumption
    <2>4. fin'[f] # fin[f]
      <3>1. CASE unknown
        <4>1. fin'[f].pc = "confirmRenew" BY <1>0, <3>1 DEF GoodFin, FinRow
        <4> QED BY <1>0, <4>1
      <3>2. fin[f].next # "renew" BY <1>0 DEF GoodFin, FinSet
      <3> QED BY <1>0, <1>3, <3>1, <3>2, Moved
    <2> HIDE DEF row
    <2>5. ClaimOK(row) BY <2>1, <2>2, <2>3 DEF ClaimOK, RowOK
    <2>6. ClaimRespected(u, row) /\ Tracks(u, candidates[u])
      BY <2>1, <2>4 DEF ClaimRespected, Tracks
    <2>7. Writes(u, WriteRow(u, row)) BY <2>1, <2>2, <2>5, <2>6, RowWrites DEF WriteRow
    <2> QED BY <1>3, <2>1, <2>7 DEF WriteEffect
  <1> QED BY <1>1, <1>2, <1>3

\* scheduleFinalizeRetry gives the worker's own claim back.
LEMMA RetryWrites ==
  ASSUME Inv, SchemaInv, NEW f \in Finalizers, scheduleFinalizeRetry(f)
  PROVE  WriteEffect
  <1> DEFINE u == fin[f].upload
             row(d) == [uploads[u] EXCEPT !.due = now + d, !.claim = Null, !.claimExp = 0]
  <1>0. fin[f].pc # "idle" BY DEF scheduleFinalizeRetry, At
  <1>1. UNCHANGED db \/ (/\ Active(f) /\ Stop(f)
                         /\ \E d \in RetryDelays : Commits(u, WriteRow(u, row(d))))
    BY DEF scheduleFinalizeRetry, Transaction, CommitRow, Commit, Fails, Commits, Row
  <1>2. CASE UNCHANGED db BY <1>2 DEF WriteEffect
  <1>3. ASSUME Active(f), Stop(f), NEW d \in RetryDelays, Commits(u, WriteRow(u, row(d)))
        PROVE  WriteEffect
    <2>1. /\ u \in Uploads /\ uploads[u] \in UploadRow /\ uploads[u].state = "finalizing"
          /\ fin[f].token = uploads[u].claim /\ RowOK(uploads[u])
      BY <1>0, <1>3, Claimed
    <2>2. /\ row(d).state = "finalizing" /\ row(d).claim = Null /\ row(d).claimExp = 0
          /\ row(d).deadline = uploads[u].deadline /\ row(d).horizon = uploads[u].horizon
          /\ row(d).reason = uploads[u].reason
      BY <2>1 DEF UploadRow
    <2>3. fin'[f] # fin[f] BY <1>0, <1>3, Moved
    <2> HIDE DEF row
    <2>4. ClaimOK(row(d)) BY <2>2 DEF ClaimOK
    <2>5. ClaimRespected(u, row(d)) /\ Tracks(u, candidates[u])
      BY <2>1, <2>3 DEF ClaimRespected, Tracks
    <2>6. Writes(u, WriteRow(u, row(d))) BY <2>1, <2>2, <2>4, <2>5, RowWrites DEF WriteRow
    <2> QED BY <1>3, <2>1, <2>6 DEF WriteEffect
  <1> QED BY <1>1, <1>2, <1>3

\* registerCandidate tracks the image that was captured.
LEMMA RegisterWrites ==
  ASSUME Inv, SchemaInv, NEW f \in Finalizers, registerCandidate(f)
  PROVE  WriteEffect
  <1> DEFINE u == fin[f].upload
             cands == candidates[u] \cup {fin[f].img}
  <1>0. fin[f].pc = "register" BY DEF registerCandidate, At
  <1>1. UNCHANGED db \/ (Active(f) /\ Commits(u, WriteOf(u, uploads[u], cands, {})))
    BY DEF registerCandidate, Transaction, Commit, Fails, Commits, Row
  <1>2. CASE UNCHANGED db BY <1>2 DEF WriteEffect
  <1>3. CASE Active(f) /\ Commits(u, WriteOf(u, uploads[u], cands, {}))
    <2>1. u \in Uploads /\ uploads[u].state = "finalizing" /\ RowOK(uploads[u])
      BY <1>0, <1>3, Claimed
    <2>2. Tracks(u, cands) BY <1>0 DEF Tracks
    <2> HIDE DEF cands
    <2>3. ClaimOK(uploads[u]) /\ ClaimRespected(u, uploads[u]) BY <2>1 DEF RowOK, ClaimRespected
    <2>4. Writes(u, WriteOf(u, uploads[u], cands, {})) BY <2>1, <2>2, <2>3, RowWrites
    <2> QED BY <1>3, <2>1, <2>4 DEF WriteEffect
  <1> QED BY <1>1, <1>2, <1>3
\* A terminal transition releases the worker's own claim.
LEMMA TerminateWrites ==
  ASSUME Inv, SchemaInv, NEW f \in Finalizers, fin[f].pc # "idle", Active(f), fin'[f] # fin[f],
         NEW row \in UploadRow, NEW selected, Commits(fin[f].upload, Terminate(f, row, selected)),
         row.deadline = Row(f).deadline, row.horizon = Row(f).horizon,
         WindowOK(row), row.reason = Missing => fin[f].pc = "expire"
  PROVE  WriteEffect
  <1> DEFINE u == fin[f].upload
             closed == [row EXCEPT !.due = 0, !.claim = Null, !.claimExp = 0]
             w == Terminate(f, row, selected)
  <1>1. /\ u \in Uploads /\ uploads[u].state = "finalizing"
        /\ fin[f].token = uploads[u].claim
    BY Claimed
  <1>2. /\ closed.state = row.state /\ closed.deadline = row.deadline
        /\ closed.horizon = row.horizon /\ closed.reason = row.reason
        /\ closed.claim = Null /\ closed.claimExp = 0
    BY DEF UploadRow
  <1>3. w.row = closed /\ w.cands = candidates[u] /\ TombsOK(w)
    <2>1. terminalTombstones(u, selected) \subseteq {Staging} \cup candidates[u]
      BY DEF terminalTombstones
    <2> HIDE DEF closed
    <2>2. w = WriteOf(u, closed, candidates[u], terminalTombstones(u, selected))
      BY DEF Terminate, closed
    <2> HIDE DEF w
    <2> QED BY <1>1, <2>1, <2>2, TombsWritten
  <1> HIDE DEF closed, w
  <1>4. RowOK(closed) BY <1>2, WindowKept DEF RowOK, ClaimOK
  <1>5. ClaimRespected(u, closed) /\ Tracks(u, candidates[u])
    BY <1>1 DEF ClaimRespected, Tracks
  <1>6. closed.reason = Missing => WritesOff(u) BY <1>1, <1>2 DEF WritesOff
  <1>7. Writes(u, w) BY <1>2, <1>3, <1>4, <1>5, <1>6 DEF Writes, Row
  <1> QED BY <1>1, <1>7 DEF WriteEffect, w

\* transitionFinalizeReady records the published key and no reason.
LEMMA ReadyWrites ==
  ASSUME Inv, SchemaInv, NEW f \in Finalizers, transitionFinalizeReady(f)
  PROVE  WriteEffect
  <1> DEFINE u == fin[f].upload
             row == [Row(f) EXCEPT !.state = "ready", !.final = fin[f].img]
  <1>0. fin[f].pc = "ready" /\ fin[f].img \in Images
    BY DEF transitionFinalizeReady, At, Inv, Registers, GoodFin, FinSet, HoldsImage
  <1>1. UNCHANGED db \/ (/\ Active(f)
                         /\ Stop(f) \/ Goto(f, "confirmReady")
                         /\ Commits(u, Terminate(f, row, fin[f].img)))
    BY DEF transitionFinalizeReady, Transaction, Commit, Fails, Commits
  <1>2. CASE UNCHANGED db BY <1>2 DEF WriteEffect
  <1>3. ASSUME Active(f), Stop(f) \/ Goto(f, "confirmReady"),
               Commits(u, Terminate(f, row, fin[f].img))
        PROVE  WriteEffect
    <2>1. /\ Row(f) \in UploadRow /\ Row(f).state = "finalizing" /\ Row(f).reason = Null
          /\ RowOK(Row(f))
      BY <1>0, <1>3, Claimed DEF Row
    <2>2. fin'[f] # fin[f] BY <1>0, <1>3, Moved
    <2>3. row \in UploadRow BY <1>0, <2>1 DEF UploadRow, States
    <2>4. /\ row.state = "ready" /\ row.reason = Null
          /\ row.deadline = Row(f).deadline /\ row.horizon = Row(f).horizon
      BY <2>1 DEF UploadRow
    <2> HIDE DEF row
    <2>5. Null \notin RejectReasons \cup ExpiryReasons /\ Missing \in ExpiryReasons
      BY ReasonAssumption DEF Missing, ExpiryReasons
    <2>6. WindowOK(row) BY <2>1, <2>4, <2>5 DEF WindowOK, WindowAt, RowOK
    <2> QED BY <1>0, <1>3, <2>2, <2>3, <2>4, <2>5, <2>6, TerminateWrites
  <1> QED BY <1>1, <1>2, <1>3

\* transitionFinalizeRejected records the reason of the validation.
LEMMA RejectWrites ==
  ASSUME Inv, SchemaInv, NEW f \in Finalizers, transitionFinalizeRejected(f)
  PROVE  WriteEffect
  <1> DEFINE u == fin[f].upload
             row == [Row(f) EXCEPT !.state = "rejected", !.reason = fin[f].reason]
  <1>0. fin[f].pc = "reject" /\ fin[f].reason \in RejectReasons
    BY DEF transitionFinalizeRejected, At, Inv, Registers, GoodFin, FinSet
  <1>1. UNCHANGED db \/ (/\ Active(f)
                         /\ Stop(f) \/ Goto(f, "confirmRejected")
                         /\ Commits(u, Terminate(f, row, Null)))
    BY DEF transitionFinalizeRejected, Transaction, Commit, Fails, Commits
  <1>2. CASE UNCHANGED db BY <1>2 DEF WriteEffect
  <1>3. ASSUME Active(f), Stop(f) \/ Goto(f, "confirmRejected"),
               Commits(u, Terminate(f, row, Null))
        PROVE  WriteEffect
    <2>1. Row(f) \in UploadRow /\ Row(f).state = "finalizing" /\ RowOK(Row(f))
      BY <1>0, <1>3, Claimed DEF Row
    <2>2. fin'[f] # fin[f] BY <1>0, <1>3, Moved
    <2>3. row \in UploadRow BY <1>0, <2>1 DEF UploadRow, States
    <2>4. /\ row.state = "rejected" /\ row.reason \in RejectReasons
          /\ row.deadline = Row(f).deadline /\ row.horizon = Row(f).horizon
      BY <1>0, <2>1 DEF UploadRow
    <2> HIDE DEF row
    <2>5. row.reason \notin ExpiryReasons /\ row.reason # Missing
      BY <2>4 DEF RejectReasons, ExpiryReasons, Missing
    <2>6. WindowOK(row) BY <2>1, <2>4, <2>5 DEF WindowOK, WindowAt, RowOK
    <2> QED BY <1>0, <1>3, <2>2, <2>3, <2>4, <2>5, <2>6, TerminateWrites
  <1> QED BY <1>1, <1>2, <1>3

\* transitionFinalizeExpiredMissing writes an upload off after its write window.
LEMMA MissingWrites ==
  ASSUME Inv, SchemaInv, NEW f \in Finalizers, transitionFinalizeExpiredMissing(f)
  PROVE  WriteEffect
  <1> DEFINE u == fin[f].upload
             row == [Row(f) EXCEPT !.state = "expired", !.reason = Missing]
  <1>0. fin[f].pc = "expire" BY DEF transitionFinalizeExpiredMissing, At
  <1>1. UNCHANGED db \/ (/\ Active(f) /\ now >= Row(f).deadline /\ now >= Row(f).horizon
                         /\ Stop(f) \/ Goto(f, "confirmExpired")
                         /\ Commits(u, Terminate(f, row, Null)))
    BY DEF transitionFinalizeExpiredMissing, Transaction, Commit, Fails, Commits, Missing
  <1>2. CASE UNCHANGED db BY <1>2 DEF WriteEffect
  <1>3. ASSUME Active(f), now >= Row(f).deadline, now >= Row(f).horizon,
               Stop(f) \/ Goto(f, "confirmExpired"), Commits(u, Terminate(f, row, Null))
        PROVE  WriteEffect
    <2>1. Row(f) \in UploadRow /\ Row(f).state = "finalizing" /\ RowOK(Row(f))
      BY <1>0, <1>3, Claimed DEF Row
    <2>2. fin'[f] # fin[f] BY <1>0, <1>3, Moved
    <2>3. Missing \in ExpiryReasons /\ Missing \notin RejectReasons
      BY DEF RejectReasons, ExpiryReasons, Missing
    <2>4. row \in UploadRow BY <2>1, <2>3 DEF UploadRow, States
    <2>5. /\ row.state = "expired" /\ row.reason = Missing
          /\ row.deadline = Row(f).deadline /\ row.horizon = Row(f).horizon
      BY <2>1 DEF UploadRow
    <2> HIDE DEF row
    <2>6. WindowOK(row) BY <1>3, <2>1, <2>3, <2>5 DEF WindowOK, WindowAt, RowOK
    <2> QED BY <1>0, <1>3, <2>2, <2>4, <2>5, <2>6, TerminateWrites
  <1> QED BY <1>1, <1>2, <1>3

\* Every transaction of processNext.
LEMMA FinalizerWrites ==
  ASSUME Inv, SchemaInv, NEW f \in Finalizers, FinalizerStep(f) \/ CrashFinalizer(f)
  PROVE  WriteEffect
  <1>1. CASE UNCHANGED db BY <1>1 DEF WriteEffect
  <1> QED BY <1>1, ClaimWrites, RenewWrites, RetryWrites, RegisterWrites, ReadyWrites,
             RejectWrites, MissingWrites, FinReadsDb
          DEF FinalizerStep

-----------------------------------------------------------------------------
(* The transactions of the maintenance loop.                               *)

\* pending -> expired, by the sweep or by a late completion: nobody has
\* claimed the row.
LEMMA ExpireWrites ==
  ASSUME Inv, SchemaInv, NEW u \in Uploads, uploads[u].state = "pending"
  PROVE  Writes(u, transitionPendingExpiredLocked(u))
  <1> DEFINE row == [uploads[u] EXCEPT !.state = "expired", !.reason = "upload_deadline_elapsed"]
             w == transitionPendingExpiredLocked(u)
  <1>1. uploads[u] \in UploadRow /\ RowOK(uploads[u])
    BY DEF Inv, Registers, StoreTypeOK, SchemaInv
  <1>2. uploads[u].claim = Null /\ uploads[u].claimExp = 0 BY <1>1 DEF RowOK, ClaimOK
  <1>3. /\ row.state = "expired" /\ row.reason = "upload_deadline_elapsed"
        /\ row.deadline = uploads[u].deadline /\ row.horizon = uploads[u].horizon
        /\ row.claim = Null /\ row.claimExp = 0
    BY <1>1, <1>2 DEF UploadRow
  <1>4. w.row = row /\ w.cands = candidates[u] /\ TombsOK(w)
    <2> HIDE DEF row
    <2>1. w = WriteOf(u, row, candidates[u], {Staging})
      BY DEF transitionPendingExpiredLocked, row
    <2> HIDE DEF w
    <2> QED BY <2>1, TombsWritten
  <1> HIDE DEF row, w
  <1>5. row.reason # Missing /\ row.reason \in ExpiryReasons /\ row.reason \notin RejectReasons
    BY <1>3 DEF Missing, ExpiryReasons, RejectReasons
  <1>6. RowOK(row) BY <1>1, <1>3, <1>5 DEF RowOK, ClaimOK, WindowOK, WindowAt
  <1>7. ClaimRespected(u, row) /\ Tracks(u, candidates[u])
    BY <1>2 DEF ClaimRespected, Tracks
  <1>8. Writes(u, w) BY <1>3, <1>4, <1>5, <1>6, <1>7 DEF Writes
  <1> QED BY <1>8 DEF w

\* expireNextPendingUpload.
LEMMA SweepWrites ==
  ASSUME Inv, SchemaInv, NEW j \in Janitors, expireNextPendingUpload(j)
  PROVE  WriteEffect
  <1>1. CASE UNCHANGED db BY <1>1 DEF WriteEffect
  <1>2. CASE ~UNCHANGED db
    <2>1. PICK u \in Uploads : /\ ExpiryDue(u)
                               /\ Commits(u, transitionPendingExpiredLocked(u))
      BY <1>2 DEF expireNextPendingUpload, Commit, Fails, Commits, ExpiryDue
    <2>2. uploads[u].state = "pending" BY <2>1 DEF ExpiryDue
    <2> QED BY <2>1, <2>2, ExpireWrites DEF WriteEffect
  <1> QED BY <1>1, <1>2

\* reserveNextCleanup reserves a duty for a lease.
LEMMA ReserveBooks ==
  ASSUME Inv, NEW j \in Janitors, reserveNextCleanup(j)
  PROVE  WriteEffect
  <1>1. CASE UNCHANGED db BY <1>1 DEF WriteEffect
  <1>2. CASE ~UNCHANGED db
    <2> DEFINE row(u, k, t) == [duty[u][k] EXCEPT !.token = t, !.expires = now + ReservationLease]
    <2>1. PICK u \in Uploads, k \in Keys, t \in Tokens : SetDuty(u, k, row(u, k, t))
      BY <1>2 DEF reserveNextCleanup, CommitDuty, Fails
    <2>2. duty[u][k] \in DutyRow /\ now \in Nat BY DEF Inv, Registers, StoreTypeOK, Time
    <2>3. now + ReservationLease \in Time /\ now + ReservationLease # 0
      BY <2>2, MaintenanceAssumption DEF Time
    <2>4. row(u, k, t) \in DutyRow BY <2>2, <2>3 DEF DutyRow
    <2>5. /\ row(u, k, t).notBefore = duty[u][k].notBefore /\ row(u, k, t).next = duty[u][k].next
          /\ row(u, k, t).token = t /\ row(u, k, t).expires = now + ReservationLease
      BY <2>2 DEF DutyRow
    <2> HIDE DEF row
    <2>6. DutyOK(duty[u][k]) => DutyOK(row(u, k, t))
      BY <2>3, <2>5, StoreAssumption DEF DutyOK
    <2>7. Books(u, k) BY <2>1, <2>4, <2>5, <2>6 DEF Books
    <2> QED BY <2>7 DEF WriteEffect
  <1> QED BY <1>1, <1>2

\* applyCleanupResult gives the reservation back and sets a time in the future.
LEMMA ResultBooks ==
  ASSUME Inv, SchemaInv, NEW j \in Janitors, applyCleanupResult(j)
  PROVE  WriteEffect
  <1>1. CASE UNCHANGED db BY <1>1 DEF WriteEffect
  <1>2. CASE ~UNCHANGED db
    <2> DEFINE u == jan[j].upload
               k == jan[j].key
               delays == IF jan[j].deleted THEN {ProtectiveInterval} ELSE CleanupDelays
               row(d) == [duty[u][k] EXCEPT !.next = now + d, !.token = Null, !.expires = 0]
    <2>1. PICK d \in delays : SetDuty(u, k, row(d))
      BY <1>2 DEF applyCleanupResult, CommitDuty, Fails
    <2>2. jan[j].pc = "apply" BY DEF applyCleanupResult, JanAt
    <2>3. u \in Uploads /\ k \in Keys BY <2>2 DEF Inv, Registers, GoodJan, JanSet
    <2>4. duty[u][k] \in DutyRow /\ now \in Nat BY <2>3 DEF Inv, Registers, StoreTypeOK, Time
    <2>5. duty[u][k].notBefore <= now BY <2>2 DEF SchemaInv, ApplyHolds
    <2>6. d \in Nat BY MaintenanceAssumption
    <2>7. now + d \in Time BY <2>4, <2>6 DEF Time
    <2>8. row(d) \in DutyRow BY <2>4, <2>7 DEF DutyRow, Time
    <2>9. /\ row(d).notBefore = duty[u][k].notBefore /\ row(d).next = now + d
          /\ row(d).token = Null /\ row(d).expires = 0
      BY <2>4 DEF DutyRow
    <2> HIDE DEF row
    <2>10. duty[u][k].notBefore \in Nat BY <2>4 DEF DutyRow, Time
    <2>11. DutyOK(row(d)) BY <2>4, <2>5, <2>6, <2>9, <2>10 DEF DutyOK
    <2>12. Books(u, k) BY <2>1, <2>8, <2>9, <2>11 DEF Books
    <2> QED BY <2>3, <2>12 DEF WriteEffect
  <1> QED BY <1>1, <1>2

\* Every transaction of the maintenance loop.
LEMMA JanitorWrites ==
  ASSUME Inv, SchemaInv, NEW j \in Janitors, JanitorStep(j) \/ CrashJanitor(j)
  PROVE  WriteEffect
  <1>0. CASE UNCHANGED db BY <1>0 DEF WriteEffect
  <1>1. CASE runMaintenanceLoop(j) BY <1>0, <1>1 DEF runMaintenanceLoop, storeVars
  <1>2. CASE confirmPendingExpired(j) BY <1>0, <1>2 DEF confirmPendingExpired, Fails
  <1>3. CASE confirmCleanupReservation(j) BY <1>0, <1>3 DEF confirmCleanupReservation, Fails
  <1>4. CASE deleteS3Object(j) BY <1>0, <1>4 DEF deleteS3Object
  <1>5. CASE CrashJanitor(j) BY <1>0, <1>5 DEF CrashJanitor
  <1> QED BY <1>1, <1>2, <1>3, <1>4, <1>5, SweepWrites, ReserveBooks, ResultBooks DEF JanitorStep

-----------------------------------------------------------------------------
(* The transactions of the requests.                                       *)

\* createOrReplayUpload inserts a row whose horizon is the expiry of the PUT it
\* signed, which has not passed.
LEMMA CreateWrites ==
  ASSUME Inv, SchemaInv, NEW q \in Requests, createOrReplayUpload(q)
  PROVE  WriteEffect
  <1> DEFINE u == reqs[q].upload
             row == [NoUpload EXCEPT !.state = "pending", !.id = reqs[q].id,
                                     !.declared = reqs[q].decl,
                                     !.deadline = now + UploadWindow,
                                     !.horizon = reqs[q].expires]
             w == WriteRow(u, row)
  <1>0. reqs[q].pc # "idle" BY DEF createOrReplayUpload, ReqAt
  <1>1. UNCHANGED db \/ (/\ uploads[u].state = "none" /\ now < reqs[q].expires
                         /\ Commits(u, w))
    BY DEF createOrReplayUpload, Transaction, Commit, Fails, Commits
  <1>2. CASE UNCHANGED db BY <1>2 DEF WriteEffect
  <1>3. ASSUME uploads[u].state = "none", now < reqs[q].expires, Commits(u, w)
        PROVE  WriteEffect
    <2>1. u \in Uploads /\ reqs[q].expires \in Nat /\ now \in Nat
      BY <1>0, ReqHolds DEF Time
    <2>2. /\ row.state = "pending" /\ row.reason = Null /\ row.claim = Null /\ row.claimExp = 0
          /\ row.deadline = now + UploadWindow /\ row.horizon = reqs[q].expires
      BY DEF NoUpload
    <2>3. w.row = row /\ w.cands = candidates[u] /\ TombsOK(w)
      <3> HIDE DEF row
      <3> QED BY <2>1, TombsWritten DEF WriteRow
    <2> HIDE DEF row, w
    <2>4. row.horizon <= row.deadline + PresignTTL
      BY <1>3, <2>1, <2>2, StoreAssumption DEF SchemaInv, SignedOK
    <2>5. Null \notin RejectReasons \cup ExpiryReasons /\ Missing \in ExpiryReasons
      BY ReasonAssumption DEF Missing, ExpiryReasons
    <2>6. RowOK(row) BY <2>2, <2>4, <2>5 DEF RowOK, ClaimOK, WindowOK, WindowAt
    <2>7. uploads[u].claim = Null
      <3>1. RowOK(uploads[u]) BY <2>1 DEF SchemaInv
      <3> QED BY <1>3, <3>1 DEF RowOK, ClaimOK
    <2>8. ClaimRespected(u, row) /\ Tracks(u, candidates[u])
      BY <2>7 DEF ClaimRespected, Tracks
    <2>9. Writes(u, w) BY <1>3, <2>2, <2>3, <2>5, <2>6, <2>8 DEF Writes
    <2> QED BY <1>3, <2>1, <2>9 DEF WriteEffect
  <1> QED BY <1>1, <1>2, <1>3

\* authorizeReplay moves the horizon before the deadline only, and by no more
\* than the presign time.
LEMMA ReplayWrites ==
  ASSUME Inv, SchemaInv, NEW q \in Requests, authorizeReplay(q)
  PROVE  WriteEffect
  <1> DEFINE u == reqs[q].upload
             horizon == IF reqs[q].expires > uploads[u].horizon
                        THEN reqs[q].expires ELSE uploads[u].horizon
             row == [uploads[u] EXCEPT !.horizon = horizon]
             w == WriteRow(u, row)
  <1>0. reqs[q].pc # "idle" BY DEF authorizeReplay, ReqAt
  <1>1. UNCHANGED db \/ (uploadAcceptsWrites(uploads[u]) /\ Commits(u, w))
    BY DEF authorizeReplay, Transaction, Commit, Fails, Commits
  <1>2. CASE UNCHANGED db BY <1>2 DEF WriteEffect
  <1>3. ASSUME uploadAcceptsWrites(uploads[u]), Commits(u, w) PROVE WriteEffect
    <2>1. u \in Uploads /\ uploads[u] \in UploadRow /\ reqs[q].expires \in Nat /\ now \in Nat
      BY <1>0, ReqHolds DEF Time
    <2>2. /\ uploads[u].state \in {"pending", "finalizing"} /\ now < uploads[u].deadline
          /\ RowOK(uploads[u])
      BY <1>3, <2>1 DEF uploadAcceptsWrites, SchemaInv
    <2>3. uploads[u].deadline \in Nat /\ uploads[u].horizon \in Nat
      BY <2>1 DEF UploadRow, Time
    <2>4. horizon <= uploads[u].deadline + PresignTTL
      BY <2>1, <2>2, <2>3, StoreAssumption DEF SchemaInv, SignedOK, RowOK, WindowOK, WindowAt
    <2>5. /\ row.state = uploads[u].state /\ row.reason = uploads[u].reason
          /\ row.claim = uploads[u].claim /\ row.claimExp = uploads[u].claimExp
          /\ row.deadline = uploads[u].deadline /\ row.horizon = horizon
      BY <2>1 DEF UploadRow
    <2>6. w.row = row /\ w.cands = candidates[u] /\ TombsOK(w)
      <3> HIDE DEF row
      <3> QED BY <2>1, TombsWritten DEF WriteRow
    <2> HIDE DEF horizon, row, w
    <2>7. row.reason # Missing BY <2>2, <2>5 DEF RowOK, WindowOK, WindowAt, Missing, ExpiryReasons
    <2>8. RowOK(row) BY <2>2, <2>4, <2>5, <2>7 DEF RowOK, ClaimOK, WindowOK, WindowAt
    <2>9. ClaimRespected(u, row) /\ Tracks(u, candidates[u])
      BY <2>5 DEF ClaimRespected, ClaimColumns, Tracks
    <2>10. Writes(u, w) BY <2>2, <2>5, <2>6, <2>7, <2>8, <2>9 DEF Writes
    <2> QED BY <1>3, <2>1, <2>10 DEF WriteEffect
  <1> QED BY <1>1, <1>2, <1>3

\* completeUploadAttempt leaves the claim columns of a finalizing row alone.
LEMMA CompleteWrites ==
  ASSUME Inv, SchemaInv, NEW q \in Requests, completeUploadAttempt(q)
  PROVE  WriteEffect
  <1> DEFINE u == reqs[q].upload
             started == [uploads[u] EXCEPT !.state = "finalizing", !.due = now]
             due == IF now < uploads[u].due THEN now ELSE uploads[u].due
             hurried == [uploads[u] EXCEPT !.due = due]
  <1>0. reqs[q].pc # "idle" BY DEF completeUploadAttempt, ReqAt
  <1>1. \/ UNCHANGED db
        \/ uploads[u].state = "pending" /\ Commits(u, WriteRow(u, started))
        \/ uploads[u].state = "pending" /\ Commits(u, transitionPendingExpiredLocked(u))
        \/ uploads[u].state = "finalizing" /\ Commits(u, WriteRow(u, hurried))
    BY DEF completeUploadAttempt, Transaction, Commit, Fails, Commits, PendingExpirable
  <1>2. u \in Uploads /\ uploads[u] \in UploadRow /\ RowOK(uploads[u])
    BY <1>0, ReqHolds DEF SchemaInv
  <1>3. Tracks(u, candidates[u]) BY DEF Tracks
  <1>4. CASE UNCHANGED db BY <1>4 DEF WriteEffect
  <1>5. ASSUME uploads[u].state = "pending", Commits(u, WriteRow(u, started)) PROVE WriteEffect
    <2> DEFINE w == WriteRow(u, started)
    <2>1. /\ started.state = "finalizing" /\ started.reason = uploads[u].reason
          /\ started.claim = uploads[u].claim /\ started.claimExp = uploads[u].claimExp
          /\ started.deadline = uploads[u].deadline /\ started.horizon = uploads[u].horizon
      BY <1>2 DEF UploadRow
    <2>2. w.row = started /\ w.cands = candidates[u] /\ TombsOK(w)
      <3> HIDE DEF started
      <3> QED BY <1>2, TombsWritten DEF WriteRow
    <2> HIDE DEF started, w
    <2>3. uploads[u].claim = Null BY <1>2, <1>5 DEF RowOK, ClaimOK
    <2>4. started.reason # Missing BY <1>2, <1>5, <2>1 DEF RowOK, WindowOK, WindowAt, Missing, ExpiryReasons
    <2>5. RowOK(started) BY <1>2, <1>5, <2>1 DEF RowOK, ClaimOK, WindowOK, WindowAt
    <2>6. ClaimRespected(u, started) BY <2>3 DEF ClaimRespected
    <2>7. Writes(u, w) BY <1>3, <2>1, <2>2, <2>4, <2>5, <2>6 DEF Writes
    <2> QED BY <1>2, <1>5, <2>7 DEF WriteEffect, w
  <1>6. ASSUME uploads[u].state = "pending", Commits(u, transitionPendingExpiredLocked(u))
        PROVE  WriteEffect
    BY <1>2, <1>6, ExpireWrites DEF WriteEffect
  <1>7. ASSUME uploads[u].state = "finalizing", Commits(u, WriteRow(u, hurried)) PROVE WriteEffect
    <2>1. /\ hurried.state = uploads[u].state /\ hurried.reason = uploads[u].reason
          /\ hurried.claim = uploads[u].claim /\ hurried.claimExp = uploads[u].claimExp
          /\ hurried.deadline = uploads[u].deadline /\ hurried.horizon = uploads[u].horizon
      BY <1>2 DEF UploadRow
    <2> HIDE DEF hurried
    <2>2. ClaimOK(hurried) BY <1>2, <2>1 DEF RowOK, ClaimOK
    <2>3. ClaimRespected(u, hurried) BY <2>1 DEF ClaimRespected, ClaimColumns
    <2>4. Writes(u, WriteRow(u, hurried))
      BY <1>2, <1>3, <1>7, <2>1, <2>2, <2>3, RowWrites DEF WriteRow
    <2> QED BY <1>2, <1>7, <2>4 DEF WriteEffect
  <1> QED BY <1>1, <1>4, <1>5, <1>6, <1>7

\* Every transaction of the two POST handlers.
LEMMA RequestWrites ==
  ASSUME Inv, SchemaInv, NEW q \in Requests,
         \/ RequestStep(q)
         \/ CrashRequest(q)
         \/ \E u \in Uploads : ClientCalls(q, u)
  PROVE  WriteEffect
  <1>0. CASE UNCHANGED db BY <1>0 DEF WriteEffect
  <1>1. CASE presignReplay(q) BY <1>0, <1>1 DEF presignReplay, storeVars
  <1>2. CASE recoverUnknownUploadCommit(q) BY <1>0, <1>2 DEF recoverUnknownUploadCommit, Fails
  <1>3. CASE recoverCompletionOutcome(q) BY <1>0, <1>3 DEF recoverCompletionOutcome, Fails
  <1>4. CASE CrashRequest(q) BY <1>0, <1>4 DEF CrashRequest
  <1>5. CASE \E v \in Uploads : ClientCalls(q, v)
    BY <1>0, <1>5 DEF ClientCalls, presignCreate, startComplete, storeVars
  <1> QED BY <1>1, <1>2, <1>3, <1>4, <1>5, CreateWrites, ReplayWrites, CompleteWrites
          DEF RequestStep

\* Every step of the service, its clients and the clock.
LEMMA StepWrites ==
  ASSUME Inv, SchemaInv, [Next]_vars
  PROVE  WriteEffect
  <1>0. CASE UNCHANGED db BY <1>0 DEF WriteEffect
  <1>1. CASE EnvironmentNext
    <2>1. UNCHANGED db \/ \E u \in Uploads : Ends(u)
      BY <1>1 DEF EnvironmentNext, Tick, Land, ClientPut, Settle, Ends
    <2> QED BY <2>1 DEF WriteEffect
  <1>2. CASE ApiNext BY <1>2, RequestWrites DEF ApiNext
  <1>3. CASE FinalizerNext BY <1>3, FinalizerWrites DEF FinalizerNext
  <1>4. CASE MaintenanceNext BY <1>4, JanitorWrites DEF MaintenanceNext
  <1>5. CASE \E u \in Uploads : ClientReads(u)
    BY <1>0, <1>5 DEF ClientReads, getUploadByID, authorizeContentRead, storeVars
  <1>6. CASE UNCHANGED vars BY <1>0, <1>6 DEF vars, storeVars
  <1> QED BY <1>1, <1>2, <1>3, <1>4, <1>5, <1>6 DEF Next, ServiceNext

-----------------------------------------------------------------------------
(* The schema is kept.                                                     *)

\* What a step may do to the row and the candidates of an upload: nothing, the
\* late commit of the transaction in doubt, or a write of the service, which
\* is applied or left in doubt.
Settles(v) ==
  /\ Locked(v) /\ doubt'[v] = Null
  /\ uploads'[v] = doubt[v].row /\ candidates'[v] = doubt[v].cands
  /\ tombstoned'[v] = tombstoned[v] \cup DOMAIN doubt[v].tombs
  /\ duty'[v] = ensureTombstones(v, doubt[v].tombs)

Lands(v, w) ==
  /\ ~Locked(v) /\ Writes(v, w) /\ doubt'[v] = Null
  /\ uploads'[v] = w.row /\ candidates'[v] = w.cands
  /\ tombstoned'[v] = tombstoned[v] \cup DOMAIN w.tombs
  /\ duty'[v] = ensureTombstones(v, w.tombs)

Leaves(v) == uploads'[v] = uploads[v] /\ candidates'[v] = candidates[v]

Turns(v) ==
  \/ Settles(v)
  \/ \E w : Lands(v, w)
  \/ Leaves(v) /\ (doubt'[v] = doubt[v] \/ doubt'[v] = Null)
  \/ Leaves(v) /\ ~Locked(v) /\ Writes(v, doubt'[v])

LEMMA StepTurns ==
  ASSUME Inv, WriteEffect, NEW v \in Uploads
  PROVE  Turns(v)
  <1>0. /\ uploads \in [Uploads -> UploadRow] /\ DOMAIN doubt = Uploads
        /\ candidates \in [Uploads -> SUBSET Images]
        /\ tombstoned \in [Uploads -> SUBSET Keys]
        /\ duty \in [Uploads -> [Keys -> DutyRow]]
    BY DEF Inv, Registers, StoreTypeOK
  <1>1. ASSUME NEW u \in Uploads, NEW w, Apply(u, w)
        PROVE  /\ v # u => Leaves(v)
               /\ v = u => /\ uploads'[v] = w.row /\ candidates'[v] = w.cands
                           /\ tombstoned'[v] = tombstoned[v] \cup DOMAIN w.tombs
                           /\ duty'[v] = ensureTombstones(v, w.tombs)
    BY <1>0, <1>1 DEF Apply, Leaves
  <1>2. CASE UNCHANGED db BY <1>2 DEF db, tables, Turns, Leaves
  <1>3. CASE \E u \in Uploads, k \in Keys : Books(u, k)
    BY <1>3 DEF Books, SetDuty, Turns, Leaves
  <1>4. ASSUME NEW u \in Uploads, Ends(u) PROVE Turns(v)
    <2>1. doubt'[v] = IF v = u THEN Null ELSE doubt[v] BY <1>0, <1>4 DEF Ends
    <2>2. CASE Apply(u, doubt[u])
      <3>1. CASE v = u BY <1>1, <1>4, <2>1, <2>2, <3>1 DEF Ends, Turns, Settles
      <3>2. CASE v # u BY <1>1, <2>1, <2>2, <3>2 DEF Turns
      <3> QED BY <3>1, <3>2
    <2>3. CASE UNCHANGED tables BY <2>1, <2>3 DEF tables, Turns, Leaves
    <2> QED BY <1>4, <2>2, <2>3 DEF Ends
  <1>5. ASSUME NEW u \in Uploads, NEW w, Writes(u, w), Commits(u, w) PROVE Turns(v)
    <2>1. ~Locked(u) BY <1>5 DEF Commits
    <2>2. CASE Apply(u, w) /\ UNCHANGED doubt
      <3>1. CASE v = u
        <4>1. Lands(v, w) BY <1>1, <1>5, <2>1, <2>2, <3>1 DEF Lands, Locked
        <4> QED BY <4>1 DEF Turns
      <3>2. CASE v # u BY <1>1, <2>2, <3>2 DEF Turns
      <3> QED BY <3>1, <3>2
    <2>3. CASE doubt' = [doubt EXCEPT ![u] = w] /\ UNCHANGED tables
      <3>1. Leaves(v) BY <2>3 DEF tables, Leaves
      <3>2. doubt'[v] = IF v = u THEN w ELSE doubt[v] BY <1>0, <2>3
      <3> QED BY <1>5, <2>1, <3>1, <3>2 DEF Turns
    <2> QED BY <1>5, <2>2, <2>3 DEF Commits
  <1> QED BY <1>2, <1>3, <1>4, <1>5 DEF WriteEffect

\* Rows stay sound as time passes.
LEMMA WindowLater ==
  ASSUME NEW row \in UploadRow, NEW s \in Nat, NEW t \in Nat, s <= t, WindowAt(row, s)
  PROVE  WindowAt(row, t)
  <1>1. row.deadline \in Nat /\ row.horizon \in Nat BY DEF UploadRow, Time
  <1> QED BY <1>1 DEF WindowAt

\* What a step does to the clock, the tables and the bucket.
LEMMA StepEffect ==
  ASSUME Inv, [Next]_vars
  PROVE  Effect /\ EffectAfter /\ now \in Nat /\ now' \in Nat /\ now <= now'
  <1>0. now \in Nat BY DEF Inv, Registers, StoreTypeOK, Time
  <1>1. CASE EnvironmentNext
    <2>1. now' = now \/ now' = now + 1
      BY <1>1 DEF EnvironmentNext, Tick, Settle, Land, ClientPut
    <2>2. Effect BY <1>1, EnvironmentEffect
    <2> QED BY <1>0, <2>1, <2>2, EffectKeeps
  <1>2. CASE ~EnvironmentNext
    <2>1. CASE UNCHANGED storeVars
      <3>1. Effect /\ UNCHANGED now BY <2>1 DEF storeVars, Effect, DbEffect
      <3> QED BY <1>0, <3>1, EffectKeeps
    <2>2. CASE ApiNext
      <3>1. DbEffect /\ UNCHANGED <<now, bucket>> BY <2>2, RequestDb, RequestFrame DEF ApiNext
      <3>2. Effect BY <3>1 DEF Effect
      <3> QED BY <1>0, <3>1, <3>2, EffectKeeps
    <2>3. CASE FinalizerNext
      <3>1. Effect /\ UNCHANGED now
        BY <2>3, FinalizerEffect, FinalizerFrame DEF FinalizerNext, Frame
      <3> QED BY <1>0, <3>1, EffectKeeps
    <2>4. CASE MaintenanceNext
      <3>1. Effect /\ UNCHANGED now
        BY <2>4, JanitorEffect, JanitorFrame DEF MaintenanceNext, Frame
      <3> QED BY <1>0, <3>1, EffectKeeps
    <2>5. CASE \E u \in Uploads : ClientReads(u)
      BY <2>1, <2>5 DEF ClientReads, getUploadByID, authorizeContentRead
    <2> QED BY <1>2, <2>1, <2>2, <2>3, <2>4, <2>5 DEF Next, ServiceNext, vars
  <1> QED BY <1>1, <1>2

\* The rows and the rows in doubt.
LEMMA RowsKept ==
  ASSUME Inv, SchemaInv, WriteEffect, EffectAfter, NEW v \in Uploads,
         now \in Nat, now' \in Nat, now <= now'
  PROVE  RowOK(uploads[v])' /\ (Locked(v) => RowOK(doubt[v].row))'
  <1>1. Turns(v) BY StepTurns
  <1>2. RowOK(uploads[v]) /\ (Locked(v) => RowOK(doubt[v].row)) BY DEF SchemaInv
  <1>3. RowOK(uploads'[v])
    BY <1>1, <1>2 DEF Turns, Settles, Lands, Leaves, Writes
  <1>4. doubt'[v] # Null => RowOK(doubt'[v].row)
    BY <1>1, <1>2 DEF Turns, Settles, Lands, Writes, Locked
  <1>5. uploads'[v] \in UploadRow BY DEF EffectAfter, TablesOK
  <1>6. doubt'[v] # Null => doubt'[v].row \in UploadRow
    BY DEF EffectAfter, DoubtLegal, Locked, Legal, LegalFor, IsWrite
  <1>7. RowOK(uploads[v])' BY <1>3, <1>5, WindowLater DEF RowOK, WindowOK
  <1>8. doubt'[v] # Null => RowOK(doubt[v].row)' BY <1>4, <1>6, WindowLater DEF RowOK, WindowOK
  <1> QED BY <1>7, <1>8 DEF Locked

\* The duties after a write: those there were, and fresh ones.
LEMMA DutiesWritten ==
  ASSUME Inv, NEW u \in Uploads, DutiesOK(u), NEW w, TombsOK(w), w.cands \subseteq Images,
         candidates[u] \subseteq w.cands, candidates'[u] = w.cands,
         tombstoned'[u] = tombstoned[u] \cup DOMAIN w.tombs,
         duty'[u] = ensureTombstones(u, w.tombs)
  PROVE  DutiesOK(u)'
  <1> DEFINE fresh(k) == [ notBefore |-> w.tombs[k], next |-> w.tombs[k],
                           token |-> Null, expires |-> 0 ]
  <1>1. DOMAIN w.tombs \subseteq Keys /\ tombstoned[u] \subseteq Keys
    BY DEF TombsOK, Keys, Inv, Registers, StoreTypeOK
  <1>2. ASSUME NEW k \in Keys
        PROVE  duty'[u][k] = IF k \in DOMAIN w.tombs \ tombstoned[u] THEN fresh(k) ELSE duty[u][k]
    BY DEF ensureTombstones
  <1>3. ASSUME NEW k \in DOMAIN w.tombs PROVE DutyOK(fresh(k))
    <2>1. w.tombs[k] \in Nat BY <1>3 DEF TombsOK, Time
    <2> QED BY <2>1 DEF DutyOK
  <1>4. tombstoned'[u] \subseteq {Staging} \cup candidates'[u] BY DEF DutiesOK, TombsOK
  <1> HIDE DEF fresh
  <1>5. ASSUME NEW k \in tombstoned'[u] PROVE DutyOK(duty'[u][k])
    <2>1. CASE k \in tombstoned[u] BY <1>1, <1>2, <2>1 DEF DutiesOK
    <2>2. CASE k \notin tombstoned[u] BY <1>1, <1>2, <1>3, <2>2
    <2> QED BY <2>1, <2>2
  <1> QED BY <1>4, <1>5 DEF DutiesOK, DutyOK

\* The duties after any step.
LEMMA DutiesKept ==
  ASSUME Inv, SchemaInv, WriteEffect, EffectAfter, NEW v \in Uploads
  PROVE  DutiesOK(v)'
  <1>0. /\ DutiesOK(v) /\ DoubtLegal(v)
        /\ candidates'[v] \subseteq Images /\ candidates[v] \subseteq candidates'[v]
        /\ duty \in [Uploads -> [Keys -> DutyRow]] /\ tombstoned[v] \subseteq Keys
    BY DEF SchemaInv, Inv, Registers, StoreTypeOK, EffectAfter, TablesOK, Monotone
  <1>1. ASSUME candidates'[v] = candidates[v], tombstoned'[v] = tombstoned[v],
               \A k \in Keys : DutyOK(duty[v][k]) => DutyOK(duty'[v][k])
        PROVE  DutiesOK(v)'
    BY <1>0, <1>1 DEF DutiesOK, DutyOK
  <1>2. CASE UNCHANGED tables BY <1>1, <1>2 DEF tables
  <1>3. ASSUME NEW u \in Uploads, NEW k \in Keys, Books(u, k) PROVE DutiesOK(v)'
    <2>1. PICK d \in DutyRow : /\ DutyOK(duty[u][k]) => DutyOK(d)
                               /\ SetDuty(u, k, d)
      BY <1>3 DEF Books
    <2>2. \A l \in Keys : duty'[v][l] = IF v = u /\ l = k THEN d ELSE duty[v][l]
      BY <1>0, <2>1 DEF SetDuty
    <2> QED BY <1>1, <2>1, <2>2 DEF SetDuty
  <1>4. ASSUME NEW u \in Uploads, NEW w, TombsOK(w) \/ v # u, Apply(u, w) PROVE DutiesOK(v)'
    <2>1. /\ candidates \in [Uploads -> SUBSET Images]
          /\ tombstoned \in [Uploads -> SUBSET Keys]
      BY DEF Inv, Registers, StoreTypeOK
    <2>2. CASE v = u
      <3>1. /\ candidates'[v] = w.cands /\ tombstoned'[v] = tombstoned[v] \cup DOMAIN w.tombs
            /\ duty'[v] = ensureTombstones(v, w.tombs) /\ TombsOK(w)
        BY <1>0, <1>4, <2>1, <2>2 DEF Apply
      <3> QED BY <1>0, <3>1, DutiesWritten
    <2>3. CASE v # u BY <1>0, <1>1, <1>4, <2>1, <2>3 DEF Apply
    <2> QED BY <2>2, <2>3
  <1>5. ASSUME NEW u \in Uploads, Ends(u) PROVE DutiesOK(v)'
    <2>1. v = u => TombsOK(doubt[u])
      BY <1>0, <1>5 DEF Ends, DoubtLegal, Legal, LegalFor, IsWrite, TombsOK
    <2> QED BY <1>2, <1>4, <1>5, <2>1 DEF Ends
  <1>6. ASSUME NEW u \in Uploads, NEW w, Writes(u, w), Commits(u, w) PROVE DutiesOK(v)'
    BY <1>2, <1>4, <1>6 DEF Writes, Commits
  <1> QED BY <1>2, <1>3, <1>5, <1>6 DEF WriteEffect, db

\* Only a DELETE leads to the application of its result.
LEMMA OnlyDeleteApplies ==
  ASSUME Inv, NEW j \in Janitors, JanitorStep(j) \/ CrashJanitor(j), ~deleteS3Object(j)
  PROVE  jan'[j].pc # "apply"
  <1>0. jan \in [Janitors -> GoodJan] /\ jan[j] \in JanRow BY DEF Inv, Registers, GoodJan
  <1>1. ASSUME NEW n, ExpireMore(j, n) \/ CleanMore(j, n) PROVE jan'[j].pc # "apply"
    <2>1. CASE ExpireMore(j, n)
      <3> DEFINE more == [JanWaits EXCEPT !.pc = "expiry", !.left = n]
                 done == [JanWaits EXCEPT !.pc = "reserve", !.left = CleanupBatch]
      <3>1. jan'[j] = more \/ jan'[j] = done BY <1>0, <2>1 DEF ExpireMore
      <3>2. more.pc = "expiry" /\ done.pc = "reserve" BY DEF JanWaits
      <3> QED BY <3>1, <3>2
    <2>2. CASE CleanMore(j, n)
      <3> DEFINE more == [JanWaits EXCEPT !.pc = "reserve", !.left = n]
      <3>1. jan'[j] = more \/ jan'[j] = JanWaits BY <1>0, <2>2 DEF CleanMore
      <3>2. more.pc = "reserve" /\ JanWaits.pc = "wait" BY DEF JanWaits
      <3> QED BY <3>1, <3>2
    <2> QED BY <1>1, <2>1, <2>2
  <1>2. ASSUME NEW u \in Uploads,
               jan' = [jan EXCEPT ![j].pc = "confirmExpired", ![j].upload = u,
                                  ![j].horizon = uploads[u].horizon]
        PROVE  jan'[j].pc # "apply"
    BY <1>0, <1>2 DEF JanRow
  <1>3. ASSUME NEW u, NEW k, NEW t, NEW pc \in {"delete", "confirmReservation"},
               HoldDuty(j, u, k, t, pc)
        PROVE  jan'[j].pc # "apply"
    BY <1>0, <1>3 DEF HoldDuty, JanRow
  <1>4. CASE jan' = [jan EXCEPT ![j].pc = "delete"] BY <1>0, <1>4 DEF JanRow
  <1>5. CASE runMaintenanceLoop(j) BY <1>1, <1>5 DEF runMaintenanceLoop
  <1>6. CASE expireNextPendingUpload(j)
    BY <1>1, <1>2, <1>6 DEF expireNextPendingUpload, Commit, Fails, EndExpiry
  <1>7. CASE confirmPendingExpired(j) BY <1>1, <1>7 DEF confirmPendingExpired, Fails, EndExpiry
  <1>8. CASE reserveNextCleanup(j)
    <2>1. \/ \E u \in Uploads, k \in Keys, t \in Tokens :
               \E pc \in {"delete", "confirmReservation"} : HoldDuty(j, u, k, t, pc)
          \/ CleanMore(j, 0)
      BY <1>8 DEF reserveNextCleanup, CommitDuty, Fails, EndSweep
    <2> QED BY <1>1, <1>3, <2>1
  <1>9. CASE confirmCleanupReservation(j)
    BY <1>1, <1>4, <1>9 DEF confirmCleanupReservation, Fails, EndSweep
  <1>10. CASE applyCleanupResult(j)
    BY <1>1, <1>10 DEF applyCleanupResult, CommitDuty, Fails, EndSweep
  <1>11. CASE CrashJanitor(j) BY <1>1, <1>11 DEF CrashJanitor, EndSweep
  <1> QED BY <1>5, <1>6, <1>7, <1>8, <1>9, <1>10, <1>11 DEF JanitorStep

\* The duties whose DELETE was answered.
LEMMA AppliesKept ==
  ASSUME Inv, SchemaInv, [Next]_vars, NEW j \in Janitors
  PROVE  ApplyHolds(j)'
  <1>0. EffectAfter /\ now <= now' /\ now' \in Nat BY StepEffect
  <1>1. ASSUME jan[j].pc \in {"delete", "apply"},
               jan'[j].upload = jan[j].upload, jan'[j].key = jan[j].key
        PROVE  ApplyHolds(j)'
    <2>1. jan[j].upload \in Uploads BY <1>1 DEF Inv, Registers, GoodJan, JanSet
    <2>2. /\ jan[j].key \in tombstoned[jan[j].upload]
          /\ duty[jan[j].upload][jan[j].key].notBefore <= now
      BY <1>1 DEF Inv, JanHolds, SchemaInv, ApplyHolds
    <2> QED BY <1>0, <1>1, <2>1, <2>2, DueStays DEF ApplyHolds
  <1>2. CASE jan'[j] = jan[j] BY <1>1, <1>2 DEF ApplyHolds
  <1>3. ASSUME JanitorStep(j) \/ CrashJanitor(j) PROVE ApplyHolds(j)'
    <2>1. CASE deleteS3Object(j)
      <3>1. jan \in [Janitors -> GoodJan] /\ jan[j] \in JanRow /\ jan[j].pc = "delete"
        BY <2>1 DEF Inv, Registers, GoodJan, deleteS3Object, JanAt
      <3>2. \E ok \in BOOLEAN : jan' = [jan EXCEPT ![j].pc = "apply", ![j].deleted = ok]
        BY <2>1 DEF deleteS3Object, S3Write
      <3>3. jan'[j].upload = jan[j].upload /\ jan'[j].key = jan[j].key
        BY <3>1, <3>2 DEF JanRow
      <3> QED BY <1>1, <3>1, <3>3
    <2>2. CASE ~deleteS3Object(j) BY <1>3, <2>2, OnlyDeleteApplies DEF ApplyHolds
    <2> QED BY <2>1, <2>2
  <1>4. CASE UNCHANGED jan BY <1>2, <1>4
  <1>5. CASE MaintenanceNext
    <2>1. PICK i \in Janitors : JanitorStep(i) \/ CrashJanitor(i) BY <1>5 DEF MaintenanceNext
    <2>2. JanKept(i) BY <2>1, JanitorJan DEF Inv
    <2> QED BY <1>2, <1>3, <2>1, <2>2 DEF JanKept
  <1> QED BY <1>4, <1>5 DEF Next, ServiceNext, vars

\* A handler's signed PUT is of now, of before, or forgotten.
LEMMA RequestSigns ==
  ASSUME Inv, NEW q \in Requests,
         \/ RequestStep(q)
         \/ CrashRequest(q)
         \/ \E u \in Uploads : ClientCalls(q, u)
  PROVE  reqs'[q].expires \in {0, reqs[q].expires, now + PresignTTL}
  <1>0. reqs \in [Requests -> GoodReq] /\ reqs[q] \in ReqRow BY DEF Inv, Registers, GoodReq
  <1> DEFINE same == reqs'[q].expires = reqs[q].expires
             none == reqs'[q].expires = 0
  <1>1. CASE Respond(q)
    <2>1. reqs'[q] = ReqIdle BY <1>0, <1>1 DEF Respond
    <2> QED BY <2>1 DEF ReqIdle
  <1>2. ASSUME NEW pc, ReqGoto(q, pc) PROVE same BY <1>0, <1>2 DEF ReqGoto, ReqRow
  <1>3. ASSUME NEW b, Recover(q, b) PROVE same BY <1>0, <1>3 DEF Recover, ReqRow
  <1>4. ASSUME NEW d, ReadBack(q, d) PROVE same BY <1>0, <1>4 DEF ReadBack, ReqRow
  <1>5. CASE createOrReplayUpload(q)
    BY <1>1, <1>2, <1>3, <1>5 DEF createOrReplayUpload, Transaction, Commit, Fails, HandOut,
                                  AnswerState, Refuse
  <1>6. CASE presignReplay(q)
    BY <1>0, <1>6 DEF presignReplay, presignUploadPUT, ReqRow
  <1>7. CASE authorizeReplay(q)
    BY <1>1, <1>3, <1>7 DEF authorizeReplay, Transaction, Commit, Fails, HandOut,
                            AnswerState, Refuse
  <1>8. CASE recoverUnknownUploadCommit(q)
    BY <1>1, <1>8 DEF recoverUnknownUploadCommit, Fails, HandOut, AnswerState, Refuse
  <1>9. CASE completeUploadAttempt(q)
    BY <1>1, <1>4, <1>9 DEF completeUploadAttempt, Transaction, Commit, Fails, Answer
  <1>10. CASE recoverCompletionOutcome(q)
    <2>1. CASE reqs' = [reqs EXCEPT ![q].pc = "complete", ![q].attempt = @ + 1,
                                    ![q].dueBy = Null]
      BY <1>0, <2>1 DEF ReqRow
    <2> QED BY <1>1, <1>10, <2>1 DEF recoverCompletionOutcome, Fails, Answer
  <1>11. CASE CrashRequest(q) BY <1>1, <1>11 DEF CrashRequest
  <1>12. ASSUME NEW u \in Uploads, presignCreate(q, u)
         PROVE  reqs'[q].expires = now + PresignTTL
    BY <1>0, <1>12 DEF presignCreate, presignUploadPUT, ReqIdle
  <1>13. ASSUME NEW u \in Uploads, startComplete(q, u) PROVE reqs'[q].expires = 0
    BY <1>0, <1>13 DEF startComplete, ReqIdle
  <1> QED BY <1>5, <1>6, <1>7, <1>8, <1>9, <1>10, <1>11, <1>12, <1>13
          DEF RequestStep, ClientCalls

\* What requests have signed.
LEMMA SignedKept ==
  ASSUME Inv, SchemaInv, [Next]_vars, NEW q \in Requests
  PROVE  SignedOK(q)'
  <1>0. now \in Nat /\ now <= now' /\ now' \in Nat BY StepEffect
  <1>1. reqs[q].expires \in Nat /\ SignedOK(q)
    BY DEF SchemaInv, Inv, Registers, GoodReq, ReqRow, Time
  <1>2. ASSUME reqs'[q].expires \in {0, reqs[q].expires, now + PresignTTL} PROVE SignedOK(q)'
    BY <1>0, <1>1, <1>2, StoreAssumption DEF SignedOK
  <1>3. CASE UNCHANGED reqs BY <1>2, <1>3
  <1>4. CASE ApiNext
    <2>1. PICK r \in Requests : \/ RequestStep(r)
                                \/ CrashRequest(r)
                                \/ \E u \in Uploads : ClientCalls(r, u)
      BY <1>4 DEF ApiNext
    <2>2. ReqKept(r) BY <2>1, RequestReqs DEF Inv
    <2>3. CASE q = r BY <1>2, <2>1, <2>3, RequestSigns
    <2>4. CASE q # r BY <1>2, <2>2, <2>4 DEF ReqKept
    <2> QED BY <2>3, <2>4
  <1>5. CASE \E u \in Uploads : ClientReads(u)
    BY <1>3, <1>5 DEF ClientReads, getUploadByID, authorizeContentRead
  <1> QED BY <1>3, <1>4, <1>5 DEF Next, ServiceNext, vars, apiVars

\* The initial state.
LEMMA InitSchema == Init => SchemaInv
  <1> SUFFICES ASSUME Init PROVE SchemaInv OBVIOUS
  <1> USE DEF Init, StoreInit, ApiInit, FinInit, JanInit
  <1>1. ASSUME NEW u \in Uploads PROVE RowOK(uploads[u])
    <2>1. /\ uploads[u].state = "none" /\ uploads[u].reason = Null
          /\ uploads[u].claim = Null /\ uploads[u].claimExp = 0
      BY DEF NoUpload
    <2>2. Null \notin RejectReasons \cup ExpiryReasons /\ Missing \in ExpiryReasons
      BY ReasonAssumption DEF Missing, ExpiryReasons
    <2> QED BY <2>1, <2>2 DEF RowOK, ClaimOK, WindowOK, WindowAt
  <1>2. \A u \in Uploads : ~Locked(u) /\ DutiesOK(u) BY DEF Locked, DutiesOK
  <1>3. ASSUME NEW j \in Janitors PROVE ApplyHolds(j) BY DEF ApplyHolds, JanWaits
  <1>4. ASSUME NEW q \in Requests PROVE SignedOK(q)
    BY StoreAssumption DEF SignedOK, ReqIdle
  <1> QED BY <1>1, <1>2, <1>3, <1>4 DEF SchemaInv

-----------------------------------------------------------------------------
(* The theorems on the schema and the claims.                              *)

\* Rows and the rows that transactions in doubt will write, deletion duties,
\* the duties whose DELETE was answered and the PUTs that were signed are
\* together inductive, relative to the invariant of the storage.
THEOREM SchemaInvariant == Spec => []SchemaInv
  <1>1. Inv /\ SchemaInv /\ [Next]_vars => SchemaInv'
    <2> SUFFICES ASSUME Inv, SchemaInv, [Next]_vars PROVE SchemaInv' OBVIOUS
    <2>1. WriteEffect /\ EffectAfter /\ now \in Nat /\ now' \in Nat /\ now <= now'
      BY StepWrites, StepEffect
    <2>2. \A u \in Uploads : RowOK(uploads[u])' /\ (Locked(u) => RowOK(doubt[u].row))'
      BY <2>1, RowsKept
    <2>3. \A u \in Uploads : DutiesOK(u)' BY <2>1, DutiesKept
    <2>4. \A j \in Janitors : ApplyHolds(j)' BY AppliesKept
    <2>5. \A q \in Requests : SignedOK(q)' BY SignedKept
    <2> QED BY <2>2, <2>3, <2>4, <2>5 DEF SchemaInv
  <1> QED BY <1>1, InitSchema, StorageInvariant, PTL DEF Spec

\* No transaction trips over a constraint of the schema, in whatever order
\* transactions whose commit was in doubt are applied and however many
\* requests, finalizers and maintenance loops run.
THEOREM SchemaIsKept == Spec => []SchemaHolds
  <1>1. Inv /\ SchemaInv => SchemaHolds
    <2> SUFFICES ASSUME Inv, SchemaInv PROVE SchemaHolds OBVIOUS
    <2>1. ASSUME NEW u \in Uploads
          PROVE  /\ (uploads[u].final # Null) = (uploads[u].state = "ready")
                 /\ uploads[u].final # Null => uploads[u].final \in candidates[u]
      <3>1. Phase(u) /\ candidates[u] \subseteq Images BY DEF Inv, Registers, StoreTypeOK
      <3>2. Null \notin Images BY StoreAssumption DEF Contents
      <3> QED BY <3>1, <3>2 DEF Phase, PhaseFor
    <2>2. \A u \in Uploads : RowOK(uploads[u]) /\ DutiesOK(u) BY DEF SchemaInv
    <2> QED BY <2>1, <2>2 DEF SchemaHolds, RowOK, ClaimOK, WindowOK, WindowAt, Missing,
                              DutiesOK, DutyOK
  <1> QED BY <1>1, SchemaInvariant, StorageInvariant, PTL

\* A running claim is left alone by everybody but the worker that holds it: a
\* step that writes the claimed row, or leaves such a write in doubt, is a step
\* of that worker, and a row with a write in doubt is only settled.
THEOREM ClaimsAreRespected == Spec => LiveClaimRespected
  <1> DEFINE Changes(u, row) == ClaimColumns(row) # ClaimColumns(uploads[u])
             Respected(u) ==
               /\ uploads[u].claim # Null
               /\ now < uploads[u].claimExp
               /\ \/ ~Locked(u) /\ Changes(u, uploads'[u])
                  \/ ~Locked(u) /\ doubt'[u] # Null /\ Changes(u, doubt'[u].row)
                  \/ Locked(u) /\ uploads'[u] \notin {uploads[u], doubt[u].row}
               => \E f \in Finalizers :
                    fin[f].token = uploads[u].claim /\ fin'[f] # fin[f]
  <1>1. Inv /\ SchemaInv /\ [Next]_vars => \A u \in Uploads : Respected(u)
    <2> SUFFICES ASSUME Inv, SchemaInv, [Next]_vars, NEW u \in Uploads PROVE Respected(u)
      OBVIOUS
    <2>1. Turns(u) BY StepWrites, StepTurns
    <2>2. now \in Nat /\ uploads[u].claimExp \in Nat
      BY DEF Inv, Registers, StoreTypeOK, UploadRow, Time
    <2>3. CASE Settles(u) BY <2>3 DEF Settles
    <2>4. ASSUME NEW w, Lands(u, w) PROVE Respected(u)
      BY <2>2, <2>4 DEF Lands, Writes, ClaimRespected
    <2>5. CASE Leaves(u) /\ (doubt'[u] = doubt[u] \/ doubt'[u] = Null)
      BY <2>5 DEF Leaves, Locked
    <2>6. CASE Leaves(u) /\ ~Locked(u) /\ Writes(u, doubt'[u])
      BY <2>2, <2>6 DEF Leaves, Writes, ClaimRespected
    <2> QED BY <2>1, <2>3, <2>4, <2>5, <2>6 DEF Turns
  <1>2. Spec => [][\A u \in Uploads : Respected(u)]_vars
    <2>1. Inv /\ SchemaInv /\ [Next]_vars => [\A u \in Uploads : Respected(u)]_vars
      BY <1>1
    <2> QED BY <2>1, SchemaInvariant, StorageInvariant, PTL DEF Spec
  <1> QED BY <1>2 DEF LiveClaimRespected

-----------------------------------------------------------------------------
(* Where the bytes behind an upload come from.                             *)

\* What is tracked, or will be when a transaction in doubt is applied, and
\* what staging holds has arrived in staging.
FromStaging(u) ==
  /\ candidates[u] \subseteq written[u]
  /\ Locked(u) => doubt[u].cands \subseteq written[u]
  /\ objects[u][Staging] # Null => objects[u][Staging] \in written[u]

\* Bytes that arrived in time stay in staging until the upload is terminal,
\* and are not written off.
EarlyKept(u) ==
  /\ early[u] /\ uploads[u].state \notin Terminal => objects[u][Staging] # Null
  /\ uploads[u].reason = Missing => ~early[u]
  /\ Locked(u) /\ doubt[u].row.reason = Missing => ~early[u]

\* Requests to staging in flight are for uploads that have a row.
SentToRow(m) == m.key = Staging => uploads[m.upload].state # "none"

\* A finalizer holds bytes that it read in staging.
Captured(f) == fin[f].pc = "register" => fin[f].img \in written[fin[f].upload]

\* What a finalizer observed is final: the write window is over and no
\* transaction, nor one in doubt, moves it.
Observes(f) ==
  fin[f].pc \in {"getStaging", "expire"} /\ fin[f].eligible =>
    /\ Row(f).state # "none"
    /\ Row(f).horizon = fin[f].horizon
    /\ now >= Row(f).horizon /\ now >= Row(f).deadline
    /\ Locked(fin[f].upload) => /\ doubt[fin[f].upload].row.horizon = Row(f).horizon
                                /\ doubt[fin[f].upload].row.deadline = Row(f).deadline

\* A finalizer that is about to write an upload off found staging empty after
\* the window, so nothing arrived in time.
FoundEmpty(f) ==
  fin[f].pc = "expire" =>
    fin[f].eligible /\ (Row(f).state \notin Terminal => ~early[fin[f].upload])

Watches(f) == Captured(f) /\ Observes(f) /\ FoundEmpty(f)

OriginInv ==
  /\ \A u \in Uploads : FromStaging(u) /\ EarlyKept(u)
  /\ \A m \in inflight : SentToRow(m)
  /\ \A f \in Finalizers : Watches(f)

-----------------------------------------------------------------------------
(* The bucket.                                                             *)

\* A step on the bucket concerns staging only when the upload has a row.
StagingEffect ==
  \/ UNCHANGED bucket
  \/ /\ UNCHANGED db
     /\ \E u \in Uploads, k \in Keys, c \in Contents \cup {Null} :
          /\ Allowed(u, k, c)
          /\ k = Staging => uploads[u].state # "none"
          /\ Applies(u, k, c) \/ Sends(u, k, c)

LEMMA StepStages ==
  ASSUME Inv, OriginInv, [Next]_vars
  PROVE  StagingEffect
  <1>0. CASE UNCHANGED bucket BY <1>0 DEF StagingEffect
  <1>1. ASSUME NEW m \in inflight, Land(m) PROVE StagingEffect
    <2>1. /\ m.upload \in Uploads /\ m.key \in Keys /\ m.content \in Contents \cup {Null}
          /\ Allowed(m.upload, m.key, m.content)
      BY DEF Inv, Registers, StoreTypeOK, S3Request
    <2>2. m.key = Staging => uploads[m.upload].state # "none" BY DEF OriginInv, SentToRow
    <2>3. Applies(m.upload, m.key, m.content) /\ UNCHANGED db BY <1>1 DEF Land, Applies
    <2> QED BY <2>1, <2>2, <2>3 DEF StagingEffect
  <1>2. ASSUME NEW u \in Uploads, NEW c \in Contents, ClientPut(u, c) PROVE StagingEffect
    <2>1. now < caps[u] /\ UNCHANGED db /\ (Applies(u, Staging, c) \/ Sends(u, Staging, c))
      BY <1>2 DEF ClientPut, Applies, Sends
    <2>2. caps[u] <= uploads[u].horizon /\ (uploads[u].state = "none" => uploads[u].horizon = 0)
      BY DEF Inv, History, HistoryFor, Phase, PhaseFor
    <2>3. now \in Nat /\ caps[u] \in Nat /\ uploads[u].horizon \in Nat
      BY DEF Inv, Registers, StoreTypeOK, UploadRow, Time
    <2>4. uploads[u].state # "none" BY <2>1, <2>2, <2>3
    <2>5. Staging \in Keys /\ Allowed(u, Staging, c) BY StoreAssumption DEF Keys, Allowed
    <2> QED BY <2>1, <2>4, <2>5 DEF StagingEffect
  <1>3. ASSUME NEW f \in Finalizers, putCandidateObject(f) PROVE StagingEffect
    <2>1. fin[f].pc = "put" /\ UNCHANGED db BY <1>3 DEF putCandidateObject, At
    <2>2. fin[f] \in GoodFin /\ FinHolds(f) BY DEF Inv, Registers
    <2> DEFINE u == fin[f].upload
               i == fin[f].img
    <2>3. u \in Uploads /\ i \in Images BY <2>1, <2>2 DEF GoodFin, FinSet, HoldsImage
    <2>4. i \in Keys /\ i \in Contents \cup {Null} /\ i # Staging
      BY <2>3, StoreAssumption DEF Keys, Contents
    <2>5. Allowed(u, i, i) BY <2>1, <2>2 DEF FinHolds, WillPut, Allowed
    <2>6. Applies(u, i, i) \/ Sends(u, i, i) \/ UNCHANGED bucket
      BY <1>3 DEF putCandidateObject, S3Write, Applies, Sends
    <2> QED BY <1>0, <2>1, <2>3, <2>4, <2>5, <2>6 DEF StagingEffect
  <1>4. ASSUME NEW j \in Janitors, deleteS3Object(j) PROVE StagingEffect
    <2> DEFINE u == jan[j].upload
               k == jan[j].key
    <2>1. jan[j].pc = "delete" /\ UNCHANGED db BY <1>4 DEF deleteS3Object, JanAt
    <2>2. u \in Uploads /\ k \in Keys /\ k \in tombstoned[u]
      BY <2>1 DEF Inv, Registers, GoodJan, JanSet, JanHolds
    <2>3. Allowed(u, k, Null) BY <2>2 DEF Allowed
    <2>4. uploads[u].state # "none" BY <2>2 DEF Inv, Phase, PhaseFor, Terminal
    <2>5. Applies(u, k, Null) \/ Sends(u, k, Null) \/ UNCHANGED bucket
      BY <1>4 DEF deleteS3Object, S3Write, Applies, Sends
    <2> QED BY <1>0, <2>1, <2>2, <2>3, <2>4, <2>5 DEF StagingEffect
  <1>5. CASE EnvironmentNext
    BY <1>0, <1>1, <1>2, <1>5 DEF EnvironmentNext, Tick, Settle
  <1>6. CASE ApiNext BY <1>0, <1>6, RequestFrame DEF ApiNext
  <1>7. CASE FinalizerNext BY <1>0, <1>3, <1>7, FinalizerFrame DEF FinalizerNext
  <1>8. CASE MaintenanceNext BY <1>0, <1>4, <1>8, JanitorFrame DEF MaintenanceNext
  <1>9. CASE \E u \in Uploads : ClientReads(u)
    BY <1>0, <1>9 DEF ClientReads, getUploadByID, authorizeContentRead, storeVars
  <1>10. CASE UNCHANGED vars BY <1>0, <1>10 DEF vars, storeVars
  <1> QED BY <1>5, <1>6, <1>7, <1>8, <1>9, <1>10 DEF Next, ServiceNext

\* What a step may do to the staging object of an upload and to the history of
\* what arrived there.
Staged(u) ==
  /\ written[u] \subseteq written'[u]
  /\ early'[u] => early[u] \/ now < uploads[u].horizon
  /\ \/ objects'[u][Staging] = objects[u][Staging] /\ early'[u] = early[u]
     \/ objects'[u][Staging] # Null /\ objects'[u][Staging] \in written'[u]
     \/ uploads[u].state \in Terminal /\ objects'[u][Staging] = Null

LEMMA StepStaged ==
  ASSUME Inv, StagingEffect, NEW v \in Uploads
  PROVE  Staged(v)
  <1>0. /\ objects \in [Uploads -> [Keys -> Contents \cup {Null}]]
        /\ written \in [Uploads -> SUBSET Contents] /\ early \in [Uploads -> BOOLEAN]
        /\ Staging \in Keys
    BY DEF Inv, Registers, StoreTypeOK, Keys
  <1>1. CASE UNCHANGED <<objects, written, early>> BY <1>1 DEF Staged
  <1>2. CASE UNCHANGED bucket BY <1>1, <1>2 DEF bucket
  <1>3. ASSUME NEW u \in Uploads, NEW k \in Keys, NEW c \in Contents \cup {Null},
               Allowed(u, k, c), Arrive(u, k, c)
        PROVE  Staged(v)
    <2>1. written'[v] = IF v = u /\ k = Staging /\ c # Null THEN written[v] \cup {c} ELSE written[v]
      BY <1>0, <1>3 DEF Arrive
    <2>2. early'[v] = IF v = u THEN early[v] \/ (k = Staging /\ c # Null /\ now < uploads[v].horizon)
                      ELSE early[v]
      BY <1>0, <1>3 DEF Arrive
    <2>3. objects'[v][Staging] = IF v = u /\ k = Staging THEN c ELSE objects[v][Staging]
      BY <1>0, <1>3 DEF Arrive
    <2>4. CASE ~(v = u /\ k = Staging)
      <3>1. early'[v] = early[v] BY <1>0, <2>2, <2>4
      <3> QED BY <2>1, <2>3, <2>4, <3>1 DEF Staged
    <2>5. CASE v = u /\ k = Staging /\ c # Null
      <3>1. written'[v] = written[v] \cup {c} /\ objects'[v][Staging] = c BY <2>1, <2>3, <2>5
      <3>2. early'[v] => early[v] \/ now < uploads[v].horizon BY <2>2, <2>5
      <3> QED BY <2>5, <3>1, <3>2 DEF Staged
    <2>6. CASE v = u /\ k = Staging /\ c = Null
      <3>1. Staging \in tombstoned[v] BY <1>3, <2>6, StoreAssumption DEF Allowed
      <3>2. uploads[v].state \in Terminal BY <3>1 DEF Inv, Phase, PhaseFor
      <3> QED BY <2>1, <2>2, <2>3, <2>6, <3>2 DEF Staged
    <2> QED BY <2>4, <2>5, <2>6
  <1>4. CASE \E u \in Uploads, k \in Keys, c \in Contents \cup {Null} :
               Allowed(u, k, c) /\ (Applies(u, k, c) \/ Sends(u, k, c))
    BY <1>1, <1>3, <1>4 DEF Applies, Sends
  <1> QED BY <1>2, <1>4 DEF StagingEffect

\* Requests in flight.
LEMMA SentKept ==
  ASSUME Inv, OriginInv, StagingEffect, EffectAfter, NEW m \in inflight'
  PROVE  SentToRow(m)'
  <1>1. ASSUME m.upload \in Uploads, m.key = Staging => uploads[m.upload].state # "none"
        PROVE  SentToRow(m)'
    BY <1>1 DEF SentToRow, EffectAfter, Monotone
  <1>2. CASE m \in inflight
    BY <1>1, <1>2 DEF OriginInv, SentToRow, Inv, Registers, StoreTypeOK, S3Request
  <1>3. CASE m \notin inflight
    <2>1. PICK u \in Uploads, k \in Keys, c \in Contents \cup {Null} :
            (k = Staging => uploads[u].state # "none") /\ Sends(u, k, c)
      BY <1>3 DEF StagingEffect, bucket, Applies
    <2>2. m = [upload |-> u, key |-> k, content |-> c] BY <1>3, <2>1 DEF Sends
    <2>3. m.upload = u /\ m.key = k BY <2>2
    <2> QED BY <1>1, <2>1, <2>3
  <1> QED BY <1>2, <1>3

-----------------------------------------------------------------------------
(* The write window and the history of staging.                            *)

\* Once the deadline has passed, no step moves the write window of an upload,
\* the late commit of a transaction in doubt included.
LEMMA WindowClosed ==
  ASSUME NEW u \in Uploads, Turns(u), EffectAfter,
         uploads[u].state # "none", ~(now < uploads[u].deadline),
         Locked(u) => /\ doubt[u].row.horizon = uploads[u].horizon
                      /\ doubt[u].row.deadline = uploads[u].deadline
  PROVE  /\ uploads'[u].state # "none"
         /\ uploads'[u].horizon = uploads[u].horizon
         /\ uploads'[u].deadline = uploads[u].deadline
         /\ doubt'[u] # Null => /\ doubt'[u].row.horizon = uploads[u].horizon
                                /\ doubt'[u].row.deadline = uploads[u].deadline
  <1>1. uploads'[u].state # "none" BY DEF EffectAfter, Monotone
  <1>2. CASE Settles(u) BY <1>1, <1>2 DEF Settles
  <1>3. ASSUME NEW w, Lands(u, w)
        PROVE  /\ uploads'[u].horizon = uploads[u].horizon
               /\ uploads'[u].deadline = uploads[u].deadline /\ doubt'[u] = Null
    BY <1>3 DEF Lands, Writes
  <1>4. CASE Leaves(u) /\ (doubt'[u] = doubt[u] \/ doubt'[u] = Null)
    BY <1>1, <1>4 DEF Leaves, Locked
  <1>5. CASE Leaves(u) /\ ~Locked(u) /\ Writes(u, doubt'[u])
    BY <1>1, <1>5 DEF Leaves, Writes
  <1> QED BY <1>1, <1>2, <1>3, <1>4, <1>5 DEF Turns

\* An upload is written off by a worker that found nothing which had arrived
\* in time, after the last moment at which anything could.
LEMMA WrittenOff ==
  ASSUME Inv, OriginInv, NEW u \in Uploads, WritesOff(u)
  PROVE  ~early[u] /\ ~(now < uploads[u].horizon)
  <1>1. PICK f \in Finalizers : fin[f].pc = "expire" /\ fin[f].upload = u BY DEF WritesOff
  <1>2. Watches(f) BY DEF OriginInv
  <1>3. uploads[u].state \notin Terminal BY DEF WritesOff, Terminal
  <1>4. ~early[u] /\ now >= uploads[u].horizon
    BY <1>1, <1>2, <1>3 DEF Watches, FoundEmpty, Observes, Row
  <1>5. now \in Nat /\ uploads[u].horizon \in Nat
    BY DEF Inv, Registers, StoreTypeOK, UploadRow, Time
  <1> QED BY <1>4, <1>5

\* What is tracked comes from staging.
LEMMA FromStagingKept ==
  ASSUME Inv, OriginInv, NEW u \in Uploads, Turns(u), Staged(u)
  PROVE  FromStaging(u)'
  <1>0. FromStaging(u) BY DEF OriginInv
  <1>1. ASSUME NEW cands, Tracks(u, cands) PROVE cands \subseteq written[u]
    <2>1. ASSUME NEW f \in Finalizers, fin[f].pc = "register", fin[f].upload = u
          PROVE  fin[f].img \in written[u]
      BY <2>1 DEF OriginInv, Watches, Captured
    <2> QED BY <1>0, <1>1, <2>1 DEF Tracks, FromStaging
  <1>2. candidates'[u] \subseteq written'[u]
    BY <1>0, <1>1 DEF Turns, Settles, Lands, Leaves, Writes, FromStaging, Staged
  <1>3. doubt'[u] # Null => doubt'[u].cands \subseteq written'[u]
    BY <1>0, <1>1 DEF Turns, Settles, Lands, Writes, FromStaging, Staged, Locked
  <1>4. objects'[u][Staging] # Null => objects'[u][Staging] \in written'[u]
    BY <1>0 DEF FromStaging, Staged
  <1> QED BY <1>2, <1>3, <1>4 DEF FromStaging, Locked

\* Bytes that arrived in time are not lost.
LEMMA EarlyKeptKept ==
  ASSUME Inv, SchemaInv, OriginInv, NEW u \in Uploads, Turns(u), Staged(u), EffectAfter
  PROVE  EarlyKept(u)'
  <1>0. EarlyKept(u) /\ uploads[u] \in UploadRow /\ now \in Nat
    BY DEF OriginInv, Inv, Registers, StoreTypeOK, Time
  <1>1. uploads[u].horizon \in Nat BY <1>0 DEF UploadRow, Time
  <1>2. ASSUME ~early[u], ~(now < uploads[u].horizon) PROVE ~early'[u] BY <1>2 DEF Staged
  <1>3. ASSUME uploads[u].reason = Missing PROVE ~early'[u]
    <2>1. now >= uploads[u].horizon BY <1>3 DEF SchemaInv, RowOK, WindowOK, WindowAt
    <2> QED BY <1>0, <1>1, <1>2, <1>3, <2>1 DEF EarlyKept
  <1>4. ASSUME Locked(u), doubt[u].row.reason = Missing PROVE ~early'[u]
    <2>1. now >= doubt[u].row.horizon BY <1>4 DEF SchemaInv, RowOK, WindowOK, WindowAt
    <2>2. uploads[u].horizon <= doubt[u].row.horizon /\ doubt[u].row \in UploadRow
      BY <1>4 DEF Inv, DoubtLegal, Legal, LegalFor, IsWrite
    <2>3. doubt[u].row.horizon \in Nat BY <2>2 DEF UploadRow, Time
    <2> QED BY <1>0, <1>1, <1>2, <1>4, <2>1, <2>2, <2>3 DEF EarlyKept
  <1>5. ASSUME NEW w, Writes(u, w), w.row.reason = Missing PROVE ~early'[u]
    <2>1. WritesOff(u) BY <1>5 DEF Writes
    <2> QED BY <1>2, <2>1, WrittenOff
  <1>6. uploads'[u].reason = Missing => ~early'[u]
    BY <1>3, <1>4, <1>5 DEF Turns, Settles, Lands, Leaves
  <1>7. doubt'[u] # Null /\ doubt'[u].row.reason = Missing => ~early'[u]
    BY <1>4, <1>5 DEF Turns, Settles, Lands, Locked
  <1>8. early'[u] /\ uploads'[u].state \notin Terminal => objects'[u][Staging] # Null
    <2>1. uploads[u].state \in Terminal => uploads'[u].state \in Terminal
      BY DEF EffectAfter, Monotone
    <2> QED BY <1>0, <2>1 DEF EarlyKept, Staged
  <1> QED BY <1>6, <1>7, <1>8 DEF EarlyKept, Locked

-----------------------------------------------------------------------------
(* What finalizers captured and observed.                                  *)

\* The other steps of a finalizer neither capture nor observe.
LEMMA Elsewhere ==
  ASSUME Inv, NEW f \in Finalizers, FinalizerStep(f) \/ CrashFinalizer(f),
         ~prepareMissingObservation(f), ~captureStaging(f)
  PROVE  fin'[f].pc \notin {"register", "getStaging", "expire"}
  <1> DEFINE away == fin'[f].pc \notin {"register", "getStaging", "expire"}
  <1>0. fin \in [Finalizers -> GoodFin] /\ fin[f] \in GoodFin /\ fin[f] \in FinRow
    BY DEF Inv, Registers, GoodFin
  <1>1. CASE Stop(f)
    <2>1. fin'[f] = FinIdle BY <1>0, <1>1 DEF Stop
    <2> QED BY <2>1 DEF FinIdle
  <1>2. ASSUME NEW pc, pc \notin {"register", "getStaging", "expire"}, Goto(f, pc) PROVE away
    <2>1. fin'[f].pc = pc BY <1>0, <1>2 DEF Goto, FinRow
    <2> QED BY <1>2, <2>1
  <1>3. ASSUME NEW n, RenewThen(f, n) PROVE away
    <2>1. fin'[f].pc = "renew" BY <1>0, <1>3 DEF RenewThen, FinRow
    <2> QED BY <2>1
  <1>4. ASSUME NEW reason, RejectWith(f, reason) PROVE away
    <2>1. fin'[f].pc = "reject" BY <1>0, <1>4 DEF RejectWith, FinRow
    <2> QED BY <2>1
  <1>5. ASSUME NEW u \in Uploads, NEW t \in Tokens, claimNextFinalizing(f, u, t) PROVE away
    <2>1. fin'[f].pc \in {"load", "confirmClaim"}
      BY <1>0, <1>5 DEF claimNextFinalizing, Commit, FinRow
    <2> QED BY <2>1
  <1>6. CASE loadTrackedCandidates(f)
    <2>1. fin'[f].pc = "renew" \/ Goto(f, "retry")
      BY <1>0, <1>6 DEF loadTrackedCandidates, Fails, FinRow
    <2> QED BY <1>2, <2>1
  <1>7. CASE renewFinalizeClaim(f) \/ confirmFinalizeRenewal(f)
    <2>1. fin[f].next \in {"getCand", "observe", "put", "verify"}
      BY <1>0, <1>7 DEF renewFinalizeClaim, confirmFinalizeRenewal, At, GoodFin, FinSet
    <2>2. \/ Stop(f) \/ Goto(f, "retry") \/ Goto(f, fin[f].next)
          \/ fin' = [fin EXCEPT ![f].pc = "confirmRenew", ![f].expect = now + Lease]
      BY <1>7 DEF renewFinalizeClaim, confirmFinalizeRenewal, Transaction, CommitRow, Commit, Fails
    <2>3. CASE fin' = [fin EXCEPT ![f].pc = "confirmRenew", ![f].expect = now + Lease]
      <3>1. fin'[f].pc = "confirmRenew" BY <1>0, <2>3 DEF FinRow
      <3> QED BY <3>1
    <2> QED BY <1>1, <1>2, <2>1, <2>2, <2>3
  <1>8. CASE getCandidate(f)
    <2>1. \/ Goto(f, "retry") \/ RejectWith(f, "internal_invariant")
          \/ \E c \in fin[f].todo :
               \/ fin' = [fin EXCEPT ![f].pc = "renew",
                                     ![f].next = NextCandidate(fin[f].todo \ {c}),
                                     ![f].todo = @ \ {c}]
               \/ fin' = [fin EXCEPT ![f].pc = "ready", ![f].img = c]
      BY <1>8 DEF getCandidate
    <2>2. ASSUME NEW c \in fin[f].todo,
                 fin' = [fin EXCEPT ![f].pc = "renew",
                                    ![f].next = NextCandidate(fin[f].todo \ {c}),
                                    ![f].todo = @ \ {c}]
          PROVE  fin'[f].pc = "renew"
      BY <1>0, <2>2 DEF FinRow
    <2>3. ASSUME NEW c \in fin[f].todo, fin' = [fin EXCEPT ![f].pc = "ready", ![f].img = c]
          PROVE  fin'[f].pc = "ready"
      BY <1>0, <2>3 DEF FinRow
    <2> QED BY <1>2, <1>4, <2>1, <2>2, <2>3
  <1>9. CASE confirmFinalizeClaim(f) BY <1>1, <1>2, <1>9 DEF confirmFinalizeClaim, Fails
  <1>10. CASE registerCandidate(f)
    BY <1>1, <1>2, <1>3, <1>10 DEF registerCandidate, Transaction, Commit, Fails
  <1>11. CASE candidateTracked(f) BY <1>2, <1>3, <1>11 DEF candidateTracked, Fails
  <1>12. CASE putCandidateObject(f) BY <1>3, <1>12 DEF putCandidateObject, S3Write
  <1>13. CASE verifyCandidate(f) BY <1>2, <1>4, <1>13 DEF verifyCandidate
  <1>14. CASE transitionFinalizeReady(f)
    BY <1>1, <1>2, <1>14 DEF transitionFinalizeReady, Transaction, Commit, Fails
  <1>15. CASE transitionFinalizeRejected(f)
    BY <1>1, <1>2, <1>15 DEF transitionFinalizeRejected, Transaction, Commit, Fails
  <1>16. CASE transitionFinalizeExpiredMissing(f)
    BY <1>1, <1>2, <1>16 DEF transitionFinalizeExpiredMissing, Transaction, Commit, Fails
  <1>17. CASE confirmTerminal(f) BY <1>1, <1>2, <1>17 DEF confirmTerminal, Fails
  <1>18. CASE scheduleFinalizeRetry(f)
    BY <1>1, <1>18 DEF scheduleFinalizeRetry, Transaction, CommitRow, Commit, Fails
  <1>19. CASE CrashFinalizer(f) BY <1>1, <1>19 DEF CrashFinalizer
  <1> QED BY <1>5, <1>6, <1>7, <1>8, <1>9, <1>10, <1>11, <1>12, <1>13, <1>14, <1>15, <1>16,
             <1>17, <1>18, <1>19
          DEF FinalizerStep

\* prepareMissingObservation reads the window under the lock of the row.
LEMMA PrepareWatches ==
  ASSUME Inv, NEW f \in Finalizers, prepareMissingObservation(f)
  PROVE  Watches(f)'
  <1> DEFINE u == fin[f].upload
             observed == [fin EXCEPT ![f].pc = "getStaging", ![f].horizon = Row(f).horizon,
                                     ![f].eligible = MissingIsFinal(f)]
  <1>0. fin \in [Finalizers -> GoodFin] /\ fin[f] \in FinRow /\ fin[f].pc = "observe"
    BY DEF Inv, Registers, GoodFin, prepareMissingObservation, At
  <1>1. Stop(f) \/ Goto(f, "retry") \/ (~Locked(u) /\ Active(f) /\ fin' = observed)
    BY DEF prepareMissingObservation, Transaction, Fails
  <1>2. CASE Stop(f)
    <2>1. fin'[f] = FinIdle BY <1>0, <1>2 DEF Stop
    <2> QED BY <2>1 DEF FinIdle, Watches, Captured, Observes, FoundEmpty
  <1>3. CASE Goto(f, "retry")
    <2>1. fin'[f].pc = "retry" BY <1>0, <1>3 DEF Goto, FinRow
    <2> QED BY <2>1 DEF Watches, Captured, Observes, FoundEmpty
  <1>4. CASE ~Locked(u) /\ Active(f) /\ fin' = observed
    <2>1. /\ fin'[f].pc = "getStaging" /\ fin'[f].upload = u
          /\ fin'[f].horizon = Row(f).horizon /\ fin'[f].eligible = MissingIsFinal(f)
      BY <1>0, <1>4 DEF FinRow
    <2>2. UNCHANGED <<now, uploads, doubt>>
      BY DEF prepareMissingObservation, Transaction, Fails, db, tables
    <2>3. Row(f).state # "none" BY <1>4 DEF Active, OwnsClaim
    <2>4. fin'[f].eligible => now >= Row(f).deadline /\ now >= Row(f).horizon
      BY <2>1 DEF MissingIsFinal
    <2>5. uploads'[u] = Row(f) /\ doubt'[u] = Null /\ now' = now
      BY <1>4, <2>2 DEF Row, Locked
    <2>6. Observes(f)' BY <2>1, <2>3, <2>4, <2>5 DEF Observes, Row, Locked
    <2> QED BY <2>1, <2>6 DEF Watches, Captured, FoundEmpty
  <1> QED BY <1>1, <1>2, <1>3, <1>4

\* captureStaging finds bytes that arrived, or nothing after the window.
LEMMA CaptureWatches ==
  ASSUME Inv, OriginInv, NEW f \in Finalizers, captureStaging(f)
  PROVE  Watches(f)'
  <1> DEFINE u == fin[f].upload
  <1>0. /\ fin \in [Finalizers -> GoodFin] /\ fin[f] \in FinRow /\ fin[f].pc = "getStaging"
        /\ Watches(f)
    BY DEF Inv, Registers, GoodFin, captureStaging, At, OriginInv
  <1>1. u \in Uploads BY <1>0 DEF Inv, Registers, GoodFin, FinSet
  <1>2. UNCHANGED <<now, uploads, doubt, written, early>>
    BY DEF captureStaging, db, tables, bucket
  <1>3. ASSUME fin'[f].pc \notin {"register", "getStaging", "expire"} PROVE Watches(f)'
    BY <1>3 DEF Watches, Captured, Observes, FoundEmpty
  <1>4. \/ Object(f, Staging) = Null /\ fin[f].eligible /\ Goto(f, "expire")
        \/ Goto(f, "retry")
        \/ \E reason \in RejectReasons : RejectWith(f, reason)
        \/ /\ Object(f, Staging) \in Images
           /\ fin' = [fin EXCEPT ![f].pc = "register", ![f].img = Object(f, Staging)]
    BY DEF captureStaging
  <1>5. CASE Goto(f, "retry")
    <2>1. fin'[f].pc = "retry" BY <1>0, <1>5 DEF Goto, FinRow
    <2> QED BY <1>3, <2>1
  <1>6. ASSUME NEW reason \in RejectReasons, RejectWith(f, reason) PROVE Watches(f)'
    <2>1. fin'[f].pc = "reject" BY <1>0, <1>6 DEF RejectWith, FinRow
    <2> QED BY <1>3, <2>1
  <1>7. ASSUME Object(f, Staging) \in Images,
               fin' = [fin EXCEPT ![f].pc = "register", ![f].img = Object(f, Staging)]
        PROVE  Watches(f)'
    <2>1. fin'[f].pc = "register" /\ fin'[f].upload = u /\ fin'[f].img = objects[u][Staging]
      BY <1>0, <1>7 DEF FinRow, Object
    <2>2. objects[u][Staging] \in written[u]
      BY <1>1, <1>7, StoreAssumption DEF OriginInv, FromStaging, Object, Contents
    <2> QED BY <1>2, <2>1, <2>2 DEF Watches, Captured, Observes, FoundEmpty
  <1>8. ASSUME Object(f, Staging) = Null, fin[f].eligible, Goto(f, "expire") PROVE Watches(f)'
    <2>1. /\ fin'[f].pc = "expire" /\ fin'[f].upload = u /\ fin'[f].horizon = fin[f].horizon
          /\ fin'[f].eligible = fin[f].eligible
      BY <1>0, <1>8 DEF Goto, FinRow
    <2>2. Row(f)' = Row(f) /\ Locked(u)' = Locked(u) BY <1>2, <2>1 DEF Row, Locked
    <2>3. Observes(f)' BY <1>0, <1>2, <1>8, <2>1, <2>2 DEF Watches, Observes, Row, Locked
    <2>4. uploads[u].state \notin Terminal => ~early[u]
      BY <1>1, <1>8 DEF OriginInv, EarlyKept, Object
    <2>5. FoundEmpty(f)' BY <1>2, <1>8, <2>1, <2>4 DEF FoundEmpty, Row
    <2> QED BY <2>1, <2>3, <2>5 DEF Watches, Captured
  <1> QED BY <1>4, <1>5, <1>6, <1>7, <1>8

\* What a finalizer captured and observed stays true while others step.
LEMMA StillWatches ==
  ASSUME Inv, OriginInv, NEW f \in Finalizers, fin'[f] = fin[f],
         \A u \in Uploads : Turns(u) /\ Staged(u), EffectAfter,
         now \in Nat, now' \in Nat, now <= now'
  PROVE  Watches(f)'
  <1> DEFINE u == fin[f].upload
  <1>0. Watches(f) /\ fin[f] \in GoodFin BY DEF OriginInv, Inv, Registers
  <1>1. CASE fin[f].pc \notin {"register", "getStaging", "expire"}
    BY <1>1 DEF Watches, Captured, Observes, FoundEmpty
  <1>2. CASE fin[f].pc = "register"
    <2>1. u \in Uploads BY <1>0, <1>2 DEF GoodFin, FinSet
    <2>2. fin[f].img \in written'[u] BY <1>0, <1>2, <2>1 DEF Watches, Captured, Staged
    <2> QED BY <1>2, <2>2 DEF Watches, Captured, Observes, FoundEmpty
  <1>3. CASE fin[f].pc \in {"getStaging", "expire"} /\ ~fin[f].eligible
    BY <1>0, <1>3 DEF Watches, Captured, Observes, FoundEmpty
  <1>4. CASE fin[f].pc \in {"getStaging", "expire"} /\ fin[f].eligible
    <2>1. u \in Uploads BY <1>0, <1>4 DEF GoodFin, FinSet
    <2>2. /\ uploads[u].state # "none" /\ uploads[u].horizon = fin[f].horizon
          /\ now >= uploads[u].horizon /\ now >= uploads[u].deadline
          /\ Locked(u) => /\ doubt[u].row.horizon = uploads[u].horizon
                          /\ doubt[u].row.deadline = uploads[u].deadline
      BY <1>0, <1>4 DEF Watches, Observes, Row
    <2>3. uploads[u].horizon \in Nat /\ uploads[u].deadline \in Nat
      BY <2>1 DEF Inv, Registers, StoreTypeOK, UploadRow, Time
    <2>4. /\ uploads'[u].state # "none"
          /\ uploads'[u].horizon = uploads[u].horizon
          /\ uploads'[u].deadline = uploads[u].deadline
          /\ doubt'[u] # Null => /\ doubt'[u].row.horizon = uploads[u].horizon
                                 /\ doubt'[u].row.deadline = uploads[u].deadline
      BY <2>1, <2>2, <2>3, WindowClosed
    <2>5. now' >= uploads'[u].horizon /\ now' >= uploads'[u].deadline BY <2>2, <2>3, <2>4
    <2>6. Observes(f)' BY <2>2, <2>4, <2>5 DEF Observes, Row, Locked
    <2>7. FoundEmpty(f)'
      <3> SUFFICES ASSUME fin[f].pc = "expire", uploads'[u].state \notin Terminal
                   PROVE  ~early'[u]
        BY <1>4 DEF FoundEmpty, Row
      <3>1. uploads[u].state \notin Terminal BY <2>1 DEF EffectAfter, Monotone
      <3>2. ~early[u] BY <1>0, <3>1 DEF Watches, FoundEmpty, Row
      <3> QED BY <2>1, <2>2, <2>3, <3>2 DEF Staged
    <2> QED BY <1>4, <2>6, <2>7 DEF Watches, Captured
  <1> QED BY <1>1, <1>2, <1>3, <1>4

\* The initial state.
LEMMA InitOrigin == Init => OriginInv
  <1> SUFFICES ASSUME Init PROVE OriginInv OBVIOUS
  <1> USE DEF Init, StoreInit, FinInit
  <1>1. ASSUME NEW u \in Uploads PROVE FromStaging(u) /\ EarlyKept(u)
    <2>1. objects[u][Staging] = Null BY DEF Keys
    <2> QED BY <2>1 DEF FromStaging, EarlyKept, Locked
  <1>2. ASSUME NEW f \in Finalizers PROVE Watches(f)
    BY DEF Watches, Captured, Observes, FoundEmpty, FinIdle
  <1> QED BY <1>1, <1>2 DEF OriginInv

-----------------------------------------------------------------------------
(* The theorems on the origin of bytes.                                    *)

\* Where the tracked bytes come from, and that the observation of an empty
\* staging object cannot go stale, are together inductive.
THEOREM OriginInvariant == Spec => []OriginInv
  <1>1. Inv /\ SchemaInv /\ OriginInv /\ [Next]_vars => OriginInv'
    <2> SUFFICES ASSUME Inv, SchemaInv, OriginInv, [Next]_vars PROVE OriginInv' OBVIOUS
    <2>1. EffectAfter /\ now \in Nat /\ now' \in Nat /\ now <= now' BY StepEffect
    <2>2. StagingEffect BY StepStages
    <2>3. \A u \in Uploads : Turns(u) /\ Staged(u) BY <2>2, StepWrites, StepTurns, StepStaged
    <2>4. \A u \in Uploads : FromStaging(u)' /\ EarlyKept(u)'
      BY <2>1, <2>3, FromStagingKept, EarlyKeptKept
    <2>5. \A m \in inflight' : SentToRow(m)' BY <2>1, <2>2, SentKept
    <2>6. ASSUME NEW f \in Finalizers PROVE Watches(f)'
      <3>1. CASE fin'[f] = fin[f] BY <2>1, <2>3, <3>1, StillWatches
      <3>2. ASSUME FinalizerStep(f) \/ CrashFinalizer(f) PROVE Watches(f)'
        <4>1. CASE ~prepareMissingObservation(f) /\ ~captureStaging(f)
          BY <3>2, <4>1, Elsewhere DEF Watches, Captured, Observes, FoundEmpty
        <4> QED BY <4>1, PrepareWatches, CaptureWatches
      <3>3. CASE FinalizerNext
        <4>1. PICK g \in Finalizers : FinalizerStep(g) \/ CrashFinalizer(g)
          BY <3>3 DEF FinalizerNext
        <4>2. FinKept(g)
          BY <4>1, ClaimFin, MovingSteps, RenewFin, ReadFin DEF FinalizerStep, Inv
        <4>3. g # f => fin'[f] = fin[f] BY <4>2 DEF FinKept
        <4> QED BY <3>1, <3>2, <4>1, <4>3
      <3> QED BY <3>1, <3>3 DEF Next, ServiceNext, vars
    <2> QED BY <2>4, <2>5, <2>6 DEF OriginInv
  <1> QED BY <1>1, InitOrigin, SchemaInvariant, StorageInvariant, PTL DEF Spec

\* An upload is written off as missing only when nothing arrived before the
\* write horizon, however long the transaction that does so was in doubt.
THEOREM AcceptedBytesAreKept == Spec => []NoAcceptedBytesExpired
  <1>1. OriginInv => NoAcceptedBytesExpired
    BY DEF OriginInv, EarlyKept, NoAcceptedBytesExpired, Missing
  <1> QED BY <1>1, OriginInvariant, PTL

\* No replay, nor one whose commit was in doubt, moves the horizon that was
\* read before the GET of staging.
THEOREM ObservationsStand == Spec => []ObservedHorizonStable
  <1>1. OriginInv => ObservedHorizonStable
    BY DEF OriginInv, Watches, Observes, ObservedHorizonStable
  <1> QED BY <1>1, OriginInvariant, PTL

-----------------------------------------------------------------------------
(* Refinement.                                                             *)

\* What clients see of the uploads: their states and the published bytes.
SeenState == [u \in Uploads |-> uploads[u].state]
SeenBytes == [u \in Uploads |-> IF uploads[u].state = "ready"
                                THEN objects[u][uploads[u].final]
                                ELSE Null]

\* The row of at most one upload changes, by a legal write.
LEMMA OneRowMoves ==
  ASSUME Inv, DbEffect
  PROVE  \/ UNCHANGED uploads
         \/ \E u \in Uploads : \E w : Legal(u, w) /\ uploads' = [uploads EXCEPT ![u] = w.row]
  <1>1. CASE UNCHANGED db BY <1>1 DEF db, tables
  <1>2. CASE \E u \in Uploads, k \in Keys : Reserves(u, k) BY <1>2 DEF Reserves, SetDuty
  <1>3. ASSUME NEW u \in Uploads, Ends(u)
        PROVE  \/ UNCHANGED uploads
               \/ Legal(u, doubt[u]) /\ uploads' = [uploads EXCEPT ![u] = doubt[u].row]
    BY <1>3 DEF Ends, Apply, tables, Inv, DoubtLegal
  <1>4. ASSUME NEW u \in Uploads, NEW w, Legal(u, w), Commits(u, w)
        PROVE  UNCHANGED uploads \/ uploads' = [uploads EXCEPT ![u] = w.row]
    BY <1>4 DEF Commits, Apply, tables
  <1> QED BY <1>1, <1>2, <1>3, <1>4 DEF DbEffect

\* Published bytes stay as they are: what a step publishes is the key itself.
LEMMA BytesSeen ==
  ASSUME Inv, EffectAfter, NEW v \in Uploads, uploads'[v] = uploads[v]
  PROVE  SeenState'[v] = SeenState[v] /\ SeenBytes'[v] = SeenBytes[v]
  <1>1. uploads[v].state = "ready" => /\ objects[v][uploads[v].final] = uploads[v].final
                                      /\ objects'[v][uploads[v].final] = uploads[v].final
    BY DEF Inv, EffectAfter, Phase, PhaseFor
  <1> QED BY <1>1 DEF SeenState, SeenBytes

\* A transaction is a step of the lifecycle or hidden.
LEMMA DbRefines ==
  ASSUME Inv, OriginInv', EffectAfter, DbEffect, UNCHANGED bucket
  PROVE  [Lifecycle!Next]_(Lifecycle!lifecycleVars)
  <1>0. UNCHANGED <<objects, written>> BY DEF bucket
  <1>1. CASE UNCHANGED uploads
    <2>1. SeenState' = SeenState BY <1>1 DEF SeenState
    <2>2. SeenBytes' = SeenBytes BY <1>0, <1>1 DEF SeenBytes
    <2> QED BY <1>0, <2>1, <2>2 DEF SeenState, SeenBytes, Lifecycle!lifecycleVars
  <1>2. ASSUME NEW u \in Uploads, NEW w, Legal(u, w), uploads' = [uploads EXCEPT ![u] = w.row]
        PROVE  [Lifecycle!Next]_(Lifecycle!lifecycleVars)
    <2>1. /\ uploads \in [Uploads -> UploadRow] /\ uploads'[u] = w.row
          /\ \A v \in Uploads : v # u => uploads'[v] = uploads[v]
      BY <1>2 DEF Inv, Registers, StoreTypeOK
    <2>2. <<uploads[u].state, uploads'[u].state>> \in StateMoves
      BY <1>2, <2>1 DEF Legal, LegalFor
    <2>3. SeenState' = [SeenState EXCEPT ![u] = uploads'[u].state] BY <2>1 DEF SeenState
    <2>4. SeenState[u] = uploads[u].state BY DEF SeenState
    <2>5. uploads[u].state # "ready" BY <2>2 DEF StateMoves
    <2>6. uploads'[u].state # "ready" => SeenBytes' = SeenBytes
      BY <1>0, <2>1, <2>5 DEF SeenBytes
    <2>7. uploads'[u].state = "ready" =>
            /\ SeenBytes' = [SeenBytes EXCEPT ![u] = uploads'[u].final]
            /\ uploads'[u].final \in written[u] \cap Images
            /\ uploads'[u].final \in Contents
      <3> SUFFICES ASSUME uploads'[u].state = "ready"
                   PROVE  /\ SeenBytes' = [SeenBytes EXCEPT ![u] = uploads'[u].final]
                          /\ uploads'[u].final \in written[u] \cap Images
                          /\ uploads'[u].final \in Contents
        OBVIOUS
      <3>1. /\ uploads'[u].final \in candidates'[u]
            /\ objects'[u][uploads'[u].final] = uploads'[u].final
        BY DEF EffectAfter, Phase, PhaseFor
      <3>2. candidates'[u] \subseteq written'[u] BY DEF OriginInv, FromStaging
      <3>3. candidates'[u] \subseteq Images BY DEF EffectAfter, TablesOK
      <3>4. SeenBytes' = [SeenBytes EXCEPT ![u] = uploads'[u].final]
        BY <1>0, <2>1, <3>1 DEF SeenBytes
      <3> QED BY <1>0, <3>1, <3>2, <3>3, <3>4 DEF Contents
    <2> DEFINE to == uploads'[u].state
    <2>8. CASE uploads[u].state = to
      <3>1. SeenState' = SeenState BY <2>3, <2>4, <2>8 DEF SeenState
      <3> QED BY <1>0, <2>5, <2>6, <2>8, <3>1
              DEF SeenState, SeenBytes, Lifecycle!lifecycleVars
    <2>9. CASE uploads[u].state = "none" /\ to = "pending"
      <3>1. Lifecycle!Create(u)
        BY <1>0, <2>3, <2>4, <2>6, <2>9 DEF Lifecycle!Create, Lifecycle!Move, SeenState, SeenBytes
      <3> QED BY <3>1 DEF Lifecycle!Next
    <2>10. CASE uploads[u].state = "pending" /\ to = "finalizing"
      <3>1. Lifecycle!Complete(u)
        BY <1>0, <2>3, <2>4, <2>6, <2>10 DEF Lifecycle!Complete, Lifecycle!Move, SeenState, SeenBytes
      <3> QED BY <3>1 DEF Lifecycle!Next
    <2>11. CASE uploads[u].state \in {"pending", "finalizing"} /\ to = "expired"
      <3>1. Lifecycle!Expire(u)
        BY <1>0, <2>3, <2>4, <2>6, <2>11 DEF Lifecycle!Expire, Lifecycle!Move, SeenState, SeenBytes
      <3> QED BY <3>1 DEF Lifecycle!Next
    <2>12. CASE uploads[u].state = "finalizing" /\ to = "rejected"
      <3>1. Lifecycle!Reject(u)
        BY <1>0, <2>3, <2>4, <2>6, <2>12 DEF Lifecycle!Reject, Lifecycle!Move, SeenState, SeenBytes
      <3> QED BY <3>1 DEF Lifecycle!Next
    <2>13. CASE uploads[u].state = "finalizing" /\ to = "ready"
      <3>1. PICK c \in Contents : /\ SeenBytes' = [SeenBytes EXCEPT ![u] = c]
                                  /\ c \in written[u] \cap Images
        BY <2>7, <2>13
      <3>2. Lifecycle!Publish(u, c)
        BY <1>0, <2>3, <2>4, <2>13, <3>1 DEF Lifecycle!Publish, Lifecycle!Move, SeenState, SeenBytes
      <3> QED BY <3>1, <3>2 DEF Lifecycle!Next
    <2> QED BY <2>2, <2>8, <2>9, <2>10, <2>11, <2>12, <2>13 DEF StateMoves
  <1> QED BY <1>1, <1>2, OneRowMoves

\* Bytes that arrive in staging are a write of the lifecycle; the rest of what
\* happens to the bucket is hidden.
LEMMA BucketRefines ==
  ASSUME Inv, EffectAfter, UNCHANGED db, NEW u \in Uploads, NEW k \in Keys,
         NEW c \in Contents \cup {Null}, k = Staging => uploads[u].state # "none",
         Applies(u, k, c) \/ Sends(u, k, c)
  PROVE  [Lifecycle!Next]_(Lifecycle!lifecycleVars)
  <1>1. UNCHANGED uploads BY DEF db, tables
  <1>2. SeenState' = SeenState BY <1>1 DEF SeenState
  <1>3. SeenBytes' = SeenBytes
    <2>1. \A v \in Uploads : SeenBytes'[v] = SeenBytes[v] BY <1>1, BytesSeen
    <2> QED BY <2>1 DEF SeenBytes
  <1>4. CASE written' = written
    BY <1>2, <1>3, <1>4 DEF SeenState, SeenBytes, Lifecycle!lifecycleVars
  <1>5. CASE k = Staging /\ c # Null /\ Applies(u, k, c)
    <2>1. written' = [written EXCEPT ![u] = @ \cup {c}] BY <1>5 DEF Applies, Arrive
    <2>2. c \in Contents /\ SeenState[u] # "none" BY <1>5 DEF SeenState
    <2>3. Lifecycle!Write(u, c)
      BY <1>2, <1>3, <2>1, <2>2 DEF Lifecycle!Write, SeenState, SeenBytes
    <2> QED BY <2>2, <2>3 DEF Lifecycle!Next
  <1>6. CASE ~(k = Staging /\ c # Null) /\ Applies(u, k, c)
    <2>1. written \in [Uploads -> SUBSET Contents] BY DEF Inv, Registers, StoreTypeOK
    <2>2. written' = written BY <1>6, <2>1 DEF Applies, Arrive
    <2> QED BY <1>4, <2>2
  <1>7. CASE Sends(u, k, c) BY <1>4, <1>7 DEF Sends
  <1> QED BY <1>5, <1>6, <1>7

\* The service implements the lifecycle it promises to clients: states only
\* move forward, and what is published are bytes the client sent to staging
\* that passed validation, available and unchanged for ever.
THEOREM LifecycleImplemented == Spec => ImplementsLifecycle
  <1>1. Init => Lifecycle!Init
    <2> SUFFICES ASSUME Init PROVE Lifecycle!Init OBVIOUS
    <2>1. SeenState = [u \in Uploads |-> "none"] BY DEF SeenState, Init, StoreInit, NoUpload
    <2>2. SeenBytes = [u \in Uploads |-> Null] BY DEF SeenBytes, Init, StoreInit, NoUpload
    <2> QED BY <2>1, <2>2 DEF Lifecycle!Init, SeenState, SeenBytes, Init, StoreInit
  <1>2. Inv /\ OriginInv /\ OriginInv' /\ [Next]_vars => [Lifecycle!Next]_(Lifecycle!lifecycleVars)
    <2> SUFFICES ASSUME Inv, OriginInv, OriginInv', [Next]_vars
                 PROVE  [Lifecycle!Next]_(Lifecycle!lifecycleVars)
      OBVIOUS
    <2>1. Effect /\ EffectAfter BY StepEffect
    <2>2. StagingEffect BY StepStages
    <2>3. CASE DbEffect /\ UNCHANGED bucket BY <2>1, <2>3, DbRefines
    <2>4. CASE \E u \in Uploads, k \in Keys, c \in Contents \cup {Null} :
                 /\ UNCHANGED db
                 /\ k = Staging => uploads[u].state # "none"
                 /\ Applies(u, k, c) \/ Sends(u, k, c)
      BY <2>1, <2>4, BucketRefines
    <2>5. CASE UNCHANGED bucket /\ UNCHANGED db BY <2>1, <2>5, DbRefines DEF DbEffect
    <2> QED BY <2>1, <2>2, <2>3, <2>4, <2>5 DEF Effect, StagingEffect
  <1> QED BY <1>1, <1>2, OriginInvariant, StorageInvariant, PTL
          DEF Spec, ImplementsLifecycle, Lifecycle!Spec
=============================================================================
