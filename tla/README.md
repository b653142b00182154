# A TLA+ model of s3-media-upload

`s3-media-upload` lets clients upload images directly to an S3 bucket. The service never
sees the client's bytes on the way in: it hands out presigned PUTs, keeps the lifecycle of
each upload in PostgreSQL, and afterwards a background loop reads the bytes, validates
them and publishes an immutable copy. Nothing spans the database and the bucket: no S3
call runs inside a transaction. So the interesting question is what remains true when
leases run out, commits and S3 calls have unknown outcomes, processes die, and clients
write whenever they hold a capability. This project models that and checks it with TLC and
TLAPS.

## 1. Inventory

| Part | State | Operations | Correct when |
| --- | --- | --- | --- |
| Tables (`migrations/0001_initial.sql`, `postgres.go`) | `uploads`, `upload_candidates`, `cleanup_tombstones` | transactions that lock one row, read the clock and write | what is written keeps within the constraints; terminal rows have the right tombstones |
| Bucket (external) | bytes under `staging/<id>` and `media/<id>/<sha256>` | PUT, GET, DELETE; an unanswered request may be applied later | — |
| `POST /uploads` (`createOrReplayUpload`, `authorizeReplay`, `recoverUnknownUploadCommit`) | handler locals | presign, insert, replay, recover | a capability names the stored row and expires within its write horizon |
| `POST /uploads/{id}/complete` (`completeUploadAttempt`, `recoverCompletionOutcome`) | handler locals | pending → finalizing, late expiry, make due at once, read back | what the client is told stays true |
| `GET /uploads/{id}`, `GET /uploads/{id}/content` | none | read the row; redirect to the final key | a state told stays true, a redirect keeps leading to the image |
| Finalizer (`reconcile.go`, second half of `expiry.go`, `storage_finalize.go`) | claim, tracked candidates, image at hand, observed horizon | claim, load, renew, GET candidates, observe, GET staging, validate, register, PUT, verify, ready / reject / expire, retry, confirm | publishes only what was read back; leaves no untracked object; does not write off an upload that could still receive bytes; always ends |
| Expiry sweep (`expiry.go`) | rest of the batch | pending → expired, confirm | every abandoned upload is resolved |
| Cleanup sweep (`cleanup.go`) | rest of the batch, reservation | reserve, confirm, DELETE, apply | deletes what is to be deleted, for good, and nothing else |
| Image policy (`validate.go`, `captureS3Object`) | snapshot, verdict | bounded read, checks in order, comparison | verdicts are about the object, and can be stored and shown |
| Errors and delays (`classify*`, `*RetryDelay`) | streak, class and result columns | classify, count, delay | columns pass their constraints; delays grow and are bounded |
| HTTP layer (`http.go`) | `stopping` | decode, check, call the store, answer | only what was declared is stored; the status tells the state |
| Process (`run.go`, `config.go`) | pool, loops, server | start, serve, shut down | nothing is used after it is closed; shutdown ends |
| Metrics (`http.go`, `expiry.go`) | counters | count a transition | counted once |

Handlers, the finalizer and the maintenance loop run concurrently and interact only through
the tables and the bucket. One process runs one finalizer and one maintenance loop; two
processes overlap during a restart, and a process that was paused resumes after its leases
have run out. What is hard here: every step between two transactions is a point where
another actor may act, every commit and every S3 write may have an unknown outcome, an S3
request without an answer may be applied at any later time, and the deadline, the write
horizon, the lease, the reservation and the presign time run against each other.
`PROJECT.json` lists the hazards with the line where each one bites and the properties
that would notice.

## 2. Modules

| Module | Models |
| --- | --- |
| `Store` | clock, tables, bucket, requests in flight, capabilities; `Commit` (a commit of unknown outcome), `S3Write`, tombstones, `transitionPendingExpiredLocked`; clients and clock |
| `Api` | create, replay and completion handlers |
| `Finalizer` | `processNext` of `reconcile.go`, one action per transaction or S3 call |
| `Maintenance` | both sweeps of the maintenance loop |
| `MediaUpload` | their composition, the properties and the refinement mapping |
| `UploadLifecycle` | the abstract specification: what a client may rely on |
| `MCMediaUpload` | symmetry for the safety runs |
| `MCRunningClock` | the composition with a clock that never stops, for liveness |
| `TransitionCounts` | the composition with the transition counters of the API and of the expiry sweep |
| `FailureCodes` | the rejections the schema can store and the public code of each |
| `ImagePolicy` | one pass of the finalizer over the bytes: `captureS3Object`, `validateImageBytes`, `candidateMatchesSnapshot` |
| `RetryPolicy` | `classifyStorageError`, `classifyDatabaseError`, both retry delays and the columns they are stored in |
| `HttpApi` | `http.go`: bodies, checks, the steps of the store functions, answers; one upload and one request in progress |
| `Process` | `Run`: start, server, handlers, loops, shutdown |
| `TransactionProofs`, `ServiceProofs`, `LifecycleProofs`, `CountProofs` | lemmas and theorems about the composition, each module on top of the one before |
| `ProcessProofs`, `RetryProofs`, `ImageProofs`, `HttpProofs` | lemmas and theorems about the stand-alone modules |

`MediaUpload` composes the parts that interact through shared state. `ImagePolicy`,
`RetryPolicy`, `HttpApi` and `Process` stand alone: each one opens up what `MediaUpload`
abstracts (a verdict per byte string, any delay, an answer, a crash at any step), and none of
them writes to the tables other than through what `MediaUpload` already has.

**Correspondence.** A database transaction is one action, since each of them locks the row
first (`FOR UPDATE`) and samples the clock afterwards; an S3 call is one action. Local
variables of a goroutine are the fields of `fin[f]`, `jan[j]` and `reqs[r]`, and `pc` says
which call comes next. Actions carry the names of the Go functions.
`confirmReady`, `confirmRejected` and `confirmFinalizeExpiredMissing` are one action,
`confirmTerminal`, whose condition `TransitionDurable` has one case per function.

**Faults.** `Commit(u, w, done, unknown)` offers two outcomes: applied and acknowledged, or
an error. After an error the transaction is *in doubt*: `doubt[u]` keeps what it writes,
readers see the old row, and the row stays locked until `Settle(u)` applies it or rolls it
back, at any later time. So a handler may read the row back before its own transaction is
applied. `Transaction` is `beginUploadTransaction` with `SELECT ... FOR UPDATE`: while the
row is locked it can only fail with the lock timeout; `SKIP LOCKED` passes over the row.
`Fails` is any other error before the commit. `S3Write` offers: done, applied but reported as
an error, refused, and left in `inflight`, from which `Land` applies it at any later time.
`CrashFinalizer`, `CrashJanitor` and `CrashRequest` lose the local variables at any step. A
client's slow PUT is in flight as well. Every fault counts against `MaxFaults`.

**Abstractions.**
- The database, the service's host and S3 share one clock.
- A byte string is an element of `Images` (validation accepts it for the declared tuple) or
  `Junk`; an image is its own digest and names its own key. That the verdict depends on the
  bytes and the declaration only, whatever the read was like, is `VerdictOnObject` of
  `ImagePolicy`. A short read is a failed read. Since a candidate's metadata is a function of
  its bytes, the mismatch branch of `registerCandidate` cannot be taken.
- A declared tuple is an element of `Declarations`. A create of the same idempotency key with
  another one gets 422, which is `Refuse`, like the other answers without a state.
- A GET of a candidate that returns other bytes than were tracked is a fault of S3 that
  leads to the rejection `internal_invariant`.
- One row of `uploads` per idempotency key; its `id` is the request that inserted it.
- Claims and expiries take any due row. That contains what
  `ORDER BY ... FOR UPDATE SKIP LOCKED` can return. For duties the order matters
  (`CleanupConverges`), so `OldestDuty` keeps it, except while another loop may hold a lock.
- In `MediaUpload` a retry delay is any member of `RetryDelays` or `CleanupDelays`; streaks,
  classes and results are in `RetryPolicy`. Evidence and logs are left out.
- A transaction on a tombstone that is in doubt is applied or rolled back at once
  (`CommitDuty`). While it were in doubt, both sweeps would skip its row, which is the same
  as not picking it; and a terminal row, whose tombstones these are, is written no more.
- A GET is one read; its answer is a history (`told`, `redirected`), and a late answer is a
  client that is slow to follow it.
- `retryUploadTransaction` repeats a transaction that failed with a serialization error or a
  deadlock. Such attempts leave no trace; only the last one is an action.
- The confirmation of a retry's or a cleanup's unknown commit decides only on a metric and,
  for cleanup, on going on with the batch: `applyCleanupResult` allows both.
- The time check before a capability is handed out happens together with the commit.
- `RetryPolicy` counts in the unit of each delay (seconds for the finalizer, minutes for
  cleanup), since both functions double from 1 to 60; `Width` is small so that the overflow
  that the cap prevents is in reach.
- In `RetryPolicy` an S3 call is one attempt, and whether it was answered is said of that
  attempt. `newS3Client` keeps the default retryer of the SDK (`storage.go:25-38`), so a call
  may be several attempts, and its error is that of the last one. A write whose first attempt
  lost its answer and whose last one was answered with 403 or 503 is classed `auth` or
  `transient`; `LostAnswerAmbiguous` says nothing about it. What becomes of the bytes does not
  depend on the class: in `MediaUpload` a write that is reported as an error may have been
  applied, or may be applied later, whatever the error is.
- In `ImagePolicy`, `Delivery` assumes that S3 sends a length or a chunked body, so that a body
  that ends early ends with an error or falls short of its length. A response that is delimited
  by the end of its connection and cut off without an error would pass `captureS3Object`
  (`storage_finalize.go:61-69`) as a shorter object, and `VerdictOnObject` would not hold of it.
- In `HttpApi`, strings are what the checks tell apart: which header check fails, and for a
  body its members, their types and how it ends. One request is in progress, in the steps of
  its store function (the transactions, the read-back after an unknown commit, the read of a
  terminal representation, the answer). `Background` is everything else: the other requests,
  both loops, the clock (`late` says that the deadline has passed) and a shutdown; it may take
  a step between any two of the request's. A commit in doubt stays so until `Settle`, as in
  `MediaUpload`. Due times are left open, so `completionOutcomeIsDurable` may go either way for
  a finalizing row that was to become due at once.
- `INSERT ... ON CONFLICT DO NOTHING` waits for a transaction that is inserting or updating
  the row of its key, up to the lock timeout, so `createOrReplayUpload` is a `Transaction` like
  those that lock the row first.
- `transitionPendingExpiredLocked` returns an error when the tombstone it inserts is already
  there with another key or time (`expiry.go:144-149`). A pending row has no tombstone, so this
  branch cannot be taken, and `PendingExpirable` has no step for it.
- In `Process`, an error of `loadConfig`, `openPostgres` or `newS3Client` is one outcome each;
  a loop alternates between its check and a pass.

## 3. Properties

Safety, in `MediaUpload`:
- `SchemaHolds`: the rows, claims, tombstones and reservations that are written keep within
  the constraints that the schema has for them, although the model's transactions do not test
  these; in the code a violation would be a transaction that fails for ever. One constraint is
  different: the insert may be refused by the lower half of `uploads_write_horizon_check` when
  the PUT that was signed for it has already expired. `createOrReplayUpload` in `Api` has this
  as an outcome, and `SchemaHolds` claims only the upper half of the constraint, which an
  extension of the horizon by a replay could break.
- `NoOrphanedObject`: a candidate is tracked before its bytes can exist, counting the PUTs
  that a finalizer without its claim is about to send and those in flight; a terminal upload
  has a tombstone for staging and every unselected candidate.
- `ReadyContentDurable`: the object of a ready upload holds the verified bytes and no
  tombstone, reservation or late DELETE names it.
- `LiveClaimRespected` (action property): while a lease runs, only its holder moves the claim
  or the state of the row.
- `CapabilityCovered`, `CapabilityNamesRow`: a PUT that leaves the service is for the stored
  upload id and declaration and expires within the write horizon that cleanup waits for, also
  when the commit was in doubt.
- `NoAcceptedBytesExpired`, `ObservedHorizonStable`: `staging_missing_after_write_window`
  is never the fate of an upload whose bytes arrived before the horizon, and the horizon that
  was read before the GET cannot move while the verdict is pending.
- `AnswersStayTrue`: what any response told of an upload stays true, also when the handler
  read it back while its own transaction was in doubt.
- `RedirectsResolve`: the key of every redirect ever answered holds the verified image.
- `ImplementsLifecycle`: `MediaUpload` implements `UploadLifecycle`, where the published
  bytes are mapped to what the bucket holds under the final key. States only move forward,
  and the published bytes were sent by a client, passed validation and never change.

Liveness: `FinalizingTerminates`, `PendingResolved` and `CleanupConverges` (an object with
a tombstone is in the end gone for good, also when a late PUT brings it back).

`TransitionCounts`: `CreationAndCompletionCountedOnce` and `ExpiryCountedOnce` (section 4).

`ImagePolicy`: `VerdictOnObject` (no bad read makes a good image rejected, which would be
final, or a bad one tracked), `PublishedIntact` (the same for the read-back of the
candidate), `RejectionsPresentable` (the three places that list reasons agree).

`RetryPolicy`: `RetryColumnsStorable` (the transaction that schedules a retry does not fail
itself), `BackoffBounded` and `BackoffGrows`, `LostAnswerAmbiguous`.

`HttpApi`: `DeclarationsExact` (what is stored was declared, by a body that says it once and
within the limits), `StatusTellsState` (however far others and late commits move the row while
a request is in progress: 201 is only for the row that this request inserted, although its
state may be any by then; every state shown is one the row was in since the request arrived,
and a terminal one still is; 202, 307, 409, 410 and the 200 of a completion go with their
states; a PUT is handed out only for a row that was open before its deadline; a 4xx has left
no trace and nothing in doubt),
`InternalErrorOnlyFromSigning` (the handlers' defensive 500 branches are dead code except for
an invalid signature).

`Process`: `PoolOutlivesWorkers`, `CleanExitAnswersAll`, `ShutdownCompletes`.

## 4. Runs

| Run | Instance | Question | Distinct states |
| --- | --- | --- | --- |
| `finalize_race` | 2 finalizers, 3 tokens, 2 images, 1 fault | take-over at any step of `processNext`; the client replaces the image in staging meanwhile | 0.71 M |
| `write_window` | 2 requests, 1 image, presign time longer than the upload window, 1 fault | replays and completions around deadline and horizon, against the missing observation | 1.6 M |
| `capabilities` | 2 requests, 2 declarations, 1 sweep, 2 faults | racing creates, commits in doubt, sweep against replay | 0.72 M |
| `cleanup` | 2 images and junk, 1 sweep, 1 finalizer, 1 fault | PUT and DELETE that land late, redirects, refinement | 1.3 M |
| `liveness` | 1 finalizer, 1 sweep, 1 fault, running clock | everything ends | 0.16 M |
| `transition_counts` | 2 requests, 1 sweep, 1 fault | no transition of the API is counted twice | 0.34 M |
| `expiry_count` | the same | the expiry may be counted twice (violation) | — |
| `image_policy` | sizes to 3 (limit 2), axes to 4 (limit 3), 6 pixels | every object and delivery at and around the limits | 23 k |
| `retry_policy` | streaks to 10, cap at 2^6, width 2^8 | every sequence of errors | 8 k |
| `process` | 2 handlers, leases below, at and above the S3 timeout | every path through `Run` | 19 k |
| `http_api` | sizes to 2, bodies of up to 3 members | every body; every step of a request, recovery included, with the row moving on between them | 110 k |

**Bounds.** One upload is enough for most questions: no transaction touches two uploads, and
uploads share only tokens and the sweeps' batches. Times are one or two units, so that each
pair of timers (lease against step, horizon against deadline, reservation against DELETE)
runs out in either order. Two images are needed for a selected and a losing candidate, two
finalizers for a take-over with the loser still running, three tokens so that a third claim
can follow; two declarations and two requests for a key that is reused. In `write_window`
the lease is two units, so that a claim can outlive the time from the deadline to the write
horizon. `SchemaHolds` is checked in three runs, since no one of them has all its cases:
claims that are taken over in `finalize_race`, horizons that a replay extends beyond the
deadline in `write_window`, duties and reservations in `cleanup`. One fault per run gives one
commit in doubt, lost answer or crash at any point;
`capabilities` has two, so that two commits in doubt or a crash and a commit in doubt can
meet. For every number of faults the theorems of section 5 hold. `image_policy` goes one
beyond each limit (`Slack`), with a pixel limit that a picture within the axes can reach and
exceed; `retry_policy` goes beyond the streak at which the shift is capped and the one at
which it would wrap; three members are enough for a repeated one beside both required ones.
The clock stops at `MaxTime`; this bound is on the clock and not on the workers, which go
on. Deadlock checking stays on, except in `image_policy`, where a verdict ends the
behaviour.

**Fairness.** Weak fairness on each finalizer's and each sweep's steps (both loops poll for
as long as the process runs, and a restarted process starts them again), on time passing, on
requests in flight and on `Settle` (PostgreSQL ends a transaction whose connection is gone).
Nothing is assumed of clients or handlers. In `MCRunningClock` the clock first runs to
`MaxTime` freely, so leases may run out at any step; from then on time goes on by making all
timestamps older, and `Prompt` says that a finalizer renews before its lease runs out. The
code justifies this in the long run: between two renewals there is at most one S3 call (ten
seconds) and a few statements (five seconds), against a lease of thirty seconds by default.
Without it a finalizer could lose every claim for ever. Ageing keeps the order of the duties
(`AgedNext`); `ClockAssumption` says that the clock has room for it. In `Process` the
goroutines run, queries end at their deadline and `Serve` notices that its listener is
closed; nothing is assumed of signals, of handlers that hold no connection, or of the choice
that `select` makes.

**What the runs show.** All properties hold but `ExpiryCountedOnce`. A sweep whose commit
returned an error and whose transaction was rolled back takes the expiry that a late
completion has committed meanwhile for its own: `confirmPendingExpired` compares the row, and
both write the same one. Both then count `pending_to_expired` and log the transition, where
`completion_test.go:139` and `upload_test.go:535` give it to one side. Rows and tombstones are
right; only the metric and the log are not. The counters of creation and completion do not
have this, since a completion that reads its outcome back reports no transition and a
recovered creation compares its own upload id.

Two more observations are worth keeping:
`CleanupConverges` depends on `ORDER BY next_attempt_at`: duties are permanent and become due
again, so in another order a full batch could starve some of them; and the DELETE that is
sent after its reservation ran out is harmless only because tombstones are permanent and
never name a selected key. Against a tombstone that did name it, `reserveNextCleanup` is a
second guard (`DutyDue`): with the mutant that records one, `ReadyContentDurable` fails and
`RedirectsResolve` still holds.

Each property is paired in `PROJECT.json` with a mutant of one definition (a dropped guard,
a missing reset, a skipped read-back); the operators marked "Faulty variant" in the modules
are these mutants and no specification uses them.

## 5. Theorems

For all values of the constants that satisfy the named assumptions, so for any number of
uploads, images, requests, finalizers, sweeps, handlers, body members and faults, and for any
durations, limits and streaks. Every invariant, action property and refinement that a passing
run checks is the statement of a theorem.

| Module | Theorem | States |
| --- | --- | --- |
| `ServiceProofs` | `StorageInvariant` | `Spec => []Inv`, the inductive invariant of the service |
| | `TypeCorrect` | `[]TypeOK` |
| | `NoOrphans` | `[]NoOrphanedObject` |
| | `ReadyIsDurable` | `[]ReadyContentDurable` |
| | `CapabilitiesAreCovered` | `[]CapabilityCovered` |
| | `CapabilitiesNameRows` | `[]CapabilityNamesRow` |
| | `AnswersHold` | `[]AnswersStayTrue` |
| | `RedirectsHold` | `[]RedirectsResolve` |
| `LifecycleProofs` | `SchemaInvariant` | `Spec => []SchemaInv` |
| | `SchemaIsKept` | `[]SchemaHolds` |
| | `ClaimsAreRespected` | `LiveClaimRespected` |
| | `OriginInvariant` | `Spec => []OriginInv` |
| | `AcceptedBytesAreKept` | `[]NoAcceptedBytesExpired` |
| | `ObservationsStand` | `[]ObservedHorizonStable` |
| | `LifecycleImplemented` | `ImplementsLifecycle` |
| `CountProofs` | `CountInvariant` | `CountingSpec => []CountInv` |
| | `CountedOnce` | `[]CreationAndCompletionCountedOnce` |
| `ProcessProofs` | `ProcessInvariant` | `Spec => []ProcessInv` |
| | `PoolIsClosedLast` | `[]PoolOutlivesWorkers` |
| | `CleanExitIsGraceful` | `[]CleanExitAnswersAll` |
| `RetryProofs` | `RetryInvariant` | `Spec => []RetryInv` |
| | `RetriesAreStorable` | `[]RetryColumnsStorable` |
| | `BackoffIsBounded` | `[]BackoffBounded` |
| | `LostAnswersAreAmbiguous` | `[]LostAnswerAmbiguous` |
| | `BackoffNeverShrinks` | `BackoffGrows` |
| `ImageProofs` | `ImageInvariant` | `Spec => []ImageInv` |
| | `VerdictsAreOnObjects` | `[]VerdictOnObject` |
| | `PublishedIsIntact` | `[]PublishedIntact` |
| | `RejectionsArePresentable` | `[]RejectionsPresentable` |
| `HttpProofs` | `HttpInvariant` | `Spec => []HttpInv` |
| | `InternalErrorsAreSigning` | `[]InternalErrorOnlyFromSigning` |
| | `StatusesTellStates` | `StatusTellsState` |
| | `DeclarationsAreExact` | `[]DeclarationsExact` |

**Assumptions.** `StoreAssumption`, `ReasonAssumption`, `FinalizerAssumption`,
`MaintenanceAssumption`: durations are positive, `Null` and the staging key are none of the
values. `ProcessAssumption`, `ImageAssumption`, `HttpAssumption`: limits and timeouts are
numbers, and the pixel limit lies between one axis and the square of the largest image.
`RetryAssumption`: the cap of the shift reaches the longest delay and fits the integer width,
as the constants of the code do. `PowerAssumption` is the defining equations of powers of two,
since the provers know nothing of `^`; TLC evaluates it, like the others.

**The service** (`Inv`). None of the properties is inductive alone: a late PUT or DELETE was
sent, and a transaction in doubt was begun, long before the moment it matters. `Inv` says what
every actor may rely on:
- `Registers`: each control point has the registers set that it uses;
- `Phase`: an upload has candidates only after its completion, duties only when it is
  terminal, then exactly those it needs, and a ready one has its object;
- `DoubtLegal`: what a transaction in doubt will write is still `Legal`: a forward move that
  keeps the identity and the horizon of the row, with the duties of its state, that publishes
  only what is stored. The row lock is what keeps it so: nobody else writes the row meanwhile,
  and a tracked image that has no tombstone is never deleted;
- `CandidateKey`, `Allowed`: a candidate key holds its image or nothing, and every request in
  flight is a client's PUT to staging, a PUT of a tracked image, or a DELETE of a tombstoned key;
- `FinHolds`, `JanHolds`: what a finalizer will PUT is tracked, what it will publish is
  stored, what a sweep will DELETE is tombstoned and due;
- `History`: what clients were told, given and sent to agrees with the row.

`TransactionProofs` shows that registers are kept, that every transaction writes something
`Legal` and that a legal write, applied now or later, keeps the tables consistent and only
moves them forward (`Monotone`). `ServiceProofs` gives every step an `Effect` on the tables or
on the bucket, never on both, shows once per effect that everybody else's knowledge survives,
and that every answer is about the row as it is after the step (`Says`).

**The schema and the claims** (`SchemaInv`). `SchemaHolds` speaks of rows; whether a
transaction in doubt will violate it is decided before it is applied. So `SchemaInv` asks the
same of the row in doubt (`RowOK`: the claim columns, the reason of the state, a horizon
at most the presign time after the deadline) and of the deletion duties. It
needs two facts about actors: a sweep that applies a DELETE holds a duty that was due
(`ApplyHolds`), and a PUT was signed at most the presign time ahead (`SignedOK`).
`WriteEffect` says once for all transactions what each may write, including that a claim that
still runs is moved by its holder only; `Turns` says what a step does to one upload (nothing,
writes, leaves a write in doubt, settles one). `LiveClaimRespected` follows from both.

**Accepted bytes and the lifecycle** (`OriginInv`). `FromStaging`: what is tracked, also by a
transaction in doubt, was written to staging. `EarlyKept`: bytes that arrived before the
horizon stay there until the upload is terminal. `Observes`: once a finalizer has seen that the
window is over, no transaction, nor one in doubt, moves horizon or deadline; `FoundEmpty`: when
it goes on to expire the upload, nothing has arrived in time. The refinement maps every step
that moves a row to a step of `UploadLifecycle` and every other one to a stutter
(`DbRefines`); for a step on the bucket this needs that the object behind a ready row keeps
its bytes (`BucketRefines`).

**Counters** (`CountInv`). A request whose insert is in doubt counts the creation only when
the row it reads back has its own id. That nobody else has counted it by then
(`CreationOwned`) holds because a row takes its id from the one insert that created it and a
key without a row has no id (`NoOwner`).

**The stand-alone modules.** `ProcessInv` says for each place in `Run` what is open, which
loops exist, who closed the listener and what the result can be. `RetryInv` says that the
delay stored is that of the stored streak and class; that powers of two grow, also under the
cap, is proved by a least counterexample. `ImageInv` says that a read without an error tells
that the object is too large or all of it (`Tells`), and what that means at each step of a
pass. `PoolIsClosedLast` is about the two loops: both have ended when the pool is closed.
Handlers are another matter: after a shutdown that timed out they may still hold connections
while the pool is closing, and `Close` waits for them (`poolClose`).

`HttpInv` has the row (`RowInv`: one that every handler has an answer for), the transaction in
doubt (`DoubtInv`: a row that may follow the present one, with its declaration) and the request
at each of its steps. A request that has written nothing and has nothing in doubt is `Clean`;
it is so until its first commit, and an error that blames the client is only returned then
(`StepInv`), or when a row of another declaration is read back, which a write of this request
excludes (`OfCommand`). `ResultOK` is what the handler is told: a state the row was in,
terminal only if it still is. The answer made of it is true of the row (`StatusTellsState`)
and exact about the body (`Exact`). The decoder is a recursive function over the members; that it exists and accepts exactly the bodies with one
size and one type is proved for any number of members by a least counterexample as well, which
takes the place of induction.

All inductive invariants hold in TLC on the instances of section 4 as well.

## 6. Only model-checked

`FinalizingTerminates`, `PendingResolved`, `CleanupConverges` and `ShutdownCompletes`: liveness
under fairness is out of reach of the proof system and stays with TLC. `ExpiryCountedOnce` does
not hold (section 4).

## 7. Not modelled

- The shape checks of presigned URLs (`presignUploadPUT`, `presignContentGET`): the outcome of
  signing is modelled (good, invalid, failed), the string operations are not.
- The parsing of configuration values other than the claim lease, and of the listen address.
- The cleanup gauges (`refreshCleanupGauges`) and the counters that no property is about; logs.
- The evidence of a rejection, and columns that record when something happened.
- `validateImage`, which only tests call.
- The retries inside the AWS SDK (section 2): an S3 call is one attempt.
- The polling timers: a loop may start its next pass at any time.

## 8. Plan

Done: the core (`Store`, `Finalizer`, `Maintenance`, `Api`, composition, lifecycle) with
transactions in doubt, declarations, reads and counters; the stand-alone modules for image
policy, retries, HTTP and the process; a theorem for every safety property. Next:

1. Safety facts that the liveness arguments rest on, as invariants with their own runs and
   theorems: a duty once recorded is never lost and its `notBefore` never moves forward, and
   a finalizing row without a claim is always due at some time.
2. Shorter proofs where several actions repeat the same argument (`WriteEffect`,
   `StagingEffect`).
