------------------------------- MODULE Store -------------------------------
(***************************************************************************)
(* The state the service's loops and handlers share: the PostgreSQL tables *)
(* uploads, upload_candidates and cleanup_tombstones, the private S3       *)
(* bucket, the clock, and the direct-PUT capabilities held by clients.     *)
(*                                                                         *)
(* A database transaction is one atomic step: every transaction of the     *)
(* service locks the upload's row (or the tombstone's row) before it reads *)
(* the clock and writes.  A commit that returns an error leaves the        *)
(* transaction in doubt: the database still holds the row lock, readers    *)
(* still see the old rows, and the transaction is applied or rolled back   *)
(* at some later time, after the service may have read the row back.  An   *)
(* S3 call is one atomic step of its own; no S3 call runs inside a         *)
(* transaction.  A row of the uploads table stands for one idempotency     *)
(* key, and its column id for the create request that inserted it (a       *)
(* request makes up a fresh upload id).                                    *)
(***************************************************************************)
EXTENDS Naturals, FiniteSets

CONSTANTS
  Uploads,       \* idempotency keys, each with at most one uploads row
  Declarations,  \* declared tuples (size, content type) of create requests
  Images,        \* byte strings that pass validation for the declared tuple
  Junk,          \* byte strings that validation rejects
  Staging,       \* the object key staging/<upload_id>
  Tokens,        \* claim and reservation tokens (random UUIDs)
  Requests,      \* HTTP request handlers that may run at the same time
  Null,          \* SQL NULL; also "no object under this key"
  UploadWindow,  \* upload_deadline - created_at (24 hours)
  PresignTTL,    \* validity of a presigned PUT (15 minutes)
  MaxTime,       \* bound: the clock stops here
  MaxFaults      \* bound: faults of the database, S3 and the process

Contents == Images \cup Junk
Keys == Images \cup {Staging}   \* media/<upload_id>/<sha256 of the image>
Time == Nat

ASSUME StoreAssumption ==
  /\ UploadWindow \in Nat \ {0}
  /\ PresignTTL \in Nat \ {0}
  /\ MaxTime \in Nat
  /\ MaxFaults \in Nat
  /\ Staging \notin Images
  /\ Null \notin Contents \cup Tokens \cup Requests \cup Declarations \cup {Staging}

VARIABLES
  now,         \* the clock; database, service and S3 are taken to agree
  faults,      \* faults so far
  uploads,     \* uploads table
  candidates,  \* upload_candidates table: the tracked images of an upload
  tombstoned,  \* cleanup_tombstones table: the keys that have a row ...
  duty,        \* ... and the columns of that row
  doubt,       \* what a transaction that holds the lock of an upload writes
               \* when it is applied after its commit returned an error
  objects,     \* the bucket: the bytes under each key of an upload
  inflight,    \* S3 requests the sender gave up on that may yet be applied
  caps,        \* when the last PUT capability handed to a client expires
  written,     \* history: the bytes that ever arrived in staging
  early        \* history: some bytes arrived before the write horizon

tables == <<uploads, candidates, tombstoned, duty>>
db == <<tables, doubt>>
bucket == <<objects, inflight, written, early>>
storeVars == <<now, faults, db, bucket, caps>>

-----------------------------------------------------------------------------
(* Rows.                                                                   *)

States == {"none", "pending", "finalizing", "ready", "rejected", "expired"}
Terminal == {"ready", "rejected", "expired"}
RejectReasons == {"invalid_input", "internal_invariant"}
ExpiryReasons == {"upload_deadline_elapsed", "staging_missing_after_write_window"}

ASSUME ReasonAssumption == Null \notin RejectReasons \cup ExpiryReasons

UploadRow ==
  [ state    : States,                       \* "none": no row yet
    id       : Requests \cup {Null},
    declared : Declarations \cup {Null},     \* declared_size and _content_type
    deadline : Time,                         \* upload_deadline
    horizon  : Time,                         \* max_write_expires_at
    due      : Time,                         \* reconcile_after, 0 for NULL
    claim    : Tokens \cup {Null},           \* claim_token
    claimExp : Time,                         \* claim_expires_at, 0 for NULL
    final    : Images \cup {Null},           \* final_key
    reason   : RejectReasons \cup ExpiryReasons \cup {Null} ]

NoUpload ==
  [ state |-> "none", id |-> Null, declared |-> Null, deadline |-> 0,
    horizon |-> 0, due |-> 0, claim |-> Null, claimExp |-> 0, final |-> Null,
    reason |-> Null ]

DutyRow ==
  [ notBefore : Time,                        \* delete_not_before
    next      : Time,                        \* next_attempt_at
    token     : Tokens \cup {Null},          \* reservation_token
    expires   : Time ]                       \* reservation_expires_at, 0 for NULL

NoDuty == [ notBefore |-> 0, next |-> 0, token |-> Null, expires |-> 0 ]

\* What a transaction on one upload writes: its row, its tracked candidates,
\* and the tombstones it asks for, each with its delete_not_before.
IsWrite(w) ==
  /\ w.row \in UploadRow
  /\ w.cands \in SUBSET Images
  /\ DOMAIN w.tombs \subseteq Keys
  /\ \A k \in DOMAIN w.tombs : w.tombs[k] \in Time

S3Request == [ upload : Uploads, key : Keys, content : Contents \cup {Null} ]

StoreTypeOK ==
  /\ now \in Time
  /\ faults \in Nat
  /\ uploads \in [Uploads -> UploadRow]
  /\ candidates \in [Uploads -> SUBSET Images]
  /\ tombstoned \in [Uploads -> SUBSET Keys]
  /\ duty \in [Uploads -> [Keys -> DutyRow]]
  /\ DOMAIN doubt = Uploads
  /\ \A u \in Uploads : doubt[u] = Null \/ IsWrite(doubt[u])
  /\ objects \in [Uploads -> [Keys -> Contents \cup {Null}]]
  /\ inflight \in SUBSET S3Request
  /\ caps \in [Uploads -> Time]
  /\ written \in [Uploads -> SUBSET Contents]
  /\ early \in [Uploads -> BOOLEAN]

StoreInit ==
  /\ now = 0
  /\ faults = 0
  /\ uploads = [u \in Uploads |-> NoUpload]
  /\ candidates = [u \in Uploads |-> {}]
  /\ tombstoned = [u \in Uploads |-> {}]
  /\ duty = [u \in Uploads |-> [k \in Keys |-> NoDuty]]
  /\ doubt = [u \in Uploads |-> Null]
  /\ objects = [u \in Uploads |-> [k \in Keys |-> Null]]
  /\ inflight = {}
  /\ caps = [u \in Uploads |-> 0]
  /\ written = [u \in Uploads |-> {}]
  /\ early = [u \in Uploads |-> FALSE]

-----------------------------------------------------------------------------
(* Tombstones.                                                             *)

\* Faulty variants: the empty selected key is recorded; the selected key is.
terminalTombstonesEmptyKey(u, selected) ==
  {Staging} \cup (candidates[u] \ {selected}) \cup {selected}
terminalTombstonesAll(u, selected) == {Staging} \cup candidates[u]

\* The deletion duties that a terminal transition records: staging and every
\* tracked candidate but the selected one.
terminalTombstones(u, selected) == {Staging} \cup (candidates[u] \ {selected})

DeleteNotBefore(u, k) == IF k = Staging THEN uploads[u].horizon ELSE now

\* An existing tombstone that may be executed too soon makes the transaction
\* fail ("conflicting cleanup tombstone").
TombstonesConflict(u, keys) ==
  \E k \in keys \cap tombstoned[u] :
    duty[u][k].notBefore < DeleteNotBefore(u, k)

\* Faulty variant: a duty may be attempted at once.
ensureTombstonesDueNow(u, targets) ==
  [k \in Keys |->
     IF k \in DOMAIN targets \ tombstoned[u]
     THEN [ notBefore |-> targets[k], next |-> now, token |-> Null, expires |-> 0 ]
     ELSE duty[u][k]]

\* INSERT ... ON CONFLICT (object_key) DO NOTHING for every target: the duty
\* rows of u afterwards.
ensureTombstones(u, targets) ==
  [k \in Keys |->
     IF k \in DOMAIN targets \ tombstoned[u]
     THEN [ notBefore |-> targets[k], next |-> targets[k], token |-> Null, expires |-> 0 ]
     ELSE duty[u][k]]

-----------------------------------------------------------------------------
(* Faults and transactions.                                                *)

Fault ==
  /\ faults < MaxFaults
  /\ faults' = faults + 1

\* A transaction on u that writes its row, its candidates and tombstones for
\* "keys".
WriteOf(u, row, cands, keys) ==
  [ row |-> row, cands |-> cands, tombs |-> [k \in keys |-> DeleteNotBefore(u, k)] ]

WriteRow(u, row) == WriteOf(u, row, candidates[u], {})

Apply(u, w) ==
  /\ uploads' = [uploads EXCEPT ![u] = w.row]
  /\ candidates' = [candidates EXCEPT ![u] = w.cands]
  /\ tombstoned' = [tombstoned EXCEPT ![u] = @ \cup DOMAIN w.tombs]
  /\ duty' = [duty EXCEPT ![u] = ensureTombstones(u, w.tombs)]

\* A transaction in doubt holds the lock of the row (or, for an insert, of the
\* idempotency key).
Locked(u) == doubt[u] # Null

\* The commit of a transaction on u.  The caller continues with "done" when
\* the commit is acknowledged.  After an error it continues with "unknown" and
\* the transaction is in doubt.
Commit(u, w, done, unknown) ==
  \/ Apply(u, w) /\ done /\ UNCHANGED <<faults, doubt>>
  \/ Fault /\ doubt' = [doubt EXCEPT ![u] = w] /\ unknown /\ UNCHANGED tables

\* The database applies or rolls back a transaction in doubt.
Settle(u) ==
  /\ Locked(u)
  /\ Apply(u, doubt[u]) \/ UNCHANGED tables
  /\ doubt' = [doubt EXCEPT ![u] = Null]
  /\ UNCHANGED <<now, faults, bucket, caps>>

\* A statement or a read fails: the transaction is rolled back and the error
\* is returned.
Fails(continue) == Fault /\ UNCHANGED db /\ continue

\* beginUploadTransaction and SELECT ... FOR UPDATE of the row of u: "body" runs
\* under the lock, "error" when a statement fails or when lock_timeout runs out
\* because a transaction in doubt still holds the lock.
Transaction(u, body, error) ==
  \/ ~Locked(u) /\ body
  \/ Locked(u) /\ error /\ UNCHANGED <<faults, db>>
  \/ Fails(error)

\* Faulty variant: PUT capabilities are given out after the deadline.
uploadAcceptsLateWrites(row) == row.state \in {"pending", "finalizing"}

\* A row accepts PUT capabilities.
uploadAcceptsWrites(row) ==
  row.state \in {"pending", "finalizing"} /\ now < row.deadline

\* pending -> expired, by the sweep and by a completion that comes too late.  A
\* conflicting tombstone would be an error; a pending upload has none.
PendingExpirable(u) ==
  /\ uploads[u].state = "pending"
  /\ now >= uploads[u].deadline
  /\ ~TombstonesConflict(u, {Staging})

transitionPendingExpiredLocked(u) ==
  WriteOf(u, [uploads[u] EXCEPT !.state = "expired",
                                !.reason = "upload_deadline_elapsed"],
          candidates[u], {Staging})

-----------------------------------------------------------------------------
(* The bucket, the clients and the clock (not part of the service).        *)

\* The bytes c arrive under key k; c = Null is the effect of a DELETE.
Arrive(u, k, c) ==
  /\ objects' = [objects EXCEPT ![u][k] = c]
  /\ written' = [written EXCEPT ![u] =
                   IF k = Staging /\ c # Null THEN @ \cup {c} ELSE @]
  /\ early' = [early EXCEPT ![u] =
                 @ \/ (k = Staging /\ c # Null /\ now < uploads[u].horizon)]

\* An S3 write (PUT of c, or DELETE when c = Null) with a deadline of ten
\* seconds.  After an error the request may have been applied, may have been
\* refused, or may be applied at any later time.
S3Write(u, k, c, done, unknown) ==
  \/ Arrive(u, k, c) /\ done /\ UNCHANGED <<inflight, faults>>
  \/ Fault /\ Arrive(u, k, c) /\ unknown /\ UNCHANGED inflight
  \/ Fault /\ unknown /\ UNCHANGED bucket
  \/ /\ Fault
     /\ unknown
     /\ inflight' = inflight \cup {[upload |-> u, key |-> k, content |-> c]}
     /\ UNCHANGED <<objects, written, early>>

\* A client that holds a capability that has not expired PUTs to staging.
\* S3 checks the expiry when the request starts; a slow body arrives later.
ClientPut(u, c) ==
  /\ now < caps[u]
  /\ \/ Arrive(u, Staging, c) /\ UNCHANGED <<inflight, faults>>
     \/ /\ Fault
        /\ inflight' = inflight \cup
                         {[upload |-> u, key |-> Staging, content |-> c]}
        /\ UNCHANGED <<objects, written, early>>
  /\ UNCHANGED <<now, db, caps>>

\* A request that its sender has given up on is applied.
Land(m) ==
  /\ Arrive(m.upload, m.key, m.content)
  /\ inflight' = inflight \ {m}
  /\ UNCHANGED <<now, faults, db, caps>>

\* The clock stops at MaxTime.
Tick ==
  /\ now < MaxTime
  /\ now' = now + 1
  /\ UNCHANGED <<faults, db, bucket, caps>>

EnvironmentNext ==
  \/ Tick
  \/ \E u \in Uploads : Settle(u)
  \/ \E m \in inflight : Land(m)
  \/ \E u \in Uploads, c \in Contents : ClientPut(u, c)
=============================================================================
