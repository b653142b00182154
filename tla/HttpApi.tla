------------------------------ MODULE HttpApi ------------------------------
(***************************************************************************)
(* What the HTTP layer answers: the checks on requests, the decoding of    *)
(* the create body, and the mapping of what the store functions return to  *)
(* a status and an error code.  One request is in progress at a time, in   *)
(* the steps of its store function: a transaction, a read, the answer.     *)
(* Between two of them the row moves on: other requests, the loops and the *)
(* clock are Background, and a transaction of the request whose commit     *)
(* returned an error is applied or rolled back at any later time.  Api has *)
(* the times and the upload ids, and many requests.                        *)
(***************************************************************************)
EXTENDS Naturals, SequencesExt, FailureCodes

CONSTANTS
  MaxUploadSize,  \* maxUploadSizeBytes
  MaxMembers      \* bound: members of the JSON object in a create body

ASSUME HttpAssumption == MaxUploadSize \in Nat \ {0} /\ MaxMembers \in Nat

VARIABLES
  row,       \* the stored upload
  late,      \* its deadline has passed
  stopping,  \* application.stopping
  doubt,     \* the transaction that is in doubt and holds the lock of the row, if
             \* any: the row it writes, and whether it is of this request
  call,      \* the local variables of the request in progress
  own,       \* the row has the upload id that this request made up
  wrote,     \* history: a transaction of this request was applied
  seen,      \* history: the states of the row since this request arrived, each
             \* with whether the deadline had passed
  reply      \* the last answer: route, status, logged error code, the state it is
             \* about, whether it carries a capability, whether the presigner
             \* returned something invalid, and for a create whether its body
             \* was well formed

store == <<row, own, wrote, doubt>>
vars == <<store, late, stopping, call, seen, reply>>

NoRow == [state |-> "none", size |-> 0, type |-> None, class |-> None, reason |-> None]
Terminal == {"ready", "rejected", "expired"}

-----------------------------------------------------------------------------
(* The body of POST /uploads.                                              *)

ImageTypes == {"image/jpeg", "image/png"}
Typed(name, size, type) == [name |-> name, ok |-> TRUE, size |-> size, type |-> type]
Mistyped(name) == [name |-> name, ok |-> FALSE, size |-> 0, type |-> None]

\* Members with a value of the right JSON type, with null or another type, and
\* members of another name.
Members ==
  {Typed("size_bytes", n, None) : n \in {0, 1, MaxUploadSize, MaxUploadSize + 1}}
    \cup {Typed("content_type", 0, t) : t \in {"image/png", "text/plain"}}
    \cup {Mistyped("size_bytes"), Mistyped("content_type"), Typed("other", 0, None)}

\* A JSON object that is closed, closed and followed by something, or cut off;
\* or something else.
Bodies ==
  [object : {TRUE}, members : BoundedSeq(Members, MaxMembers),
   end : {"closed", "trailing", "truncated"}]
    \cup {[object |-> FALSE, members |-> <<>>, end |-> "closed"]}

\* One object with one size and one type, each of its JSON type, and nothing
\* after it: what the handler is meant to take.
WellFormed(body) ==
  /\ body.object /\ body.end = "closed"
  /\ Len(body.members) = 2
  /\ {body.members[i].name : i \in 1..2} = {"size_bytes", "content_type"}
  /\ \A i \in 1..2 : body.members[i].ok

\* Faulty variant: the last of several members of one name counts.
decodeLastMember(command, member) ==
  [ ok |-> command.ok /\ member.ok /\ member.name # "other",
    seen |-> command.seen \cup {member.name},
    size |-> IF member.name = "size_bytes" THEN member.size ELSE command.size,
    type |-> IF member.name = "content_type" THEN member.type ELSE command.type ]

decodeMember(command, member) ==
  [ ok |-> command.ok /\ member.ok /\ member.name # "other" /\ member.name \notin command.seen,
    seen |-> command.seen \cup {member.name},
    size |-> IF member.name = "size_bytes" THEN member.size ELSE command.size,
    type |-> IF member.name = "content_type" THEN member.type ELSE command.type ]

\* The command after each of the members, in the order of the object.
decodeMembers(body) ==
  LET command[n \in 0..Len(body.members)] ==
        IF n = 0 THEN [ok |-> body.object, seen |-> {}, size |-> 0, type |-> None]
        ELSE decodeMember(command[n - 1], body.members[n])
  IN command

decodeCreateUploadBody(body) ==
  LET command == decodeMembers(body)[Len(body.members)]
      ok == /\ command.ok /\ body.end = "closed"
            /\ {"size_bytes", "content_type"} \subseteq command.seen
  IN IF ok THEN [ok |-> TRUE, size |-> command.size, type |-> command.type]
     ELSE [ok |-> FALSE, size |-> 0, type |-> None]

\* Every body with what becomes of it.
Decoded ==
  {[command |-> decodeCreateUploadBody(b), wellFormed |-> WellFormed(b)] : b \in Bodies}

-----------------------------------------------------------------------------
(* The request in progress.                                                *)

\* What a store function returns: an error or a row, whether the request has
\* created it, the transition it made, and whether a PUT comes with it.
Failed(err) ==
  [err |-> err, row |-> NoRow, created |-> FALSE, transition |-> None, capability |-> FALSE]
Found(r) == [Failed(None) EXCEPT !.row = r]

Undeclared == [ok |-> FALSE, size |-> 0, type |-> None]

Idle ==
  [route |-> None, pc |-> "idle", body |-> "unread", command |-> Undeclared,
   created |-> FALSE, attempt |-> 0, asked |-> FALSE, result |-> Failed(None)]

Goto(pc) == call' = [call EXCEPT !.pc = pc]
Return(result) == call' = [call EXCEPT !.pc = "answer", !.result = result]
Unavailable == Return(Failed("errServiceUnavailable"))

\* A transaction on the row: it fails when a statement fails or when the lock
\* is not released in time.
Transaction(body) ==
  \/ doubt = {} /\ body
  \/ Unavailable /\ UNCHANGED store

\* The request writes r and goes on with "done", or with "unknown" when the
\* commit returns an error.
Commit(r, done, unknown) ==
  \/ /\ row' = r /\ own' = (own \/ row.state = "none") /\ wrote' = TRUE
     /\ done /\ UNCHANGED doubt
  \/ doubt' = {[row |-> r, mine |-> TRUE]} /\ unknown /\ UNCHANGED <<row, own, wrote>>

\* The database applies or rolls back the transaction in doubt.
Settle ==
  /\ \/ \E d \in doubt :
          /\ row' = d.row
          /\ own' = (own \/ (d.mine /\ row.state = "none"))
          /\ wrote' = (wrote \/ d.mine)
     \/ doubt # {} /\ UNCHANGED <<row, own, wrote>>
  /\ doubt' = {}
  /\ UNCHANGED <<late, stopping, call, reply>>

\* What signing a request may return: the signed URL does not have the shape
\* it must have, or the signer fails.
presignUploadPUT == {None, "errUploadSigningInvalid", "errServiceUnavailable"}
presignContentGET == {None, "errContentSigningInvalid", "errServiceUnavailable"}
SigningFails(errors) ==
  (\E err \in errors \ {None} : Return(Failed(err))) /\ UNCHANGED store

\* A rejection that has no public code is not shown to anyone.
Readable == row.state = "rejected" => publicFailureCode(row.class, row.reason) # None

getUploadByID ==
  /\ call.pc = "represent"
  /\ \/ row.state = "none" /\ Return(Failed("errUploadNotFound"))
     \/ /\ row.state # "none" /\ Readable
        /\ Return([Found(row) EXCEPT !.created = call.created])
     \/ Unavailable
  /\ UNCHANGED store

\* The row as it was read; the representation of a terminal one is read anew.
Show(created) ==
  IF row.state \in Terminal
  THEN call' = [call EXCEPT !.pc = "represent", !.created = created]
  ELSE Return([Found(row) EXCEPT !.created = created])

uploadMatchesCommand == row.size = call.command.size /\ row.type = call.command.type
uploadAcceptsWrites == row.state \in {"pending", "finalizing"} /\ ~late

\* The PUT is handed out, unless it has expired or is not covered.
HandOut(result) == Return([result EXCEPT !.capability = TRUE]) \/ Unavailable

Recover(created) == call' = [call EXCEPT !.pc = "recover", !.created = created]

Inserted(command) ==
  [NoRow EXCEPT !.state = "pending", !.size = command.size, !.type = command.type]

\* A PUT is signed before anything else is known, and again for a replay.
createOrReplayUpload ==
  /\ call.pc = "insert"
  /\ \/ SigningFails(presignUploadPUT)
     \/ LET inserted == Inserted(call.command)
        IN Transaction(
             \/ /\ row.state = "none"
                /\ Commit(inserted, HandOut([Found(inserted) EXCEPT !.created = TRUE]),
                          Recover(TRUE))
             \/ /\ row.state # "none"
                /\ \/ ~uploadMatchesCommand /\ Return(Failed("errIdempotencyKeyReused"))
                   \/ uploadMatchesCommand /\ ~uploadAcceptsWrites /\ Show(FALSE)
                   \/ uploadMatchesCommand /\ uploadAcceptsWrites /\ Goto("replay")
                /\ UNCHANGED store)

\* The row is looked at again under its lock.
authorizeReplay ==
  /\ call.pc = "replay"
  /\ \/ SigningFails(presignUploadPUT)
     \/ Transaction(
          \/ /\ uploadMatchesCommand /\ uploadAcceptsWrites
             /\ Commit(row, HandOut(Found(row)), Recover(FALSE))
          \/ /\ ~(uploadMatchesCommand /\ uploadAcceptsWrites)
             /\ IF uploadMatchesCommand THEN Show(FALSE)
                ELSE Return(Failed("errIdempotencyKeyReused"))
             /\ UNCHANGED store)

\* Faulty variant: the upload id is not compared.
CreatedByAnyone == call.created

\* The insert in doubt was applied: the row has the id that the request made up.
CreatedHere == call.created /\ own

\* The commit of an insert or of a replay is unknown: the row is read back.  It
\* may have been created by another request, and may have moved on.
recoverUnknownUploadCommit ==
  /\ call.pc = "recover"
  /\ \/ Unavailable
     \/ /\ row.state # "none"
        /\ \/ ~uploadMatchesCommand /\ Return(Failed("errIdempotencyKeyReused"))
           \/ /\ uploadMatchesCommand /\ uploadAcceptsWrites
              /\ IF call.created => own
                 THEN HandOut([Found(row) EXCEPT !.created = CreatedHere])
                 ELSE Unavailable
           \/ uploadMatchesCommand /\ ~uploadAcceptsWrites /\ Show(CreatedHere)
  /\ UNCHANGED store

\* asked: the attempt was to make a finalizing upload due at once.
ReadBack(asked) == call' = [call EXCEPT !.pc = "readBack", !.asked = asked]

\* The transition is reported by the attempt whose commit was acknowledged.
completeUploadAttempt ==
  /\ call.pc = "attempt"
  /\ LET moved == [row EXCEPT !.state = IF late THEN "expired" ELSE "finalizing"]
         transition == IF late THEN "pending_to_expired" ELSE "pending_to_finalizing"
     IN Transaction(
          \/ /\ row.state = "none"
             /\ Return(Failed(IF call.attempt = 1 THEN "errUploadNotFound"
                              ELSE "errServiceUnavailable"))
             /\ UNCHANGED store
          \/ /\ row.state = "pending"
             /\ Commit(moved, Return([Found(moved) EXCEPT !.transition = transition]),
                       ReadBack(FALSE))
          \/ row.state = "finalizing" /\ Commit(row, Return(Found(row)), ReadBack(TRUE))
          \/ row.state \in Terminal /\ Goto("represent") /\ UNCHANGED store)

\* Whether a finalizing row has become due is left open, as its due time is.
completionOutcomeIsDurable ==
  {durable \in BOOLEAN :
     /\ row.state \in Terminal => durable
     /\ row.state = "finalizing" /\ ~call.asked => durable
     /\ row.state \in {"none", "pending"} => ~durable}

\* One more attempt is made when the read-back shows no durable outcome.
recoverCompletionOutcome ==
  /\ call.pc = "readBack"
  /\ \/ Unavailable
     \/ \E durable \in completionOutcomeIsDurable :
          IF durable THEN Show(FALSE)
          ELSE IF call.attempt = 1
          THEN call' = [call EXCEPT !.pc = "attempt", !.attempt = 2]
          ELSE Unavailable
  /\ UNCHANGED store

authorizeContentRead ==
  /\ call.pc = "content"
  /\ \/ row.state = "none" /\ Return(Failed("errUploadNotFound"))
     \/ row.state = "ready" /\ SigningFails(presignContentGET)
     \/ row.state # "none" /\ Readable /\ Return(Found(row))
     \/ Unavailable
  /\ UNCHANGED store

StoreStep ==
  /\ \/ createOrReplayUpload \/ authorizeReplay \/ recoverUnknownUploadCommit
     \/ completeUploadAttempt \/ recoverCompletionOutcome
     \/ getUploadByID \/ authorizeContentRead
  /\ UNCHANGED <<late, stopping, reply>>

-----------------------------------------------------------------------------
(* Answers.                                                                *)

Reply(route, status, code) ==
  [route |-> route, status |-> status, code |-> code, state |-> "none",
   capability |-> FALSE, signing |-> FALSE, body |-> "unread"]

NoReply == Reply(None, 0, None)

SigningErrors == {"errUploadSigningInvalid", "errContentSigningInvalid"}

\* The answer to an error of the store; errors that the handler does not expect
\* are internal.
ErrorReply(route, expected, err) ==
  IF err \notin expected
  THEN [Reply(route, 500, "internal_error") EXCEPT !.signing = err \in SigningErrors]
  ELSE CASE err = "errIdempotencyKeyReused" -> Reply(route, 422, "idempotency_key_reused")
         [] err = "errUploadNotFound" -> Reply(route, 404, "upload_not_found")
         [] err = "errServiceUnavailable" -> Reply(route, 503, "service_unavailable")

CreateErrors == {"errIdempotencyKeyReused", "errServiceUnavailable"}
UploadErrors == {"errUploadNotFound", "errServiceUnavailable"}

\* A representation of the row.
Shown(route, status, result) ==
  [Reply(route, status, None) EXCEPT !.state = result.row.state,
                                   !.capability = result.capability]

Internal(route) == Reply(route, 500, "internal_error")

serveCreateUpload(result) ==
  IF result.err # None THEN ErrorReply("create", CreateErrors, result.err)
  ELSE Shown("create", IF result.created THEN 201 ELSE 200, result)

\* The transition that is reported must fit the state that is shown.
serveCompleteUpload(result) ==
  LET fits == \/ result.transition = None
              \/ result.transition = "pending_to_finalizing" /\ result.row.state = "finalizing"
              \/ result.transition = "pending_to_expired" /\ result.row.state = "expired"
  IN IF result.err # None THEN ErrorReply("complete", UploadErrors, result.err)
     ELSE IF ~fits THEN Internal("complete")
     ELSE IF result.row.state = "finalizing" THEN Shown("complete", 202, result)
     ELSE IF result.row.state \in {"ready", "rejected", "expired"}
     THEN Shown("complete", 200, result)
     ELSE Internal("complete")

serveGetUpload(result) ==
  IF result.err # None THEN ErrorReply("status", UploadErrors, result.err)
  ELSE Shown("status", 200, result)

\* An error about the row, which the handler has looked at.
RowError(row1, status, code) ==
  [Reply("content", status, code) EXCEPT !.state = row1.state]

\* Faulty variant: the handler does not know upload_processing_failed.
RejectedContentImagesOnly(row1) ==
  LET code == publicFailureCode(row1.class, row1.reason)
  IN IF code \in {"image_too_large", "invalid_image"} THEN RowError(row1, 422, code)
     ELSE Internal("content")

\* The answer for a rejected upload depends on its public failure code.
RejectedContent(row1) ==
  LET code == publicFailureCode(row1.class, row1.reason)
  IN CASE code \in {"image_too_large", "invalid_image"} -> RowError(row1, 422, code)
       [] code = "upload_processing_failed" -> RowError(row1, 500, code)
       [] OTHER -> Internal("content")

\* Only a ready upload is redirected; the other states are errors of their own.
serveGetContent(result) ==
  IF result.err # None THEN ErrorReply("content", UploadErrors, result.err)
  ELSE CASE result.row.state = "ready" ->
              [Shown("content", 307, result) EXCEPT !.capability = TRUE]
         [] result.row.state \in {"pending", "finalizing"} ->
              RowError(result.row, 409, "upload_not_ready")
         [] result.row.state = "rejected" -> RejectedContent(result.row)
         [] result.row.state = "expired" -> RowError(result.row, 410, "upload_expired")
         [] OTHER -> Internal("content")

-----------------------------------------------------------------------------
(* Requests.                                                               *)

Init ==
  /\ row = NoRow /\ own = FALSE /\ wrote = FALSE /\ doubt = {}
  /\ late = FALSE /\ stopping = FALSE
  /\ call = Idle /\ seen = {} /\ reply = NoReply

\* A request arrives.  What an earlier one has left in doubt is not its own.
Arrives ==
  /\ call.pc = "idle"
  /\ own' = FALSE /\ wrote' = FALSE
  /\ doubt' = {[d EXCEPT !.mine = FALSE] : d \in doubt}
  /\ UNCHANGED <<row, late, stopping>>

\* A request that is answered without asking the store.
RefuseWith(answer) == Arrives /\ reply' = answer /\ UNCHANGED call
Refuse(route, status, code) == RefuseWith(Reply(route, status, code))

\* A request that goes on to the store.
Begin(newCall) == Arrives /\ call' = newCall /\ reply' = NoReply

\* The declaration is passed on to the store.
Forwards(command) ==
  command.size \in 1..MaxUploadSize /\ command.type \in ImageTypes

\* For the properties: whether the body was well formed.
Judged(record, body) ==
  [record EXCEPT !.body = IF body.wellFormed THEN "good" ELSE "bad"]

\* POST /uploads with a body that was read in full.
PostBody(body) ==
  LET command == body.command
  IN \/ /\ ~command.ok
        /\ RefuseWith(Judged(Reply("create", 400, "invalid_request"), body))
     \/ /\ command.ok /\ ~Forwards(command)
        /\ RefuseWith(Judged(Reply("create", 422, "invalid_upload_declaration"), body))
     \/ /\ command.ok /\ Forwards(command)
        /\ Begin(Judged([Idle EXCEPT !.route = "create", !.pc = "insert",
                                     !.command = command], body))

\* The headers are checked first.  A body that cannot be read is refused like a
\* malformed one, unless it is too large.
PostCreate ==
  \/ Refuse("create", 400, "invalid_idempotency_key")
  \/ Refuse("create", 415, "unsupported_media_type")
  \/ Refuse("create", 413, "request_too_large")
  \/ Refuse("create", 400, "invalid_request")
  \/ \E body \in Decoded : PostBody(body)

PostComplete ==
  \/ Refuse("complete", 400, "invalid_request")
  \/ Begin([Idle EXCEPT !.route = "complete", !.pc = "attempt", !.attempt = 1])

GetUpload ==
  \/ Refuse("status", 400, "invalid_request")
  \/ Begin([Idle EXCEPT !.route = "status", !.pc = "represent"])

GetContent ==
  \/ Refuse("content", 400, "invalid_request")
  \/ Begin([Idle EXCEPT !.route = "content", !.pc = "content"])

\* The handler answers with what the store function has returned.
Serve(route, result) ==
  CASE route = "create" -> serveCreateUpload(result)
    [] route = "complete" -> serveCompleteUpload(result)
    [] route = "status" -> serveGetUpload(result)
    [] route = "content" -> serveGetContent(result)

Answer ==
  /\ call.pc = "answer"
  /\ reply' = [Serve(call.route, call.result) EXCEPT !.body = call.body]
  /\ call' = Idle
  /\ UNCHANGED <<store, late, stopping>>

\* /readyz asks both dependencies, whatever the first one answers.
ready(postgres, s3) ==
  IF postgres /\ s3 THEN Refuse("readyz", 200, None)
  ELSE Refuse("readyz", 503, "service_unavailable")

\* Unknown routes and methods, /livez, /readyz and /debug/vars.
Operational ==
  \/ Refuse(None, 404, "not_found")
  \/ Refuse(None, 405, "method_not_allowed")
  \/ Refuse("vars", 200, None)
  \/ IF stopping THEN Refuse("livez", 503, "service_unavailable")
     ELSE Refuse("livez", 200, None)
  \/ \E postgres, s3 \in BOOLEAN : ready(postgres, s3)

\* The rest of the service: other requests, the finalizer and the sweep, none of
\* which gets past the lock of a transaction in doubt, the clock, a shutdown.
MovesOn ==
  \/ /\ row.state = "none"
     /\ \E size \in 1..MaxUploadSize, type \in ImageTypes :
          row' = Inserted([size |-> size, type |-> type])
  \/ row.state = "pending" /\ row' = [row EXCEPT !.state = IF late THEN "expired" ELSE "finalizing"]
  \/ /\ row.state = "finalizing"
     /\ \/ row' = [row EXCEPT !.state = "ready"]
        \/ \E r \in StorableRejections :
             row' = [row EXCEPT !.state = "rejected", !.class = r.class, !.reason = r.reason]
        \/ late /\ row' = [row EXCEPT !.state = "expired"]

Background ==
  \/ doubt = {} /\ MovesOn /\ UNCHANGED <<own, wrote, doubt, late, stopping, call, reply>>
  \/ row.state # "none" /\ ~late /\ late' = TRUE /\ UNCHANGED <<store, stopping, call, reply>>
  \/ ~stopping /\ stopping' = TRUE /\ UNCHANGED <<store, late, call, reply>>

\* The states of the row since the request in progress arrived.
Observe ==
  seen' = (IF call.pc = "idle" THEN {} ELSE seen) \cup {<<row'.state, late'>>}

Requests == PostCreate \/ PostComplete \/ GetUpload \/ GetContent \/ Operational

Next == (Requests \/ StoreStep \/ Answer \/ Settle \/ Background) /\ Observe

Spec == Init /\ [][Next]_vars

-----------------------------------------------------------------------------
(* Properties.                                                             *)

\* Whatever state the upload is in and whatever the store returns, a client is
\* told internal_error only when the presigner returned something invalid: no
\* stored row leads into a defensive branch, and no rejection lacks its code.
InternalErrorOnlyFromSigning == reply.code = "internal_error" => reply.signing

\* A body is refused as malformed exactly when it is not one object with one
\* size and one type, and what is stored is within the CHECK constraints of the
\* uploads table.
DeclarationsExact ==
  /\ reply.body # "unread" => (reply.code = "invalid_request") = (reply.body = "bad")
  /\ row.state # "none" => row.size \in 1..MaxUploadSize /\ row.type \in ImageTypes

\* What an answer says was true while the request was in progress, and what it
\* says for good is still true when it is given, however far other requests,
\* the loops and a late commit of the request itself have moved the row
\* meanwhile: 201 only for the row that this request inserted, although its
\* state may be any by now; a state that is shown is one the row was in since
\* the request arrived, and a terminal one is the row's; 202 only for
\* finalizing, 409 only before the end, 307 only for a ready row, 410 for an
\* expired one, the 200 of a completion for a terminal one; a PUT only when the
\* row was open before its deadline; and when the client is blamed (4xx) the
\* request has changed nothing and nothing of it is in doubt.
StatusTellsState ==
  [][reply' # reply /\ reply' # NoReply =>
       /\ reply'.status = 201 => own /\ row.state # "none"
       /\ reply'.state # "none" => <<reply'.state, TRUE>> \in seen \/ <<reply'.state, FALSE>> \in seen
       /\ reply'.state \in Terminal => row.state = reply'.state
       /\ reply'.status = 202 => reply'.state = "finalizing"
       /\ reply'.status = 307 => reply'.state = "ready"
       /\ reply'.status = 409 => reply'.state \in {"pending", "finalizing"}
       /\ reply'.status = 410 => reply'.state = "expired"
       /\ reply'.route = "complete" /\ reply'.status = 200 => reply'.state \in Terminal
       /\ reply'.capability /\ reply'.route = "create" =>
            /\ reply'.state \in {"pending", "finalizing"}
            /\ <<reply'.state, FALSE>> \in seen
       /\ reply'.status \in 400..499 => ~wrote' /\ \A d \in doubt' : ~d.mine]_vars
=============================================================================
