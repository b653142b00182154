----------------------------- MODULE HttpProofs -----------------------------
(***************************************************************************)
(* Proofs about HttpApi, for any limit on sizes and bodies with any number *)
(* of members: no stored row leads a handler into a defensive branch, what *)
(* an answer says of the row and of the request is true although the row   *)
(* moves while the request is in progress, and the decoder takes exactly   *)
(* the bodies it is meant to take.                                         *)
(***************************************************************************)
EXTENDS HttpApi, WellFoundedInduction, TLAPS

-----------------------------------------------------------------------------
(* The invariant.                                                          *)

States == {"none", "pending", "finalizing", "ready", "rejected", "expired"}

Rows ==
  [state : States, size : Nat, type : ImageTypes \cup {None},
   class : {"invalid_input", "internal_invariant", None},
   reason : InputReasons \cup InvariantReasons \cup {None}]

PublicCodes == {"image_too_large", "invalid_image", "upload_processing_failed"}

\* A row as the other parts of the service leave it: declared within the limits
\* and, when rejected, with a reason that has a public code.
RowOK(r) ==
  /\ r \in Rows
  /\ r.state # "none" => r.size \in 1..MaxUploadSize /\ r.type \in ImageTypes
  /\ r.state = "rejected" => publicFailureCode(r.class, r.reason) \in PublicCodes

\* Two rows with the same declaration.
SameDeclaration(r, s) == r.size = s.size /\ r.type = s.type

\* Before its creation an upload has no deadline that could have passed, and
\* nobody has written it.
RowInv ==
  /\ RowOK(row)
  /\ late \in BOOLEAN
  /\ row.state = "none" => late = FALSE
  /\ own => row.state # "none"
  /\ wrote => row.state # "none"

\* A transaction in doubt writes a row that may follow the present one, which
\* its lock keeps from moving on.
DoubtInv ==
  \A d \in doubt :
    /\ d \in [row : Rows, mine : BOOLEAN]
    /\ RowOK(d.row) /\ d.row.state # "none"
    /\ row.state \notin Terminal
    /\ row.state # "none" => SameDeclaration(d.row, row)

\* The request in progress has changed nothing and nothing of it is in doubt.
Clean == ~wrote /\ \A d \in doubt : ~d.mine

CallFields ==
  {"route", "pc", "body", "command", "created", "attempt", "asked", "result"}

\* The routes of the requests that are at a step of a store function.
RoutesAt(pc) ==
  CASE pc \in {"insert", "replay", "recover"} -> {"create"}
    [] pc \in {"attempt", "readBack"} -> {"complete"}
    [] pc = "content" -> {"content"}
    [] pc = "represent" -> {"create", "complete", "status"}
    [] OTHER -> {"create", "complete", "status", "content"}

Pcs ==
  {"insert", "replay", "recover", "attempt", "readBack", "content", "represent", "answer"}

\* What a request knows at every step of it.
CallInv ==
  /\ DOMAIN call = CallFields
  /\ call.pc # "idle" =>
       /\ call.pc \in Pcs
       /\ call.route \in RoutesAt(call.pc)
       /\ call.body \in {"unread", "good"}
       /\ call.route = "create" => Forwards(call.command)
       /\ <<row.state, late>> \in seen

\* The errors that the handler of a route expects.
Expected(route) == IF route = "create" THEN CreateErrors ELSE UploadErrors

\* The states that the row was in since the request arrived.
WasSeen(state) == <<state, TRUE>> \in seen \/ <<state, FALSE>> \in seen

\* What the handler is told.  An error that blames the client comes of a request
\* that has changed nothing; a state is one that the row was in, and a terminal
\* one is still the row's.
ResultOK(route, res) ==
  /\ res.err \in Expected(route) \cup SigningErrors \cup {None}
  /\ res.err \in {"errIdempotencyKeyReused", "errUploadNotFound"} => Clean
  /\ res.err = None =>
       /\ RowOK(res.row) /\ res.row.state # "none" /\ WasSeen(res.row.state)
       /\ res.row.state \in Terminal => row.state = res.row.state
       /\ route = "create" /\ res.created => own
       /\ route = "create" /\ res.capability =>
            res.row.state \in {"pending", "finalizing"} /\ <<res.row.state, FALSE>> \in seen
       /\ route = "complete" =>
            /\ res.row.state # "pending"
            /\ \/ res.transition = None
               \/ res.transition = "pending_to_finalizing" /\ res.row.state = "finalizing"
               \/ res.transition = "pending_to_expired" /\ res.row.state = "expired"

\* Whatever this request has written, or may have written, is of its declaration.
OfCommand ==
  /\ wrote => SameDeclaration(row, call.command)
  /\ \A d \in doubt : d.mine => SameDeclaration(d.row, call.command)

\* A GET writes nothing.
ReadInv == call.pc # "idle" /\ call.route \in {"status", "content"} => Clean

\* What a request relies on at each of its steps.
StepInv ==
  /\ call.pc \in {"insert", "replay"} => Clean
  /\ call.pc = "replay" => row.state # "none"
  /\ call.pc = "attempt" /\ call.attempt = 1 => Clean
  /\ call.pc = "represent" =>
       /\ call.route # "status" => row.state \in Terminal
       /\ call.route = "create" /\ call.created => own
  /\ call.pc = "recover" => OfCommand
  /\ call.pc = "answer" => ResultOK(call.route, call.result)

\* An answer refuses a body exactly when it is not well formed.
Exact(ans) == ans.body # "unread" => (ans.code = "invalid_request") = (ans.body = "bad")

ReplyInv == InternalErrorOnlyFromSigning /\ Exact(reply)

HttpInv == RowInv /\ DoubtInv /\ CallInv /\ ReadInv /\ StepInv /\ ReplyInv

\* The errors of the store functions.
Errors ==
  {"errIdempotencyKeyReused", "errUploadNotFound", "errServiceUnavailable",
   "errUploadSigningInvalid", "errContentSigningInvalid"}

\* The empty string is not the name of anything.
LEMMA NoneIsNoName ==
  /\ None \notin Errors
  /\ None \notin PublicCodes
  /\ None # "internal_error"
  /\ None # "invalid_request"
  /\ None # "pending_to_finalizing"
  /\ None # "pending_to_expired"
BY Zenon DEF None, Errors, PublicCodes

\* Every rejection that the database admits has a public code.
LEMMA RejectionsHaveCodes ==
  ASSUME NEW r \in StorableRejections
  PROVE  /\ publicFailureCode(r.class, r.reason) \in PublicCodes
         /\ r.class \in {"invalid_input", "internal_invariant"}
         /\ r.reason \in InputReasons \cup InvariantReasons
<1>1. \/ r.class = "invalid_input" /\ r.reason \in InputReasons
      \/ r.class = "internal_invariant" /\ r.reason \in InvariantReasons
      BY DEF StorableRejections
<1>2. publicFailureCode(r.class, r.reason) \in PublicCodes
      BY <1>1 DEF publicFailureCode, InputReasons, PublicCodes
<1>3. QED BY <1>1, <1>2

\* A row that changes its state only, and not to "rejected", stays well formed.
LEMMA RowMoves ==
  ASSUME NEW r, RowOK(r), r.state # "none", NEW state \in States \ {"none", "rejected"}
  PROVE  /\ RowOK([r EXCEPT !.state = state])
         /\ [r EXCEPT !.state = state].state = state
<1> DEFINE s == [r EXCEPT !.state = state]
<1>1. r \in Rows /\ r.size \in 1..MaxUploadSize /\ r.type \in ImageTypes
      BY DEF RowOK
<1>2. /\ s.state = state /\ s.size = r.size /\ s.type = r.type
      /\ s \in Rows
      BY <1>1 DEF Rows
<1> HIDE DEF s
<1>3. RowOK(s)
      BY <1>1, <1>2 DEF RowOK
<1>4. QED BY <1>2, <1>3 DEF s

-----------------------------------------------------------------------------
-----------------------------------------------------------------------------
(* What a step does to the row.                                            *)

\* A row that is inserted is well formed when its declaration is.
LEMMA InsertedRow ==
  ASSUME NEW command, Forwards(command)
  PROVE  /\ RowOK(Inserted(command)) /\ Inserted(command).state = "pending"
         /\ SameDeclaration(Inserted(command), command)
<1> DEFINE ins == Inserted(command)
<1>1. ins.state = "pending" /\ ins.size = command.size /\ ins.type = command.type
      BY DEF Inserted, NoRow
<1>2. /\ command.size \in Nat /\ command.size \in 1..MaxUploadSize
      /\ command.type \in ImageTypes
      BY HttpAssumption DEF Forwards
<1>3. NoRow \in Rows
      BY DEF NoRow, Rows, States
<1>4. ins \in Rows
      BY <1>2, <1>3 DEF Inserted, Rows, States
<1> HIDE DEF ins
<1>5. RowOK(ins) /\ SameDeclaration(ins, command)
      BY <1>1, <1>2, <1>4 DEF RowOK, SameDeclaration
<1>6. QED BY <1>1, <1>5 DEF ins

\* r may be written over the present row by a transaction that has its lock.
MayWrite(r) ==
  /\ doubt = {} /\ row.state \notin Terminal
  /\ RowOK(r) /\ r.state # "none"
  /\ row.state # "none" => SameDeclaration(r, row)

\* The three outcomes of a store function for the stored row.
Untouched == row' = row /\ own' = own /\ wrote' = wrote /\ doubt' = doubt
Applied(r) ==
  row' = r /\ own' = (own \/ row.state = "none") /\ wrote' = TRUE /\ doubt' = doubt
InDoubt(r) ==
  doubt' = {[row |-> r, mine |-> TRUE]} /\ row' = row /\ own' = own /\ wrote' = wrote

StoreEffect == Untouched \/ \E r : MayWrite(r) /\ (Applied(r) \/ InDoubt(r))

\* A store function leaves the row and the transaction in doubt in order.
LEMMA StoreEffectKeeps ==
  ASSUME RowInv, DoubtInv, StoreEffect, late' = late
  PROVE  RowInv' /\ DoubtInv'
<1>1. CASE Untouched
      BY <1>1 DEF Untouched, RowInv, DoubtInv, RowOK, SameDeclaration
<1>2. ASSUME NEW r, MayWrite(r), Applied(r) PROVE RowInv' /\ DoubtInv'
  <2>1. RowOK(row)' /\ row'.state # "none"
        BY <1>2 DEF MayWrite, Applied, RowOK
  <2>2. RowInv'
        BY <2>1 DEF RowInv
  <2>3. doubt' = {}
        BY <1>2 DEF MayWrite, Applied
  <2>4. QED BY <2>2, <2>3 DEF DoubtInv
<1>3. ASSUME NEW r, MayWrite(r), InDoubt(r) PROVE RowInv' /\ DoubtInv'
  <2>1. RowInv'
        BY <1>3 DEF InDoubt, RowInv, RowOK
  <2> DEFINE e == [row |-> r, mine |-> TRUE]
  <2>2. e.row = r /\ e \in [row : Rows, mine : BOOLEAN]
        BY <1>3 DEF MayWrite, RowOK
  <2> HIDE DEF e
  <2>3. doubt' = {e} /\ row' = row
        BY <1>3 DEF InDoubt, e
  <2>4. DoubtInv'
        BY <1>3, <2>2, <2>3 DEF DoubtInv, MayWrite, RowOK, SameDeclaration
  <2>5. QED BY <2>1, <2>4
<1>4. QED BY <1>1, <1>2, <1>3 DEF StoreEffect

\* Nothing of the request is in doubt or written after a step that only reads.
LEMMA CleanStays ==
  ASSUME Untouched, Clean
  PROVE  Clean'
BY DEF Untouched, Clean

-----------------------------------------------------------------------------
(* Results.                                                                *)

\* A request that goes on to another step of its own route.
LEMMA CallGoesOn ==
  ASSUME CallInv, call.pc # "idle", Observe, DOMAIN call' = CallFields,
         call'.pc \in Pcs, call'.route = call.route, call.route \in RoutesAt(call'.pc),
         call'.body = call.body, call'.command = call.command
  PROVE  CallInv' /\ <<row'.state, late'>> \in seen' /\ seen \subseteq seen'
<1>1. <<row'.state, late'>> \in seen' /\ seen \subseteq seen'
      BY DEF Observe
<1>2. CallInv'
      BY <1>1 DEF CallInv, Forwards
<1>3. QED BY <1>1, <1>2

\* A store function returns.
LEMMA Returned ==
  ASSUME CallInv, call.pc # "idle", Observe, NEW res, Return(res)
  PROVE  /\ CallInv' /\ <<row'.state, late'>> \in seen' /\ seen \subseteq seen'
         /\ call'.pc = "answer" /\ call'.result = res /\ call'.route = call.route
<1>1. /\ DOMAIN call' = CallFields
      /\ call'.pc = "answer" /\ call'.result = res /\ call'.route = call.route
      /\ call'.body = call.body /\ call'.command = call.command
      BY DEF Return, CallInv, CallFields
<1>2. "answer" \in Pcs /\ call.route \in RoutesAt("answer")
      BY DEF Pcs, RoutesAt, CallInv
<1>3. QED BY <1>1, <1>2, CallGoesOn

\* An error of the store is one that the handler may be told.
LEMMA ErrorReturned ==
  ASSUME CallInv, call.pc # "idle", Observe, NEW err, Return(Failed(err)),
         err \in Expected(call.route) \cup SigningErrors,
         err \in {"errIdempotencyKeyReused", "errUploadNotFound"} => Clean'
  PROVE  CallInv' /\ StepInv'
<1>1. /\ CallInv' /\ call'.pc = "answer" /\ call'.route = call.route
      /\ call'.result = Failed(err)
      BY Returned
<1>2. call'.result.err = err
      BY <1>1 DEF Failed
<1>3. err # None
      BY NoneIsNoName DEF Expected, CreateErrors, UploadErrors, SigningErrors, Errors
<1>4. ResultOK(call.route, call.result)'
      BY <1>1, <1>2, <1>3 DEF ResultOK, Expected
<1>5. QED BY <1>1, <1>4 DEF StepInv

\* The database does not answer, or not in time.
LEMMA UnavailableReturned ==
  ASSUME CallInv, call.pc # "idle", Observe, Unavailable
  PROVE  CallInv' /\ StepInv'
<1>1. "errServiceUnavailable" \in Expected(call.route)
      BY DEF Expected, CreateErrors, UploadErrors
<1>2. QED BY <1>1, ErrorReturned DEF Unavailable

\* The signer fails.
LEMMA SigningReturned ==
  ASSUME CallInv, call.pc # "idle", Observe,
         SigningFails(presignUploadPUT) \/ SigningFails(presignContentGET)
  PROVE  CallInv' /\ StepInv' /\ StoreEffect
<1>1. PICK err \in SigningErrors \cup {"errServiceUnavailable"} : Return(Failed(err))
      BY DEF SigningFails, presignUploadPUT, presignContentGET, SigningErrors
<1>2. err \in Expected(call.route) \cup SigningErrors
      BY DEF Expected, CreateErrors, UploadErrors
<1>3. err \notin {"errIdempotencyKeyReused", "errUploadNotFound"}
      BY DEF SigningErrors
<1>4. StoreEffect
      BY DEF SigningFails, store, StoreEffect, Untouched
<1>5. QED BY <1>1, <1>2, <1>3, <1>4, ErrorReturned

\* The row of the moment is returned.
LEMMA RowReturned ==
  ASSUME CallInv, call.pc # "idle", Observe, NEW res, Return(res), RowInv',
         res.err = None, res.row = row', row'.state # "none",
         call.route = "create" /\ res.created => own',
         call.route = "create" /\ res.capability =>
           row'.state \in {"pending", "finalizing"} /\ ~late',
         call.route = "complete" =>
           /\ row'.state # "pending"
           /\ \/ res.transition = None
              \/ res.transition = "pending_to_finalizing" /\ row'.state = "finalizing"
              \/ res.transition = "pending_to_expired" /\ row'.state = "expired"
  PROVE  CallInv' /\ StepInv'
<1>1. /\ CallInv' /\ call'.pc = "answer" /\ call'.route = call.route
      /\ call'.result = res /\ <<row'.state, late'>> \in seen'
      BY Returned
<1>2. /\ late' \in BOOLEAN
      /\ RowOK(row)'
      BY DEF RowInv
<1>3. WasSeen(res.row.state)'
      BY <1>1, <1>2 DEF WasSeen
<1>4. ~late' => <<row'.state, FALSE>> \in seen'
      BY <1>1, <1>2
<1>5. None \notin {"errIdempotencyKeyReused", "errUploadNotFound"}
      BY NoneIsNoName DEF Errors
<1>6. ResultOK(call.route, call.result)'
      BY <1>1, <1>2, <1>3, <1>4, <1>5 DEF ResultOK, RowOK
<1>7. QED BY <1>1, <1>6 DEF StepInv

\* A row is returned as it was read; the representation of a terminal one is
\* read anew.
LEMMA RowShown ==
  ASSUME RowInv, CallInv, call.pc # "idle", Observe, Untouched, late' = late,
         NEW created, Show(created), row.state # "none",
         call.route \in {"create", "complete"},
         call.route = "create" /\ created => own,
         call.route = "complete" => row.state # "pending"
  PROVE  CallInv' /\ StepInv'
<1>1. RowInv' /\ row' = row /\ (own => own')
      BY DEF Untouched, RowInv, RowOK
<1>2. CASE row.state \in Terminal
  <2>1. /\ DOMAIN call' = CallFields
        /\ call'.pc = "represent" /\ call'.created = created /\ call'.route = call.route
        /\ call'.body = call.body /\ call'.command = call.command
        BY <1>2 DEF Show, CallInv, CallFields
  <2>2. "represent" \in Pcs /\ call.route \in RoutesAt("represent")
        BY DEF Pcs, RoutesAt
  <2>3. CallInv'
        BY <2>1, <2>2, CallGoesOn
  <2>4. QED BY <1>1, <1>2, <2>1, <2>3 DEF StepInv
<1>3. CASE row.state \notin Terminal
  <2> DEFINE res == [Found(row) EXCEPT !.created = created]
  <2>1. /\ res.err = None /\ res.row = row /\ res.created = created
        /\ res.capability = FALSE /\ res.transition = None
        BY DEF Found, Failed
  <2>2. Return(res)
        BY <1>3 DEF Show
  <2> HIDE DEF res
  <2>3. QED BY <1>1, <2>1, <2>2, RowReturned
<1>4. QED BY <1>2, <1>3

-----------------------------------------------------------------------------
(* The steps of the store functions.                                       *)

ResultFields == {"err", "row", "created", "transition", "capability"}

\* The fields of a result about a row.
LEMMA FoundFields ==
  ASSUME NEW r, NEW created
  PROVE  /\ DOMAIN Found(r) = ResultFields
         /\ Found(r).err = None /\ Found(r).row = r /\ ~Found(r).created
         /\ Found(r).transition = None /\ ~Found(r).capability
         /\ DOMAIN [Found(r) EXCEPT !.created = created] = ResultFields
         /\ [Found(r) EXCEPT !.created = created].err = None
         /\ [Found(r) EXCEPT !.created = created].row = r
         /\ [Found(r) EXCEPT !.created = created].created = created
         /\ [Found(r) EXCEPT !.created = created].transition = None
         /\ ~[Found(r) EXCEPT !.created = created].capability
BY DEF Found, Failed, ResultFields

\* Whatever becomes of the request, the PUT is handed out only for a row that
\* was open before its deadline.
LEMMA HandedOut ==
  ASSUME CallInv, call.pc # "idle", call.route = "create", Observe, RowInv',
         NEW base, HandOut(base), DOMAIN base = ResultFields,
         base.err = None, base.row = row', base.created => own',
         row'.state \in {"pending", "finalizing"}, ~late'
  PROVE  CallInv' /\ StepInv'
<1> DEFINE res == [base EXCEPT !.capability = TRUE]
<1>1. res.err = None /\ res.row = row' /\ res.created = base.created
      BY DEF ResultFields
<1>2. Return(res) \/ Unavailable
      BY DEF HandOut
<1> HIDE DEF res
<1>3. row'.state # "none"
      OBVIOUS
<1>4. CASE Return(res)
      BY <1>1, <1>3, <1>4, RowReturned
<1>5. QED BY <1>2, <1>4, UnavailableReturned

\* A commit in doubt is read back, with what it was to write known.
LEMMA GoesToRecovery ==
  ASSUME CallInv, call.pc \in {"insert", "replay"}, Clean, Observe,
         NEW r, SameDeclaration(r, call.command), InDoubt(r),
         NEW created, Recover(created)
  PROVE  CallInv' /\ StepInv'
<1>1. call.route = "create" /\ call.pc # "idle"
      BY DEF CallInv, RoutesAt
<1>2. /\ DOMAIN call' = CallFields
      /\ call'.pc = "recover" /\ call'.route = call.route
      /\ call'.body = call.body /\ call'.command = call.command
      BY DEF Recover, CallInv, CallFields
<1>3. "recover" \in Pcs /\ call.route \in RoutesAt("recover")
      BY <1>1 DEF Pcs, RoutesAt
<1>4. CallInv'
      BY <1>1, <1>2, <1>3, CallGoesOn
<1> DEFINE e == [row |-> r, mine |-> TRUE]
<1>5. e.row = r
      OBVIOUS
<1> HIDE DEF e
<1>6. doubt' = {e} /\ ~wrote'
      BY DEF InDoubt, Clean, e
<1>7. OfCommand'
      BY <1>2, <1>5, <1>6 DEF OfCommand, SameDeclaration
<1>8. QED BY <1>2, <1>4, <1>7 DEF StepInv

\* The insert, or the row that was there before it.
LEMMA InsertStep ==
  ASSUME HttpInv, createOrReplayUpload, Observe, late' = late
  PROVE  CallInv' /\ StepInv' /\ StoreEffect
<1> DEFINE ins == Inserted(call.command)
<1>0. /\ call.pc = "insert" /\ call.pc # "idle" /\ call.route = "create"
      /\ RowInv /\ DoubtInv /\ CallInv /\ Clean /\ Forwards(call.command)
      BY DEF createOrReplayUpload, HttpInv, CallInv, StepInv, RoutesAt
<1>1. /\ RowOK(ins) /\ ins.state = "pending" /\ SameDeclaration(ins, call.command)
      BY <1>0, InsertedRow
<1> HIDE DEF ins
<1>2. CASE SigningFails(presignUploadPUT)
      BY <1>0, <1>2, SigningReturned
<1>3. CASE Unavailable /\ Untouched
      BY <1>0, <1>3, UnavailableReturned DEF StoreEffect
<1>4. ASSUME doubt = {}, row.state = "none",
             \/ Applied(ins) /\ HandOut([Found(ins) EXCEPT !.created = TRUE])
             \/ InDoubt(ins) /\ Recover(TRUE)
      PROVE  CallInv' /\ StepInv' /\ StoreEffect
  <2>1. MayWrite(ins)
        BY <1>1, <1>4 DEF MayWrite, Terminal
  <2>2. StoreEffect
        BY <1>4, <2>1 DEF StoreEffect
  <2>3. RowInv'
        BY <1>0, <2>2, StoreEffectKeeps
  <2>4. CASE Applied(ins) /\ HandOut([Found(ins) EXCEPT !.created = TRUE])
    <3>1. row' = ins /\ own' /\ ~late'
          BY <1>0, <1>4, <2>4 DEF Applied, RowInv
    <3> DEFINE base == [Found(ins) EXCEPT !.created = TRUE]
    <3>2. DOMAIN base = ResultFields /\ base.err = None /\ base.row = row'
          BY <3>1, FoundFields
    <3>3. HandOut(base)
          BY <2>4
    <3> HIDE DEF base
    <3>4. QED BY <1>0, <1>1, <2>2, <2>3, <3>1, <3>2, <3>3, HandedOut
  <2>5. CASE InDoubt(ins) /\ Recover(TRUE)
        BY <1>0, <1>1, <2>2, <2>5, GoesToRecovery
  <2>6. QED BY <1>4, <2>4, <2>5
<1>5. CASE Untouched /\ Return(Failed("errIdempotencyKeyReused"))
  <2>1. Clean'
        BY <1>0, <1>5, CleanStays
  <2>2. "errIdempotencyKeyReused" \in Expected(call.route)
        BY <1>0 DEF Expected, CreateErrors
  <2>3. QED BY <1>0, <1>5, <2>1, <2>2, ErrorReturned DEF StoreEffect
<1>6. CASE Untouched /\ row.state # "none" /\ Show(FALSE)
      BY <1>0, <1>6, RowShown DEF StoreEffect
<1>7. CASE Untouched /\ row.state # "none" /\ Goto("replay")
  <2>1. /\ DOMAIN call' = CallFields
        /\ call'.pc = "replay" /\ call'.route = call.route
        /\ call'.body = call.body /\ call'.command = call.command
        BY <1>0, <1>7 DEF Goto, CallInv, CallFields
  <2>2. "replay" \in Pcs /\ call.route \in RoutesAt("replay")
        BY <1>0 DEF Pcs, RoutesAt
  <2>3. CallInv'
        BY <1>0, <2>1, <2>2, CallGoesOn
  <2>4. Clean'
        BY <1>0, <1>7, CleanStays
  <2>5. row'.state # "none"
        BY <1>7 DEF Untouched
  <2>6. QED BY <1>7, <2>1, <2>3, <2>4, <2>5 DEF StepInv, StoreEffect
<1>8. \/ SigningFails(presignUploadPUT)
      \/ Unavailable /\ Untouched
      \/ /\ doubt = {} /\ row.state = "none"
         /\ \/ Applied(ins) /\ HandOut([Found(ins) EXCEPT !.created = TRUE])
            \/ InDoubt(ins) /\ Recover(TRUE)
      \/ Untouched /\ Return(Failed("errIdempotencyKeyReused"))
      \/ Untouched /\ row.state # "none" /\ Show(FALSE)
      \/ Untouched /\ row.state # "none" /\ Goto("replay")
      BY DEF createOrReplayUpload, Transaction, Commit, store, Untouched, Applied, InDoubt, ins
<1>9. QED BY <1>2, <1>3, <1>4, <1>5, <1>6, <1>7, <1>8

\* The replay, under the lock of the row.
LEMMA ReplayStep ==
  ASSUME HttpInv, authorizeReplay, Observe, late' = late
  PROVE  CallInv' /\ StepInv' /\ StoreEffect
<1>0. /\ call.pc = "replay" /\ call.pc # "idle" /\ call.route = "create"
      /\ RowInv /\ DoubtInv /\ CallInv /\ Clean /\ row.state # "none"
      BY DEF authorizeReplay, HttpInv, CallInv, StepInv, RoutesAt
<1>1. CASE SigningFails(presignUploadPUT)
      BY <1>0, <1>1, SigningReturned
<1>2. CASE Unavailable /\ Untouched
      BY <1>0, <1>2, UnavailableReturned DEF StoreEffect
<1>3. ASSUME doubt = {}, uploadMatchesCommand, uploadAcceptsWrites,
             (Applied(row) /\ HandOut(Found(row))) \/ (InDoubt(row) /\ Recover(FALSE))
      PROVE  CallInv' /\ StepInv' /\ StoreEffect
  <2>1. MayWrite(row)
        BY <1>0, <1>3 DEF MayWrite, Terminal, RowInv, uploadAcceptsWrites, SameDeclaration
  <2>2. StoreEffect
        BY <1>3, <2>1 DEF StoreEffect
  <2>3. RowInv'
        BY <1>0, <2>2, StoreEffectKeeps
  <2>4. CASE Applied(row) /\ HandOut(Found(row))
    <3>1. row' = row /\ ~late' /\ row.state \in {"pending", "finalizing"}
          BY <1>3, <2>4 DEF Applied, uploadAcceptsWrites
    <3>2. /\ DOMAIN Found(row) = ResultFields /\ Found(row).err = None
          /\ Found(row).row = row' /\ ~Found(row).created
          BY <3>1, FoundFields
    <3>3. QED BY <1>0, <2>2, <2>3, <2>4, <3>1, <3>2, HandedOut
  <2>5. CASE InDoubt(row) /\ Recover(FALSE)
    <3>1. SameDeclaration(row, call.command)
          BY <1>3 DEF uploadMatchesCommand, SameDeclaration
    <3>2. QED BY <1>0, <2>2, <2>5, <3>1, GoesToRecovery
  <2>6. QED BY <1>3, <2>4, <2>5
<1>4. CASE Untouched /\ Return(Failed("errIdempotencyKeyReused"))
  <2>1. Clean'
        BY <1>0, <1>4, CleanStays
  <2>2. "errIdempotencyKeyReused" \in Expected(call.route)
        BY <1>0 DEF Expected, CreateErrors
  <2>3. QED BY <1>0, <1>4, <2>1, <2>2, ErrorReturned DEF StoreEffect
<1>5. ASSUME Untouched, Show(FALSE), uploadMatchesCommand
      PROVE  CallInv' /\ StepInv' /\ StoreEffect
  <2>1. row.state # "none"
        BY <1>0
  <2>2. QED BY <1>0, <1>5, <2>1, RowShown DEF StoreEffect
<1>6. \/ SigningFails(presignUploadPUT)
      \/ Unavailable /\ Untouched
      \/ /\ doubt = {} /\ uploadMatchesCommand /\ uploadAcceptsWrites
         /\ (Applied(row) /\ HandOut(Found(row))) \/ (InDoubt(row) /\ Recover(FALSE))
      \/ Untouched /\ Return(Failed("errIdempotencyKeyReused"))
      \/ Untouched /\ Show(FALSE) /\ uploadMatchesCommand
      BY DEF authorizeReplay, Transaction, Commit, store, Untouched, Applied, InDoubt
<1>7. QED BY <1>1, <1>2, <1>3, <1>4, <1>5, <1>6

\* The read-back of a create: a row of another declaration is not of this
\* request, and the row is of its making only when it has its upload id.
LEMMA RecoverStep ==
  ASSUME HttpInv, recoverUnknownUploadCommit, Observe, late' = late
  PROVE  CallInv' /\ StepInv' /\ StoreEffect
<1>0. /\ call.pc = "recover" /\ call.pc # "idle" /\ call.route = "create"
      /\ RowInv /\ DoubtInv /\ CallInv /\ OfCommand
      BY DEF recoverUnknownUploadCommit, HttpInv, CallInv, StepInv, RoutesAt
<1>1. Untouched /\ StoreEffect
      BY DEF recoverUnknownUploadCommit, store, Untouched, StoreEffect
<1>2. RowInv' /\ row' = row /\ own' = own
      BY <1>0, <1>1, StoreEffectKeeps DEF Untouched
<1>3. CASE Unavailable
      BY <1>0, <1>1, <1>3, UnavailableReturned
<1>4. ASSUME row.state # "none", ~uploadMatchesCommand,
             Return(Failed("errIdempotencyKeyReused"))
      PROVE  CallInv' /\ StepInv'
  <2>1. ~SameDeclaration(row, call.command)
        BY <1>4 DEF uploadMatchesCommand, SameDeclaration
  <2>2. ASSUME NEW d \in doubt PROVE ~d.mine
    <3>1. SameDeclaration(d.row, row)
          BY <1>0, <1>4 DEF DoubtInv
    <3>2. ~SameDeclaration(d.row, call.command)
          BY <2>1, <3>1 DEF SameDeclaration
    <3>3. QED BY <1>0, <3>2 DEF OfCommand
  <2>3. Clean
        BY <1>0, <2>1, <2>2 DEF Clean, OfCommand
  <2>4. Clean'
        BY <1>1, <2>3, CleanStays
  <2>5. "errIdempotencyKeyReused" \in Expected(call.route)
        BY <1>0 DEF Expected, CreateErrors
  <2>6. QED BY <1>0, <1>4, <2>4, <2>5, ErrorReturned
<1>5. ASSUME uploadAcceptsWrites, HandOut([Found(row) EXCEPT !.created = CreatedHere])
      PROVE  CallInv' /\ StepInv'
  <2> DEFINE base == [Found(row) EXCEPT !.created = CreatedHere]
  <2>1. /\ DOMAIN base = ResultFields /\ base.err = None /\ base.row = row
        /\ base.created = CreatedHere
        BY FoundFields
  <2>2. row.state \in {"pending", "finalizing"} /\ ~late'
        BY <1>5 DEF uploadAcceptsWrites
  <2>3. CreatedHere => own'
        BY <1>2 DEF CreatedHere
  <2>4. HandOut(base)
        BY <1>5
  <2> HIDE DEF base
  <2>5. QED BY <1>0, <1>2, <2>1, <2>2, <2>3, <2>4, HandedOut
<1>6. ASSUME row.state # "none", Show(CreatedHere) PROVE CallInv' /\ StepInv'
  <2>1. CreatedHere => own
        BY DEF CreatedHere
  <2>2. QED BY <1>0, <1>1, <1>6, <2>1, RowShown
<1>7. \/ Unavailable
      \/ row.state # "none" /\ ~uploadMatchesCommand /\ Return(Failed("errIdempotencyKeyReused"))
      \/ uploadAcceptsWrites /\ HandOut([Found(row) EXCEPT !.created = CreatedHere])
      \/ row.state # "none" /\ Show(CreatedHere)
      BY DEF recoverUnknownUploadCommit
<1>8. QED BY <1>1, <1>3, <1>4, <1>5, <1>6, <1>7

\* The representation of an upload.
LEMMA RepresentStep ==
  ASSUME HttpInv, getUploadByID, Observe, late' = late
  PROVE  CallInv' /\ StepInv' /\ StoreEffect
<1>0. /\ call.pc = "represent" /\ call.pc # "idle"
      /\ RowInv /\ DoubtInv /\ CallInv
      /\ call.route \in {"create", "complete", "status"}
      /\ call.route = "status" => Clean
      /\ call.route # "status" => row.state \in Terminal
      /\ call.route = "create" /\ call.created => own
      BY DEF getUploadByID, HttpInv, CallInv, ReadInv, StepInv, RoutesAt
<1>1. Untouched /\ StoreEffect
      BY DEF getUploadByID, store, Untouched, StoreEffect
<1>2. RowInv' /\ row' = row /\ own' = own
      BY <1>0, <1>1, StoreEffectKeeps DEF Untouched
<1>3. CASE Unavailable
      BY <1>0, <1>1, <1>3, UnavailableReturned
<1>4. ASSUME row.state = "none", Return(Failed("errUploadNotFound"))
      PROVE  CallInv' /\ StepInv'
  <2>1. call.route = "status" /\ Clean
        BY <1>0, <1>4 DEF Terminal
  <2>2. Clean'
        BY <1>1, <2>1, CleanStays
  <2>3. "errUploadNotFound" \in Expected(call.route)
        BY <2>1 DEF Expected, UploadErrors
  <2>4. QED BY <1>0, <1>4, <2>2, <2>3, ErrorReturned
<1>5. ASSUME row.state # "none", Return([Found(row) EXCEPT !.created = call.created])
      PROVE  CallInv' /\ StepInv'
  <2> DEFINE res == [Found(row) EXCEPT !.created = call.created]
  <2>1. /\ res.err = None /\ res.row = row /\ res.created = call.created
        /\ res.transition = None /\ ~res.capability
        BY FoundFields
  <2>2. Return(res)
        BY <1>5
  <2> HIDE DEF res
  <2>3. call.route = "complete" => row.state # "pending"
        BY <1>0 DEF Terminal
  <2>4. QED BY <1>0, <1>2, <1>5, <2>1, <2>2, <2>3, RowReturned
<1>6. QED BY <1>1, <1>3, <1>4, <1>5 DEF getUploadByID

\* The read of GET /uploads/{id}/content.
LEMMA ContentStep ==
  ASSUME HttpInv, authorizeContentRead, Observe, late' = late
  PROVE  CallInv' /\ StepInv' /\ StoreEffect
<1>0. /\ call.pc = "content" /\ call.pc # "idle" /\ call.route = "content"
      /\ RowInv /\ DoubtInv /\ CallInv /\ Clean
      BY DEF authorizeContentRead, HttpInv, CallInv, ReadInv, StepInv, RoutesAt
<1>1. Untouched /\ StoreEffect
      BY DEF authorizeContentRead, store, Untouched, StoreEffect
<1>2. RowInv' /\ row' = row
      BY <1>0, <1>1, StoreEffectKeeps DEF Untouched
<1>3. CASE Unavailable
      BY <1>0, <1>1, <1>3, UnavailableReturned
<1>4. CASE SigningFails(presignContentGET)
      BY <1>0, <1>4, SigningReturned
<1>5. CASE Return(Failed("errUploadNotFound"))
  <2>1. Clean'
        BY <1>0, <1>1, CleanStays
  <2>2. "errUploadNotFound" \in Expected(call.route)
        BY <1>0 DEF Expected, UploadErrors
  <2>3. QED BY <1>0, <1>1, <1>5, <2>1, <2>2, ErrorReturned
<1>6. ASSUME row.state # "none", Return(Found(row)) PROVE CallInv' /\ StepInv'
  <2>1. Found(row).err = None /\ Found(row).row = row
        BY FoundFields
  <2>2. QED BY <1>0, <1>2, <1>6, <2>1, RowReturned
<1>7. QED BY <1>1, <1>3, <1>4, <1>5, <1>6 DEF authorizeContentRead

\* A completion whose commit is in doubt is read back.
LEMMA GoesToReadBack ==
  ASSUME CallInv, call.pc = "attempt", Observe, NEW asked, ReadBack(asked)
  PROVE  CallInv' /\ StepInv'
<1>1. call.route = "complete" /\ call.pc # "idle"
      BY DEF CallInv, RoutesAt
<1>2. /\ DOMAIN call' = CallFields
      /\ call'.pc = "readBack" /\ call'.route = call.route
      /\ call'.body = call.body /\ call'.command = call.command
      BY DEF ReadBack, CallInv, CallFields
<1>3. "readBack" \in Pcs /\ call.route \in RoutesAt("readBack")
      BY <1>1 DEF Pcs, RoutesAt
<1>4. CallInv'
      BY <1>1, <1>2, <1>3, CallGoesOn
<1>5. QED BY <1>2, <1>4 DEF StepInv

\* An attempt to complete an upload.
LEMMA AttemptStep ==
  ASSUME HttpInv, completeUploadAttempt, Observe, late' = late
  PROVE  CallInv' /\ StepInv' /\ StoreEffect
<1> DEFINE moved == [row EXCEPT !.state = IF late THEN "expired" ELSE "finalizing"]
           transition == IF late THEN "pending_to_expired" ELSE "pending_to_finalizing"
           done == [Found(moved) EXCEPT !.transition = transition]
<1>0. /\ call.pc = "attempt" /\ call.pc # "idle" /\ call.route = "complete"
      /\ RowInv /\ DoubtInv /\ CallInv
      /\ call.attempt = 1 => Clean
      BY DEF completeUploadAttempt, HttpInv, CallInv, StepInv, RoutesAt
<1>1. CASE Unavailable /\ Untouched
      BY <1>0, <1>1, UnavailableReturned DEF StoreEffect
<1>2. ASSUME Untouched,
             Return(Failed(IF call.attempt = 1 THEN "errUploadNotFound"
                           ELSE "errServiceUnavailable"))
      PROVE  CallInv' /\ StepInv' /\ StoreEffect
  <2> DEFINE err == IF call.attempt = 1 THEN "errUploadNotFound" ELSE "errServiceUnavailable"
  <2>1. err \in {"errUploadNotFound", "errIdempotencyKeyReused"} => Clean'
        BY <1>0, <1>2, CleanStays
  <2>2. err \in Expected(call.route)
        BY <1>0 DEF Expected, UploadErrors
  <2>3. Return(Failed(err))
        BY <1>2
  <2> HIDE DEF err
  <2>4. QED BY <1>0, <1>2, <2>1, <2>2, <2>3, ErrorReturned DEF StoreEffect
<1>3. ASSUME doubt = {}, row.state = "pending",
             (Applied(moved) /\ Return(done)) \/ (InDoubt(moved) /\ ReadBack(FALSE))
      PROVE  CallInv' /\ StepInv' /\ StoreEffect
  <2>1. /\ RowOK(moved) /\ SameDeclaration(moved, row)
        /\ moved.state = IF late THEN "expired" ELSE "finalizing"
    <3>1. RowOK(row) /\ row.state # "none"
          BY <1>0, <1>3 DEF RowInv
    <3>2. (IF late THEN "expired" ELSE "finalizing") \in States \ {"none", "rejected"}
          BY DEF States
    <3>3. moved.size = row.size /\ moved.type = row.type
          BY <3>1 DEF RowOK, Rows
    <3>4. QED BY <3>1, <3>2, <3>3, RowMoves DEF SameDeclaration
  <2>2. done.err = None /\ done.row = moved /\ done.transition = transition
        BY DEF Found, Failed
  <2> HIDE DEF moved, done
  <2>3. MayWrite(moved)
        BY <1>3, <2>1 DEF MayWrite, Terminal
  <2>4. StoreEffect
        BY <1>3, <2>3 DEF StoreEffect
  <2>5. RowInv'
        BY <1>0, <2>4, StoreEffectKeeps
  <2>6. CASE Applied(moved) /\ Return(done)
    <3>1. row' = moved
          BY <2>6 DEF Applied
    <3>2. QED BY <1>0, <2>1, <2>2, <2>4, <2>5, <2>6, <3>1, RowReturned
  <2>7. CASE InDoubt(moved) /\ ReadBack(FALSE)
        BY <1>0, <2>4, <2>7, GoesToReadBack
  <2>8. QED BY <1>3, <2>6, <2>7
<1>4. ASSUME doubt = {}, row.state = "finalizing",
             (Applied(row) /\ Return(Found(row))) \/ (InDoubt(row) /\ ReadBack(TRUE))
      PROVE  CallInv' /\ StepInv' /\ StoreEffect
  <2>1. MayWrite(row)
        BY <1>0, <1>4 DEF MayWrite, Terminal, RowInv, SameDeclaration
  <2>2. StoreEffect
        BY <1>4, <2>1 DEF StoreEffect
  <2>3. RowInv'
        BY <1>0, <2>2, StoreEffectKeeps
  <2>4. CASE Applied(row) /\ Return(Found(row))
    <3>1. row' = row
          BY <2>4 DEF Applied
    <3>2. Found(row).err = None /\ Found(row).row = row /\ Found(row).transition = None
          BY FoundFields
    <3>3. QED BY <1>0, <1>4, <2>2, <2>3, <2>4, <3>1, <3>2, RowReturned
  <2>5. CASE InDoubt(row) /\ ReadBack(TRUE)
        BY <1>0, <2>2, <2>5, GoesToReadBack
  <2>6. QED BY <1>4, <2>4, <2>5
<1>5. ASSUME Untouched, row.state \in Terminal, Goto("represent")
      PROVE  CallInv' /\ StepInv' /\ StoreEffect
  <2>1. /\ DOMAIN call' = CallFields
        /\ call'.pc = "represent" /\ call'.route = call.route
        /\ call'.body = call.body /\ call'.command = call.command
        BY <1>0, <1>5 DEF Goto, CallInv, CallFields
  <2>2. "represent" \in Pcs /\ call.route \in RoutesAt("represent")
        BY <1>0 DEF Pcs, RoutesAt
  <2>3. CallInv'
        BY <1>0, <2>1, <2>2, CallGoesOn
  <2>4. row'.state \in Terminal
        BY <1>5 DEF Untouched
  <2>5. QED BY <1>0, <1>5, <2>1, <2>3, <2>4 DEF StepInv, StoreEffect
<1>6. \/ Unavailable /\ Untouched
      \/ Untouched /\ Return(Failed(IF call.attempt = 1 THEN "errUploadNotFound"
                                    ELSE "errServiceUnavailable"))
      \/ /\ doubt = {} /\ row.state = "pending"
         /\ (Applied(moved) /\ Return(done)) \/ (InDoubt(moved) /\ ReadBack(FALSE))
      \/ /\ doubt = {} /\ row.state = "finalizing"
         /\ (Applied(row) /\ Return(Found(row))) \/ (InDoubt(row) /\ ReadBack(TRUE))
      \/ Untouched /\ row.state \in Terminal /\ Goto("represent")
      BY DEF completeUploadAttempt, Transaction, Commit, store, Untouched, Applied, InDoubt
<1>7. QED BY <1>1, <1>2, <1>3, <1>4, <1>5, <1>6

\* The read-back of a completion: what it shows is never a pending upload.
LEMMA ReadBackStep ==
  ASSUME HttpInv, recoverCompletionOutcome, Observe, late' = late
  PROVE  CallInv' /\ StepInv' /\ StoreEffect
<1>0. /\ call.pc = "readBack" /\ call.pc # "idle" /\ call.route = "complete"
      /\ RowInv /\ DoubtInv /\ CallInv
      BY DEF recoverCompletionOutcome, HttpInv, CallInv, StepInv, RoutesAt
<1>1. Untouched /\ StoreEffect
      BY DEF recoverCompletionOutcome, store, Untouched, StoreEffect
<1>2. CASE Unavailable
      BY <1>0, <1>1, <1>2, UnavailableReturned
<1>3. ASSUME TRUE \in completionOutcomeIsDurable, Show(FALSE)
      PROVE  CallInv' /\ StepInv'
  <2>1. row.state \notin {"none", "pending"}
        BY <1>3 DEF completionOutcomeIsDurable
  <2>2. QED BY <1>0, <1>1, <1>3, <2>1, RowShown
<1>4. CASE call' = [call EXCEPT !.pc = "attempt", !.attempt = 2]
  <2>1. /\ DOMAIN call' = CallFields
        /\ call'.pc = "attempt" /\ call'.route = call.route /\ call'.attempt = 2
        /\ call'.body = call.body /\ call'.command = call.command
        BY <1>0, <1>4 DEF CallInv, CallFields
  <2>2. "attempt" \in Pcs /\ call.route \in RoutesAt("attempt")
        BY <1>0 DEF Pcs, RoutesAt
  <2>3. CallInv'
        BY <1>0, <2>1, <2>2, CallGoesOn
  <2>4. QED BY <1>1, <2>1, <2>3 DEF StepInv
<1>5. \/ Unavailable
      \/ TRUE \in completionOutcomeIsDurable /\ Show(FALSE)
      \/ call' = [call EXCEPT !.pc = "attempt", !.attempt = 2]
  <2>1. \A durable \in completionOutcomeIsDurable : durable \in BOOLEAN
        BY DEF completionOutcomeIsDurable
  <2>2. QED BY <2>1 DEF recoverCompletionOutcome
<1>6. QED BY <1>1, <1>2, <1>3, <1>4, <1>5

-----------------------------------------------------------------------------
(* The rest of the service, while a request is in progress.                *)

\* A row that moves on leaves what the request knows true: a terminal row stays
\* what it is, declarations do not change, and nothing is written in the name
\* of the request but what it has in doubt.
LEMMA RowMovesOn ==
  ASSUME HttpInv, Observe, call' = call, RowInv', own => own',
         row.state \in Terminal => row' = row,
         row.state # "none" => row'.state # "none",
         Clean => Clean', OfCommand => OfCommand'
  PROVE  CallInv' /\ StepInv'
<1>1. CASE call.pc = "idle"
      BY <1>1 DEF HttpInv, CallInv, StepInv
<1>2. CASE call.pc # "idle"
  <2>1. seen \subseteq seen' /\ CallInv'
        BY <1>2, CallGoesOn DEF HttpInv, CallInv
  <2>2. ASSUME call.pc = "answer"
        PROVE  ResultOK(call.route, call.result)'
    <3>1. ResultOK(call.route, call.result)
          BY <2>2 DEF HttpInv, StepInv
    <3>2. \A state : WasSeen(state) => WasSeen(state)'
          BY <2>1 DEF WasSeen
    <3>3. QED BY <2>1, <3>1, <3>2 DEF ResultOK, RowOK, Expected
  <2>3. StepInv'
        BY <2>2 DEF HttpInv, StepInv
  <2>4. QED BY <2>1, <2>3
<1>3. QED BY <1>1, <1>2

\* A transaction in doubt is applied or rolled back.
LEMMA SettleStep ==
  ASSUME HttpInv, Settle, Observe
  PROVE  RowInv' /\ DoubtInv' /\ CallInv' /\ StepInv' /\ (Clean => Clean')
<1>0. RowInv /\ DoubtInv /\ doubt' = {} /\ call' = call /\ late' = late
      BY DEF HttpInv, Settle
<1>1. DoubtInv'
      BY <1>0 DEF DoubtInv
<1>2. ASSUME NEW d \in doubt, row' = d.row,
             own' = (own \/ (d.mine /\ row.state = "none")), wrote' = (wrote \/ d.mine)
      PROVE  RowInv' /\ CallInv' /\ StepInv' /\ (Clean => Clean')
  <2>1. /\ RowOK(d.row) /\ d.row.state # "none" /\ row.state \notin Terminal
        /\ row.state # "none" => SameDeclaration(d.row, row)
        BY <1>0 DEF DoubtInv
  <2>2. RowInv'
        BY <1>0, <1>2, <2>1 DEF RowInv, RowOK
  <2>3. Clean => Clean'
        BY <1>0, <1>2 DEF Clean
  <2>4. OfCommand => OfCommand'
    <3> SUFFICES ASSUME OfCommand PROVE OfCommand'
        OBVIOUS
    <3>1. wrote => SameDeclaration(d.row, call.command)
          BY <1>0, <2>1 DEF OfCommand, RowInv, SameDeclaration
    <3>2. d.mine => SameDeclaration(d.row, call.command)
          BY DEF OfCommand
    <3>3. wrote' => wrote \/ d.mine
          BY <1>2
    <3>4. wrote' => SameDeclaration(row', call'.command)
          BY <1>0, <1>2, <3>1, <3>2, <3>3
    <3>5. QED BY <1>0, <3>4 DEF OfCommand, SameDeclaration
  <2>5. own => own'
        BY <1>2
  <2>6. row'.state # "none"
        BY <1>2, <2>1
  <2>7. QED BY <1>0, <2>1, <2>2, <2>3, <2>4, <2>5, <2>6, RowMovesOn
<1>3. ASSUME row' = row, own' = own, wrote' = wrote
      PROVE  RowInv' /\ CallInv' /\ StepInv' /\ (Clean => Clean')
  <2>1. RowInv'
        BY <1>0, <1>3 DEF RowInv, RowOK
  <2>2. (Clean => Clean') /\ (OfCommand => OfCommand')
        BY <1>0, <1>3 DEF Clean, OfCommand, SameDeclaration
  <2>3. QED BY <1>0, <1>3, <2>1, <2>2, RowMovesOn
<1>4. QED BY <1>1, <1>2, <1>3 DEF Settle

\* The row that another part of the service leaves.
LEMMA MovesOnWell ==
  ASSUME RowInv, MovesOn
  PROVE  /\ RowOK(row)' /\ row'.state # "none" /\ row.state \notin Terminal
         /\ row.state # "none" => SameDeclaration(row', row)
<1>0. RowOK(row)
      BY DEF RowInv
<1>1. ASSUME row.state = "none",
             NEW size \in 1..MaxUploadSize, NEW type \in ImageTypes,
             row' = Inserted([size |-> size, type |-> type])
      PROVE  RowOK(row)' /\ row'.state # "none" /\ row.state \notin Terminal
  <2> DEFINE command == [size |-> size, type |-> type]
  <2>1. Forwards(command)
        BY DEF Forwards
  <2>2. RowOK(Inserted(command)) /\ Inserted(command).state = "pending"
        BY <2>1, InsertedRow
  <2>3. QED BY <1>1, <2>2 DEF RowOK, Terminal
<1>2. ASSUME row.state \in {"pending", "finalizing"},
             NEW state \in States \ {"none", "rejected"}, row' = [row EXCEPT !.state = state]
      PROVE  /\ RowOK(row)' /\ row'.state # "none" /\ row.state \notin Terminal
             /\ SameDeclaration(row', row)
  <2>1. RowOK([row EXCEPT !.state = state]) /\ [row EXCEPT !.state = state].state = state
        BY <1>0, <1>2, RowMoves
  <2>2. row'.size = row.size /\ row'.type = row.type
        BY <1>0, <1>2 DEF RowOK, Rows
  <2>3. RowOK(row')
        BY <1>2, <2>1
  <2>4. QED BY <1>2, <2>1, <2>2, <2>3 DEF RowOK, SameDeclaration, Terminal
<1>3. ASSUME row.state = "finalizing", NEW r \in StorableRejections,
             row' = [row EXCEPT !.state = "rejected", !.class = r.class, !.reason = r.reason]
      PROVE  /\ RowOK(row)' /\ row'.state # "none" /\ row.state \notin Terminal
             /\ SameDeclaration(row', row)
  <2>1. /\ publicFailureCode(r.class, r.reason) \in PublicCodes
        /\ r.class \in {"invalid_input", "internal_invariant"}
        /\ r.reason \in InputReasons \cup InvariantReasons
        BY RejectionsHaveCodes
  <2>2. /\ row \in Rows /\ row.size \in 1..MaxUploadSize /\ row.type \in ImageTypes
        BY <1>0, <1>3 DEF RowOK
  <2>3. /\ row'.state = "rejected" /\ row'.size = row.size /\ row'.type = row.type
        /\ row'.class = r.class /\ row'.reason = r.reason
        /\ row' \in Rows
        BY <1>3, <2>1, <2>2 DEF Rows, States
  <2>4. QED BY <1>3, <2>1, <2>2, <2>3 DEF RowOK, SameDeclaration, Terminal
<1>4. {"ready", "expired", "finalizing"} \subseteq States \ {"none", "rejected"}
      BY DEF States
<1>5. CASE /\ row.state = "none"
           /\ \E size \in 1..MaxUploadSize, type \in ImageTypes :
                row' = Inserted([size |-> size, type |-> type])
      BY <1>1, <1>5
<1>6. CASE /\ row.state = "pending"
           /\ row' = [row EXCEPT !.state = IF late THEN "expired" ELSE "finalizing"]
      BY <1>2, <1>4, <1>6
<1>7. CASE /\ row.state = "finalizing"
           /\ \/ row' = [row EXCEPT !.state = "ready"]
              \/ late /\ row' = [row EXCEPT !.state = "expired"]
      BY <1>2, <1>4, <1>7
<1>8. CASE /\ row.state = "finalizing"
           /\ \E r \in StorableRejections :
                row' = [row EXCEPT !.state = "rejected", !.class = r.class, !.reason = r.reason]
      BY <1>3, <1>8
<1>9. QED BY <1>5, <1>6, <1>7, <1>8 DEF MovesOn

\* Other requests, the loops, the clock and a shutdown.
LEMMA BackgroundStep ==
  ASSUME HttpInv, Background, Observe
  PROVE  RowInv' /\ DoubtInv' /\ CallInv' /\ StepInv' /\ (Clean => Clean')
<1>0. /\ RowInv /\ DoubtInv
      /\ own' = own /\ wrote' = wrote /\ doubt' = doubt /\ call' = call
      BY DEF HttpInv, Background, store
<1>1. Clean => Clean'
      BY <1>0 DEF Clean
<1>2. ASSUME doubt = {}, MovesOn, late' = late
      PROVE  RowInv' /\ DoubtInv' /\ CallInv' /\ StepInv'
  <2>1. /\ RowOK(row)' /\ row'.state # "none" /\ row.state \notin Terminal
        /\ row.state # "none" => SameDeclaration(row', row)
        BY <1>0, <1>2, MovesOnWell
  <2>2. RowInv' /\ DoubtInv'
        BY <1>0, <1>2, <2>1 DEF RowInv, DoubtInv
  <2>3. OfCommand => OfCommand'
        BY <1>0, <1>2, <2>1 DEF OfCommand, RowInv, SameDeclaration
  <2>4. QED BY <1>0, <1>1, <2>1, <2>2, <2>3, RowMovesOn
<1>3. ASSUME row' = row, late' \in BOOLEAN, row.state = "none" => late' = FALSE
      PROVE  RowInv' /\ DoubtInv' /\ CallInv' /\ StepInv'
  <2>1. RowInv' /\ DoubtInv'
        BY <1>0, <1>3 DEF RowInv, DoubtInv, RowOK, SameDeclaration
  <2>2. OfCommand => OfCommand'
        BY <1>0, <1>3 DEF OfCommand, SameDeclaration
  <2>3. QED BY <1>0, <1>1, <1>3, <2>1, <2>2, RowMovesOn
<1>4. \/ doubt = {} /\ MovesOn /\ late' = late
      \/ row' = row /\ row.state # "none" /\ late' = TRUE
      \/ row' = row /\ late' = late
      BY DEF Background, store
<1>5. QED BY <1>0, <1>1, <1>2, <1>3, <1>4 DEF RowInv

-----------------------------------------------------------------------------
(* Answers.                                                                *)

Fields == {"route", "status", "code", "state", "capability", "signing", "body"}

\* What an answer says is true of the row.
Truthful(ans) ==
  /\ ans.status = 201 => own /\ row.state # "none"
  /\ ans.state # "none" => WasSeen(ans.state)
  /\ ans.state \in Terminal => row.state = ans.state
  /\ ans.status = 202 => ans.state = "finalizing"
  /\ ans.status = 307 => ans.state = "ready"
  /\ ans.status = 409 => ans.state \in {"pending", "finalizing"}
  /\ ans.status = 410 => ans.state = "expired"
  /\ ans.route = "complete" /\ ans.status = 200 => ans.state \in Terminal
  /\ ans.capability /\ ans.route = "create" =>
       ans.state \in {"pending", "finalizing"} /\ <<ans.state, FALSE>> \in seen

\* An answer of a handler: true, with a blame only where the request has left
\* no trace, and without a defensive branch.
Fair(ans) ==
  /\ DOMAIN ans = Fields
  /\ Truthful(ans)
  /\ ans.status \in 400..499 => Clean
  /\ ans.code = "internal_error" => ans.signing
  /\ ans.code # "invalid_request"

\* The errors of the store, as a handler answers them.
LEMMA ErrorFair ==
  ASSUME NEW route, NEW err, err \in Expected(route) \cup SigningErrors,
         err \in {"errIdempotencyKeyReused", "errUploadNotFound"} => Clean
  PROVE  Fair(ErrorReply(route, Expected(route), err))
<1> DEFINE ans == ErrorReply(route, Expected(route), err)
<1>1. err \in {"errIdempotencyKeyReused", "errUploadNotFound", "errServiceUnavailable"}
        \cup SigningErrors
      BY DEF Expected, CreateErrors, UploadErrors
<1>2. \/ Clean /\ ans = Reply(route, 422, "idempotency_key_reused")
      \/ Clean /\ ans = Reply(route, 404, "upload_not_found")
      \/ ans = Reply(route, 503, "service_unavailable")
      \/ /\ err \in SigningErrors
         /\ ans = [Reply(route, 500, "internal_error") EXCEPT !.signing = err \in SigningErrors]
  <2>1. CASE err \in Expected(route)
    <3>1. err \in {"errIdempotencyKeyReused", "errUploadNotFound", "errServiceUnavailable"}
          BY <2>1 DEF Expected, CreateErrors, UploadErrors
    <3>2. QED BY <2>1, <3>1 DEF ErrorReply
  <2>2. CASE err \notin Expected(route)
    <3>1. err \in SigningErrors
          BY <2>2
    <3>2. QED BY <2>2, <3>1 DEF ErrorReply
  <2>3. QED BY <2>1, <2>2
<1> HIDE DEF ans
<1>3. /\ DOMAIN ans = Fields /\ ans.state = "none" /\ ~ans.capability
      /\ ans.status \in {422, 404, 503, 500} /\ (ans.status \in {422, 404} => Clean)
      /\ ans.code # "invalid_request"
      /\ ans.code = "internal_error" => ans.signing
  <2>1. CASE /\ err \in SigningErrors
             /\ ans = [Reply(route, 500, "internal_error")
                        EXCEPT !.signing = err \in SigningErrors]
    <3> DEFINE signing == err \in SigningErrors
    <3>1. signing
          BY <2>1
    <3>2. ans = [Reply(route, 500, "internal_error") EXCEPT !.signing = signing]
          BY <2>1
    <3> HIDE DEF signing
    <3>3. QED BY <3>1, <3>2 DEF Reply, Fields
  <2>2. CASE \/ Clean /\ ans = Reply(route, 422, "idempotency_key_reused")
             \/ Clean /\ ans = Reply(route, 404, "upload_not_found")
             \/ ans = Reply(route, 503, "service_unavailable")
        BY <2>2 DEF Reply, Fields
  <2>3. QED BY <1>2, <2>1, <2>2
<1>4. Fair(ans)
      BY <1>3 DEF Fair, Truthful, Terminal
<1>5. QED BY <1>4 DEF ans

\* The fields of a representation.
LEMMA ShownFields ==
  ASSUME NEW route, NEW status, NEW res
  PROVE  LET ans == Shown(route, status, res)
         IN /\ DOMAIN ans = Fields
            /\ ans.route = route /\ ans.status = status /\ ans.code = None
            /\ ans.state = res.row.state /\ ans.capability = res.capability
BY DEF Shown, Reply, Fields

\* POST /uploads.
LEMMA CreateFair ==
  ASSUME RowInv, NEW res, ResultOK("create", res)
  PROVE  Fair(serveCreateUpload(res))
<1>1. CASE res.err # None
  <2>1. serveCreateUpload(res) = ErrorReply("create", Expected("create"), res.err)
        BY <1>1 DEF serveCreateUpload, Expected
  <2>2. res.err \in Expected("create") \cup SigningErrors
        BY <1>1 DEF ResultOK
  <2>3. res.err \in {"errIdempotencyKeyReused", "errUploadNotFound"} => Clean
        BY DEF ResultOK
  <2>4. QED BY <2>1, <2>2, <2>3, ErrorFair
<1>2. CASE res.err = None
  <2> DEFINE status == IF res.created THEN 201 ELSE 200
             ans == Shown("create", status, res)
  <2>1. /\ DOMAIN ans = Fields
        /\ ans.route = "create" /\ ans.status = status /\ ans.code = None
        /\ ans.state = res.row.state /\ ans.capability = res.capability
        BY ShownFields
  <2>2. serveCreateUpload(res) = ans
        BY <1>2 DEF serveCreateUpload
  <2>3. status \in {200, 201} /\ (status = 201 => res.created)
        OBVIOUS
  <2> HIDE DEF ans, status
  <2>4. Truthful(ans)
        BY <1>2, <2>1, <2>3 DEF Truthful, ResultOK, RowInv
  <2>5. QED BY <2>1, <2>2, <2>3, <2>4, NoneIsNoName DEF Fair
<1>3. QED BY <1>1, <1>2

\* POST /uploads/{id}/complete.
LEMMA CompleteFair ==
  ASSUME NEW res, ResultOK("complete", res)
  PROVE  Fair(serveCompleteUpload(res))
<1>1. CASE res.err # None
  <2>1. serveCompleteUpload(res) = ErrorReply("complete", Expected("complete"), res.err)
        BY <1>1 DEF serveCompleteUpload, Expected
  <2>2. res.err \in Expected("complete") \cup SigningErrors
        BY <1>1 DEF ResultOK
  <2>3. res.err \in {"errIdempotencyKeyReused", "errUploadNotFound"} => Clean
        BY DEF ResultOK
  <2>4. QED BY <2>1, <2>2, <2>3, ErrorFair
<1>2. CASE res.err = None
  <2>1. /\ res.row.state \in States \ {"none", "pending"}
        /\ \/ res.transition = None
           \/ res.transition = "pending_to_finalizing" /\ res.row.state = "finalizing"
           \/ res.transition = "pending_to_expired" /\ res.row.state = "expired"
        BY <1>2 DEF ResultOK, RowOK, Rows
  <2>2. \/ res.row.state = "finalizing" /\ serveCompleteUpload(res) = Shown("complete", 202, res)
        \/ res.row.state \in Terminal /\ serveCompleteUpload(res) = Shown("complete", 200, res)
        BY <1>2, <2>1 DEF serveCompleteUpload, Terminal, States
  <2>3. PICK status \in {200, 202} :
          /\ serveCompleteUpload(res) = Shown("complete", status, res)
          /\ status = 202 => res.row.state = "finalizing"
          /\ status = 200 => res.row.state \in Terminal
        BY <2>2
  <2> DEFINE ans == Shown("complete", status, res)
  <2>4. /\ DOMAIN ans = Fields
        /\ ans.route = "complete" /\ ans.status = status /\ ans.code = None
        /\ ans.state = res.row.state
        BY ShownFields
  <2> HIDE DEF ans
  <2>5. Truthful(ans)
        BY <1>2, <2>3, <2>4 DEF Truthful, ResultOK
  <2>6. Fair(ans)
        BY <2>4, <2>5, NoneIsNoName DEF Fair
  <2>7. QED BY <2>3, <2>6 DEF ans
<1>3. QED BY <1>1, <1>2

\* GET /uploads/{id}.
LEMMA StatusFair ==
  ASSUME NEW res, ResultOK("status", res)
  PROVE  Fair(serveGetUpload(res))
<1>1. CASE res.err # None
  <2>1. serveGetUpload(res) = ErrorReply("status", Expected("status"), res.err)
        BY <1>1 DEF serveGetUpload, Expected
  <2>2. res.err \in Expected("status") \cup SigningErrors
        BY <1>1 DEF ResultOK
  <2>3. res.err \in {"errIdempotencyKeyReused", "errUploadNotFound"} => Clean
        BY DEF ResultOK
  <2>4. QED BY <2>1, <2>2, <2>3, ErrorFair
<1>2. CASE res.err = None
  <2> DEFINE ans == Shown("status", 200, res)
  <2>1. serveGetUpload(res) = ans
        BY <1>2 DEF serveGetUpload
  <2>2. /\ DOMAIN ans = Fields
        /\ ans.route = "status" /\ ans.status = 200 /\ ans.code = None
        /\ ans.state = res.row.state
        BY ShownFields
  <2> HIDE DEF ans
  <2>3. Truthful(ans)
        BY <1>2, <2>2 DEF Truthful, ResultOK
  <2>4. QED BY <2>1, <2>2, <2>3, NoneIsNoName DEF Fair
<1>3. QED BY <1>1, <1>2

\* GET /uploads/{id}/content.
LEMMA ContentFair ==
  ASSUME NEW res, ResultOK("content", res), Clean
  PROVE  Fair(serveGetContent(res))
<1>1. CASE res.err # None
  <2>1. serveGetContent(res) = ErrorReply("content", Expected("content"), res.err)
        BY <1>1 DEF serveGetContent, Expected
  <2>2. res.err \in Expected("content") \cup SigningErrors
        BY <1>1 DEF ResultOK
  <2>3. res.err \in {"errIdempotencyKeyReused", "errUploadNotFound"} => Clean
        BY DEF ResultOK
  <2>4. QED BY <2>1, <2>2, <2>3, ErrorFair
<1>2. CASE res.err = None
  <2>0. /\ RowOK(res.row) /\ res.row.state \in States \ {"none"} /\ WasSeen(res.row.state)
        /\ res.row.state \in Terminal => row.state = res.row.state
        BY <1>2 DEF ResultOK, RowOK, Rows
  <2>1. CASE res.row.state = "ready"
    <3> DEFINE ans == [Shown("content", 307, res) EXCEPT !.capability = TRUE]
    <3>1. serveGetContent(res) = ans
          BY <1>2, <2>1 DEF serveGetContent
    <3>2. /\ DOMAIN ans = Fields /\ ans.route = "content" /\ ans.status = 307
          /\ ans.code = None /\ ans.state = res.row.state
          BY DEF Shown, Reply, Fields
    <3> HIDE DEF ans
    <3>3. Truthful(ans)
          BY <2>0, <2>1, <3>2 DEF Truthful
    <3>4. QED BY <3>1, <3>2, <3>3, NoneIsNoName DEF Fair
  <2>2. ASSUME NEW status \in {409, 410, 422, 500}, NEW code,
               code \in PublicCodes \cup {"upload_not_ready", "upload_expired"},
               status = 409 => res.row.state \in {"pending", "finalizing"},
               status = 410 => res.row.state = "expired"
        PROVE  Fair(RowError(res.row, status, code))
    <3> DEFINE ans == RowError(res.row, status, code)
    <3>1. /\ DOMAIN ans = Fields /\ ans.route = "content" /\ ans.status = status
          /\ ans.state = res.row.state /\ ~ans.capability /\ ans.code = code
          BY DEF RowError, Reply, Fields
    <3> HIDE DEF ans
    <3>2. Truthful(ans)
          BY <2>0, <2>2, <3>1 DEF Truthful
    <3>3. Fair(ans)
          BY <2>2, <3>1, <3>2 DEF Fair, PublicCodes
    <3>4. QED BY <3>3 DEF ans
  <2>3. CASE res.row.state \in {"pending", "finalizing"}
    <3>1. serveGetContent(res) = RowError(res.row, 409, "upload_not_ready")
          BY <1>2, <2>3 DEF serveGetContent
    <3>2. QED BY <2>2, <2>3, <3>1
  <2>4. CASE res.row.state = "expired"
    <3>1. serveGetContent(res) = RowError(res.row, 410, "upload_expired")
          BY <1>2, <2>4 DEF serveGetContent
    <3>2. QED BY <2>2, <2>4, <3>1
  <2>5. CASE res.row.state = "rejected"
    <3> DEFINE code == publicFailureCode(res.row.class, res.row.reason)
    <3>1. code \in PublicCodes
          BY <2>0, <2>5 DEF RowOK
    <3>2. serveGetContent(res) = RejectedContent(res.row)
          BY <1>2, <2>5 DEF serveGetContent
    <3>3. \/ RejectedContent(res.row) = RowError(res.row, 422, code)
          \/ RejectedContent(res.row) = RowError(res.row, 500, code)
          BY <3>1 DEF RejectedContent, PublicCodes
    <3> HIDE DEF code
    <3>4. QED BY <2>2, <3>1, <3>2, <3>3
  <2>6. QED BY <2>0, <2>1, <2>3, <2>4, <2>5 DEF States
<1>3. QED BY <1>1, <1>2

(* The body of POST /uploads, with any number of members.                  *)

\* A set of natural numbers has a least element.
LEMMA Least ==
  ASSUME NEW T, T \subseteq Nat, T # {}
  PROVE  \E m \in T : \A n \in T : m <= n
<1>1. IsWellFoundedOn(OpToRel(<, Nat), Nat)
      BY NatLessThanWellFounded
<1>2. PICK m \in T : \A n \in T : ~(<<n, m>> \in OpToRel(<, Nat))
      BY <1>1, WFMin
<1>3. \A n \in T : n < m => <<n, m>> \in OpToRel(<, Nat)
      BY <1>2 DEF OpToRel
<1>4. \A n \in T : ~(n < m)
      BY <1>2, <1>3
<1>5. m \in Nat /\ \A n \in T : n \in Nat
      BY <1>2
<1>6. \A n \in T : m <= n
      BY <1>4, <1>5
<1>7. QED BY <1>2, <1>6

\* The command before the first member.
Undecoded(body) == [ok |-> body.object, seen |-> {}, size |-> 0, type |-> None]

\* f gives the commands after the first m members of a body.
DecodesTo(body, m, f) ==
  f = [n \in 0..m |-> IF n = 0 THEN Undecoded(body)
                      ELSE decodeMember(f[n - 1], body.members[n])]

\* The commands exist for any number of members: from those after m - 1 members
\* come those after m.
LEMMA DecodingExists ==
  ASSUME NEW body, NEW len \in Nat
  PROVE  \E f : DecodesTo(body, len, f)
<1> DEFINE Stuck == {m \in Nat : ~\E f : DecodesTo(body, m, f)}
<1>1. Stuck = {}
  <2> SUFFICES ASSUME Stuck # {} PROVE FALSE
      OBVIOUS
  <2>1. Stuck \subseteq Nat
        OBVIOUS
  <2> HIDE DEF Stuck
  <2>2. PICK m \in Stuck : \A n \in Stuck : m <= n
        BY <2>1, Least
  <2>3. m \in Nat /\ ~\E f : DecodesTo(body, m, f)
        BY <2>2 DEF Stuck
  <2>4. m # 0
    <3>1. DecodesTo(body, 0, [n \in 0..0 |-> Undecoded(body)])
          BY DEF DecodesTo
    <3>2. QED BY <2>3, <3>1
  <2>5. m - 1 \in Nat /\ m - 1 \notin Stuck
    <3>1. m - 1 \in Nat /\ ~(m <= m - 1)
          BY <2>3, <2>4
    <3>2. QED BY <2>2, <3>1
  <2>6. PICK f : DecodesTo(body, m - 1, f)
        BY <2>5 DEF Stuck
  <2> DEFINE last == decodeMember(f[m - 1], body.members[m])
             g == [n \in 0..m |-> IF n = m THEN last ELSE f[n]]
  <2>7. \A n \in 0..(m - 1) : f[n] = IF n = 0 THEN Undecoded(body)
                                     ELSE decodeMember(f[n - 1], body.members[n])
        BY <2>6 DEF DecodesTo
  <2>8. ASSUME NEW n \in 0..m
        PROVE  g[n] = IF n = 0 THEN Undecoded(body)
                      ELSE decodeMember(g[n - 1], body.members[n])
    <3>1. CASE n = m
      <4>1. g[n] = last /\ g[n - 1] = f[m - 1]
            BY <2>3, <2>4, <3>1
      <4>2. QED BY <2>4, <3>1, <4>1
    <3>2. CASE n # m
      <4>1. n \in 0..(m - 1) /\ g[n] = f[n] /\ (n # 0 => g[n - 1] = f[n - 1])
            BY <2>3, <3>2
      <4>2. QED BY <2>7, <4>1
    <3>3. QED BY <3>1, <3>2
  <2>9. DecodesTo(body, m, g)
        BY <2>8 DEF DecodesTo
  <2>10. QED BY <2>3, <2>9
<1>2. QED BY <1>1

\* Each command comes from the one before and the next member.
LEMMA DecodingSteps ==
  ASSUME NEW body, Len(body.members) \in Nat
  PROVE  /\ decodeMembers(body)[0] = Undecoded(body)
         /\ \A n \in 1..Len(body.members) :
              decodeMembers(body)[n] = decodeMember(decodeMembers(body)[n - 1], body.members[n])
<1> DEFINE len == Len(body.members)
           f == decodeMembers(body)
<1>1. f = CHOOSE g : DecodesTo(body, len, g)
      BY DEF decodeMembers, DecodesTo, Undecoded
<1>2. DecodesTo(body, len, f)
      BY <1>1, DecodingExists
<1> HIDE DEF f
<1>3. \A n \in 0..len : f[n] = IF n = 0 THEN Undecoded(body)
                               ELSE decodeMember(f[n - 1], body.members[n])
      BY <1>2 DEF DecodesTo
<1>4. QED BY <1>3 DEF f

\* Members have one of three names, and a value of their type or not.
LEMMA MembersNamed ==
  ASSUME NEW body \in Bodies
  PROVE  /\ Len(body.members) \in Nat
         /\ body.object \in BOOLEAN
         /\ \A i \in 1..Len(body.members) :
              /\ body.members[i].name \in {"size_bytes", "content_type", "other"}
              /\ body.members[i].ok \in BOOLEAN
<1>1. ASSUME NEW m \in Members
      PROVE  m.name \in {"size_bytes", "content_type", "other"} /\ m.ok \in BOOLEAN
  <2> DEFINE names == {"size_bytes", "content_type", "other"}
  <2>1. ASSUME NEW s \in names, NEW n, NEW type
        PROVE  /\ Typed(s, n, type).name = s /\ Typed(s, n, type).ok = TRUE
               /\ Mistyped(s).name = s /\ Mistyped(s).ok = FALSE
        BY DEF Typed, Mistyped
  <2>2. \E s \in names : (\E n, type : m = Typed(s, n, type)) \/ m = Mistyped(s)
        BY DEF Members
  <2>3. QED BY <2>1, <2>2
<1>2. CASE body = [object |-> FALSE, members |-> <<>>, end |-> "closed"]
      BY <1>2
<1>3. CASE body \in [object : {TRUE}, members : BoundedSeq(Members, MaxMembers),
                     end : {"closed", "trailing", "truncated"}]
  <2>1. body.object = TRUE /\ body.members \in BoundedSeq(Members, MaxMembers)
        BY <1>3
  <2>2. PICK n \in 0..MaxMembers : body.members \in [1..n -> Members]
        BY <2>1 DEF BoundedSeq, SeqOf
  <2>3. n \in Nat /\ Len(body.members) = n
        BY <2>2, HttpAssumption
  <2>4. QED BY <1>1, <2>1, <2>2, <2>3
<1>4. QED BY <1>2, <1>3 DEF Bodies

\* The members so far have known names, each of them once, and their types.
Plain(body, n) ==
  /\ body.object
  /\ \A i \in 1..n : body.members[i].ok /\ body.members[i].name # "other"
  /\ \A i \in 1..n, j \in 1..n : i < j => body.members[i].name # body.members[j].name

\* What a command says of the members it is made from.
LEMMA CommandTells ==
  ASSUME NEW body \in Bodies, NEW n \in 0..Len(body.members)
  PROVE  /\ \A s : s \in decodeMembers(body)[n].seen <=>
                     \E i \in 1..n : body.members[i].name = s
         /\ decodeMembers(body)[n].ok <=> Plain(body, n)
<1> DEFINE len == Len(body.members)
           command(m) == decodeMembers(body)[m]
           member(m) == body.members[m]
           Seen(m) == \A s : s \in command(m).seen <=> \E i \in 1..m : member(i).name = s
           Told(m) == Seen(m) /\ (command(m).ok <=> Plain(body, m))
           Untold == {m \in 0..len : ~Told(m)}
<1>0. len \in Nat
      BY MembersNamed
<1>1. command(0) = Undecoded(body)
      BY <1>0, DecodingSteps
<1>2. \A m \in 1..len : command(m) = decodeMember(command(m - 1), member(m))
      BY <1>0, DecodingSteps
<1> HIDE DEF command
<1>3. Untold = {}
  <2> SUFFICES ASSUME Untold # {} PROVE FALSE
      OBVIOUS
  <2>1. Untold \subseteq Nat
        BY <1>0
  <2> HIDE DEF Untold
  <2>2. PICK m \in Untold : \A k \in Untold : m <= k
        BY <2>1, Least
  <2>3. m \in 0..len /\ ~Told(m)
        BY <2>2 DEF Untold
  <2> HIDE DEF Told
  <2>4. m # 0
    <3>1. command(0).seen = {} /\ command(0).ok = body.object
          BY <1>1 DEF Undecoded
    <3>2. Seen(0)
          BY <3>1
    <3>3. Plain(body, 0) <=> body.object
          BY DEF Plain
    <3>4. Told(0)
          BY <3>1, <3>2, <3>3 DEF Told
    <3>5. QED BY <2>3, <3>4
  <2>5. m \in 1..len /\ m - 1 \in 0..len /\ m - 1 \notin Untold
    <3>1. m \in 1..len /\ m - 1 \in 0..len /\ ~(m <= m - 1)
          BY <1>0, <2>3, <2>4
    <3>2. QED BY <2>2, <3>1
  <2>6. Told(m - 1)
        BY <2>5 DEF Untold
  <2>7. /\ command(m).seen = command(m - 1).seen \cup {member(m).name}
        /\ command(m).ok <=> /\ command(m - 1).ok /\ member(m).ok /\ member(m).name # "other"
                             /\ member(m).name \notin command(m - 1).seen
    <3>1. ASSUME NEW c, NEW d
          PROVE  /\ decodeMember(c, d).seen = c.seen \cup {d.name}
                 /\ decodeMember(c, d).ok <=> /\ c.ok /\ d.ok /\ d.name # "other"
                                             /\ d.name \notin c.seen
          BY DEF decodeMember
    <3>2. command(m) = decodeMember(command(m - 1), member(m))
          BY <1>2, <2>5
    <3>3. QED BY <3>1, <3>2
  <2>8. \A i : i \in 1..m <=> i \in 1..(m - 1) \/ i = m
        BY <1>0, <2>5
  <2>9. Seen(m)
        BY <2>6, <2>7, <2>8 DEF Told
  <2>10. Plain(body, m) <=>
           /\ Plain(body, m - 1) /\ member(m).ok /\ member(m).name # "other"
           /\ \A i \in 1..(m - 1) : member(i).name # member(m).name
    <3>1. \A i \in 1..m, j \in 1..m : i < j => i \in 1..(m - 1)
          BY <1>0, <2>5
    <3>2. \A i \in 1..(m - 1) : i < m /\ ~(m < i) /\ ~(m < m)
          BY <1>0, <2>5
    <3>3. QED BY <2>8, <3>1, <3>2 DEF Plain
  <2>11. Told(m)
        BY <2>6, <2>7, <2>9, <2>10 DEF Told
  <2>12. QED BY <2>3, <2>11
<1>4. n \in 0..len /\ n \notin Untold
      BY <1>3
<1>5. Told(n)
      BY <1>4
<1>6. QED BY <1>5 DEF command

\* The decoder takes a body exactly when it is well formed.
LEMMA DecoderExact ==
  ASSUME NEW body \in Bodies
  PROVE  decodeCreateUploadBody(body).ok <=> WellFormed(body)
<1> DEFINE len == Len(body.members)
           command == decodeMembers(body)[len]
           name(i) == body.members[i].name
           ok == /\ command.ok /\ body.end = "closed"
                 /\ {"size_bytes", "content_type"} \subseteq command.seen
<1>0. /\ len \in Nat
      /\ \A i \in 1..len : name(i) \in {"size_bytes", "content_type", "other"}
      BY MembersNamed
<1>1. /\ \A s : s \in command.seen <=> \E i \in 1..len : name(i) = s
      /\ command.ok <=> Plain(body, len)
      BY <1>0, CommandTells
<1>2. decodeCreateUploadBody(body).ok <=> ok
      BY DEF decodeCreateUploadBody
<1> HIDE DEF command
<1>3. ASSUME ok PROVE WellFormed(body)
  <2>1. PICK i \in 1..len : name(i) = "size_bytes"
        BY <1>1, <1>3
  <2>2. PICK j \in 1..len : name(j) = "content_type"
        BY <1>1, <1>3
  <2>3. Plain(body, len)
        BY <1>1, <1>3
  <2>4. \A k \in 1..len : k = i \/ k = j
    <3> SUFFICES ASSUME NEW k \in 1..len, k # i, k # j PROVE FALSE
        OBVIOUS
    <3>1. (i < k \/ k < i) /\ (j < k \/ k < j)
          BY <1>0
    <3>2. name(k) # name(i) /\ name(k) # name(j)
          BY <2>3, <3>1 DEF Plain
    <3>3. name(k) # "other"
          BY <2>3 DEF Plain
    <3>4. QED BY <1>0, <2>1, <2>2, <3>2, <3>3
  <2>5. i # j
        BY <2>1, <2>2
  <2>6. len = 2
    <3>1. len >= 2
          BY <1>0, <2>5
    <3>2. ~(len >= 3)
      <4> SUFFICES ASSUME len >= 3 PROVE FALSE
          OBVIOUS
      <4>1. 1 \in 1..len /\ 2 \in 1..len /\ 3 \in 1..len
            BY <1>0
      <4>2. QED BY <2>4, <4>1
    <3>3. \A l \in Nat : l >= 2 /\ ~(l >= 3) => l = 2
          OBVIOUS
    <3> HIDE DEF len
    <3>4. QED BY <1>0, <3>1, <3>2, <3>3
  <2>7. {name(k) : k \in 1..2} = {"size_bytes", "content_type"}
    <3>1. {name(k) : k \in 1..2} \subseteq {"size_bytes", "content_type"}
          BY <2>1, <2>2, <2>4, <2>6
    <3>2. i \in 1..2 /\ j \in 1..2
          BY <2>6
    <3>3. QED BY <2>1, <2>2, <3>1, <3>2
  <2>8. body.object /\ \A k \in 1..2 : body.members[k].ok
        BY <2>3, <2>6 DEF Plain
  <2>9. QED BY <1>3, <2>6, <2>7, <2>8 DEF WellFormed
<1>4. ASSUME WellFormed(body) PROVE ok
  <2>1. /\ body.object /\ body.end = "closed" /\ len = 2
        /\ {name(k) : k \in 1..2} = {"size_bytes", "content_type"}
        /\ \A k \in 1..2 : body.members[k].ok
        BY <1>4 DEF WellFormed
  <2>2. \A k \in 1..2 : name(k) \in {"size_bytes", "content_type"}
        BY <2>1
  <2>3. /\ \E k \in 1..2 : name(k) = "size_bytes"
        /\ \E k \in 1..2 : name(k) = "content_type"
        BY <2>1
  <2>4. \A k \in 1..2 : k = 1 \/ k = 2
        OBVIOUS
  <2>5. name(1) # name(2)
        BY <2>3, <2>4
  <2>6. \A i \in 1..2, j \in 1..2 : i < j => i = 1 /\ j = 2
        OBVIOUS
  <2>7. \A k \in 1..2 : name(k) # "other"
        BY <2>2
  <2>8. Plain(body, len)
        BY <2>1, <2>5, <2>6, <2>7 DEF Plain
  <2>9. QED BY <1>1, <2>1, <2>3, <2>8
<1>5. QED BY <1>2, <1>3, <1>4

-----------------------------------------------------------------------------
(* Requests.                                                               *)

\* A new answer is true, and a blame comes of a request that left no trace.
Tells ==
  reply' # reply /\ reply' # NoReply =>
    Truthful(reply') /\ (reply'.status \in 400..499 => Clean')

\* A request arrives with a clean slate.
LEMMA ArrivesClean ==
  ASSUME HttpInv, Arrives
  PROVE  RowInv' /\ DoubtInv' /\ Clean'
<1>1. RowInv'
      BY DEF HttpInv, Arrives, RowInv, RowOK
<1>2. ASSUME NEW e \in doubt'
      PROVE  /\ ~e.mine
             /\ \E d \in doubt : e.row = d.row /\ e \in [row : Rows, mine : BOOLEAN]
  <2>1. PICK d \in doubt : e = [d EXCEPT !.mine = FALSE]
        BY <1>2 DEF Arrives
  <2>2. d \in [row : Rows, mine : BOOLEAN]
        BY DEF HttpInv, DoubtInv
  <2>3. e.mine = FALSE /\ e.row = d.row /\ e \in [row : Rows, mine : BOOLEAN]
        BY <2>1, <2>2
  <2>4. QED BY <2>3
<1>3. row' = row /\ ~wrote'
      BY DEF Arrives
<1>4. DoubtInv'
      BY <1>2, <1>3 DEF HttpInv, DoubtInv, RowOK, SameDeclaration
<1>5. Clean'
      BY <1>2, <1>3 DEF Clean
<1>6. QED BY <1>1, <1>4, <1>5

\* An answer that is given without asking the store.
Refusal(ans) ==
  /\ ans.status \in {200, 400, 404, 405, 413, 415, 422, 503}
  /\ ans.route = "complete" => ans.status # 200
  /\ ans.state = "none" /\ ~ans.capability
  /\ ans.code # "internal_error"
  /\ Exact(ans)

\* A request that is refused changes nothing.
LEMMA RefuseStep ==
  ASSUME HttpInv, Observe, NEW ans, RefuseWith(ans), Refusal(ans)
  PROVE  HttpInv' /\ Tells
<1>1. RowInv' /\ DoubtInv' /\ Clean'
      BY ArrivesClean DEF RefuseWith
<1>2. reply' = ans /\ call' = call /\ call.pc = "idle"
      BY DEF RefuseWith, Arrives
<1>3. CallInv' /\ ReadInv' /\ StepInv'
      BY <1>2 DEF HttpInv, CallInv, ReadInv, StepInv
<1>4. ReplyInv'
      BY <1>2 DEF Refusal, ReplyInv, InternalErrorOnlyFromSigning, Exact
<1>5. Tells
      BY <1>1, <1>2 DEF Refusal, Tells, Truthful, Terminal
<1>6. QED BY <1>1, <1>3, <1>4, <1>5 DEF HttpInv

\* A refusal that does not look at a body.
LEMMA PlainRefusal ==
  ASSUME NEW route, NEW code, NEW status \in {200, 400, 404, 405, 413, 415, 422, 503},
         Refuse(route, status, code), code # "internal_error",
         route = "complete" => status # 200, HttpInv, Observe
  PROVE  HttpInv' /\ Tells
<1> DEFINE ans == Reply(route, status, code)
<1>1. Refusal(ans)
      BY DEF Refusal, Reply, Exact
<1>2. RefuseWith(ans)
      BY DEF Refuse
<1> HIDE DEF ans
<1>3. QED BY <1>1, <1>2, RefuseStep

\* A request goes on to the store.
LEMMA BeginStep ==
  ASSUME HttpInv, Observe, NEW c, Begin(c), DOMAIN c = CallFields,
         c.pc \in {"insert", "attempt", "represent", "content"},
         c.route \in RoutesAt(c.pc), c.pc = "represent" => c.route = "status",
         c.body \in {"unread", "good"}, c.route = "create" => Forwards(c.command)
  PROVE  HttpInv' /\ Tells
<1>1. RowInv' /\ DoubtInv' /\ Clean'
      BY ArrivesClean DEF Begin
<1>2. reply' = NoReply /\ call' = c
      BY DEF Begin
<1>3. <<row'.state, late'>> \in seen'
      BY DEF Observe
<1>4. CallInv'
      BY <1>2, <1>3 DEF CallInv, Pcs, Forwards
<1>5. ReadInv' /\ StepInv'
      BY <1>1, <1>2 DEF ReadInv, StepInv
<1>6. ReplyInv'
  <2>1. NoReply.code = None /\ NoReply.body = "unread"
        BY DEF NoReply, Reply
  <2>2. QED BY <1>2, <2>1, NoneIsNoName DEF ReplyInv, InternalErrorOnlyFromSigning, Exact
<1>7. QED BY <1>1, <1>2, <1>4, <1>5, <1>6 DEF HttpInv, Tells

\* POST /uploads: a body is taken exactly when it is well formed.
LEMMA PostCreateStep ==
  ASSUME HttpInv, PostCreate, Observe
  PROVE  HttpInv' /\ Tells
<1>1. ASSUME \/ Refuse("create", 400, "invalid_idempotency_key")
             \/ Refuse("create", 415, "unsupported_media_type")
             \/ Refuse("create", 413, "request_too_large")
             \/ Refuse("create", 400, "invalid_request")
      PROVE  HttpInv' /\ Tells
      BY <1>1, PlainRefusal
<1>2. ASSUME NEW body \in Decoded
      PROVE  body.command.ok <=> body.wellFormed
  <2>1. PICK b \in Bodies : body = [command |-> decodeCreateUploadBody(b),
                                    wellFormed |-> WellFormed(b)]
        BY DEF Decoded
  <2>2. QED BY <2>1, DecoderExact
<1>3. ASSUME NEW body \in Decoded, NEW status \in {400, 422}, NEW code,
             code # "internal_error", (code = "invalid_request") <=> ~body.command.ok,
             RefuseWith(Judged(Reply("create", status, code), body))
      PROVE  HttpInv' /\ Tells
  <2> DEFINE shape == IF body.wellFormed THEN "good" ELSE "bad"
             ans == Judged(Reply("create", status, code), body)
  <2>1. /\ ans.status = status /\ ans.route = "create" /\ ans.state = "none"
        /\ ~ans.capability /\ ans.code = code /\ ans.body = shape
        BY DEF Judged, Reply
  <2>2. RefuseWith(ans)
        BY <1>3
  <2>3. shape = "bad" <=> code = "invalid_request"
        BY <1>2, <1>3
  <2> HIDE DEF ans, shape
  <2>4. Refusal(ans)
        BY <1>3, <2>1, <2>3 DEF Refusal, Exact
  <2>5. QED BY <2>2, <2>4, RefuseStep
<1>4. ASSUME NEW body \in Decoded, body.command.ok, Forwards(body.command),
             Begin(Judged([Idle EXCEPT !.route = "create", !.pc = "insert",
                                       !.command = body.command], body))
      PROVE  HttpInv' /\ Tells
  <2> DEFINE shape == IF body.wellFormed THEN "good" ELSE "bad"
             c == Judged([Idle EXCEPT !.route = "create", !.pc = "insert",
                                      !.command = body.command], body)
  <2>1. /\ DOMAIN c = CallFields /\ c.pc = "insert" /\ c.route = "create"
        /\ c.body = shape /\ c.command = body.command
        BY DEF Judged, Idle, CallFields
  <2>2. Begin(c)
        BY <1>4
  <2>3. shape = "good"
        BY <1>2, <1>4
  <2> HIDE DEF c, shape
  <2>4. c.route \in RoutesAt(c.pc)
        BY <2>1 DEF RoutesAt
  <2>5. QED BY <1>4, <2>1, <2>2, <2>3, <2>4, BeginStep
<1>5. ASSUME NEW body \in Decoded, ~body.command.ok,
             RefuseWith(Judged(Reply("create", 400, "invalid_request"), body))
      PROVE  HttpInv' /\ Tells
      BY <1>3, <1>5
<1>6. ASSUME NEW body \in Decoded, body.command.ok,
             RefuseWith(Judged(Reply("create", 422, "invalid_upload_declaration"), body))
      PROVE  HttpInv' /\ Tells
      BY <1>3, <1>6
<1>7. ASSUME NEW body \in Decoded, PostBody(body) PROVE HttpInv' /\ Tells
  <2>1. CASE /\ ~body.command.ok
             /\ RefuseWith(Judged(Reply("create", 400, "invalid_request"), body))
        BY <1>5, <2>1
  <2>2. CASE /\ body.command.ok
             /\ RefuseWith(Judged(Reply("create", 422, "invalid_upload_declaration"), body))
        BY <1>6, <2>2
  <2>3. CASE /\ body.command.ok /\ Forwards(body.command)
             /\ Begin(Judged([Idle EXCEPT !.route = "create", !.pc = "insert",
                                          !.command = body.command], body))
        BY <1>4, <2>3
  <2>4. QED BY <1>7, <2>1, <2>2, <2>3 DEF PostBody
<1>8. QED BY <1>1, <1>7 DEF PostCreate

\* The requests about an existing upload.
LEMMA PostOrGetStep ==
  ASSUME HttpInv, PostComplete \/ GetUpload \/ GetContent, Observe
  PROVE  HttpInv' /\ Tells
<1>1. ASSUME \/ Refuse("complete", 400, "invalid_request")
             \/ Refuse("status", 400, "invalid_request")
             \/ Refuse("content", 400, "invalid_request")
      PROVE  HttpInv' /\ Tells
      BY <1>1, PlainRefusal
<1>2. CASE Begin([Idle EXCEPT !.route = "complete", !.pc = "attempt", !.attempt = 1])
  <2> DEFINE c == [Idle EXCEPT !.route = "complete", !.pc = "attempt", !.attempt = 1]
  <2>1. /\ DOMAIN c = CallFields /\ c.pc = "attempt" /\ c.route = "complete"
        /\ c.body = "unread"
        BY DEF Idle, CallFields
  <2>2. Begin(c)
        BY <1>2
  <2> HIDE DEF c
  <2>3. QED BY <2>1, <2>2, BeginStep DEF RoutesAt
<1>3. CASE Begin([Idle EXCEPT !.route = "status", !.pc = "represent"])
  <2> DEFINE c == [Idle EXCEPT !.route = "status", !.pc = "represent"]
  <2>1. /\ DOMAIN c = CallFields /\ c.pc = "represent" /\ c.route = "status"
        /\ c.body = "unread"
        BY DEF Idle, CallFields
  <2>2. Begin(c)
        BY <1>3
  <2> HIDE DEF c
  <2>3. QED BY <2>1, <2>2, BeginStep DEF RoutesAt
<1>4. CASE Begin([Idle EXCEPT !.route = "content", !.pc = "content"])
  <2> DEFINE c == [Idle EXCEPT !.route = "content", !.pc = "content"]
  <2>1. /\ DOMAIN c = CallFields /\ c.pc = "content" /\ c.route = "content"
        /\ c.body = "unread"
        BY DEF Idle, CallFields
  <2>2. Begin(c)
        BY <1>4
  <2> HIDE DEF c
  <2>3. QED BY <2>1, <2>2, BeginStep DEF RoutesAt
<1>5. QED BY <1>1, <1>2, <1>3, <1>4 DEF PostComplete, GetUpload, GetContent

\* The operational routes.
LEMMA OperationalStep ==
  ASSUME HttpInv, Operational, Observe
  PROVE  HttpInv' /\ Tells
<1>1. \/ Refuse(None, 404, "not_found")
      \/ Refuse(None, 405, "method_not_allowed")
      \/ Refuse("vars", 200, None)
      \/ Refuse("livez", 503, "service_unavailable")
      \/ Refuse("livez", 200, None)
      \/ Refuse("readyz", 200, None)
      \/ Refuse("readyz", 503, "service_unavailable")
      BY DEF Operational, ready
<1>2. QED BY <1>1, PlainRefusal, NoneIsNoName

\* The handler answers.
LEMMA AnswerStep ==
  ASSUME HttpInv, Answer, Observe
  PROVE  HttpInv' /\ Tells
<1>0. /\ call.pc = "answer" /\ call.pc # "idle" /\ call' = Idle
      /\ row' = row /\ own' = own /\ wrote' = wrote /\ doubt' = doubt /\ late' = late
      /\ RowInv /\ DoubtInv /\ ResultOK(call.route, call.result)
      /\ call.body \in {"unread", "good"}
      /\ call.route \in {"create", "complete", "status", "content"}
      /\ call.route \in {"status", "content"} => Clean
      BY DEF Answer, store, HttpInv, StepInv, CallInv, ReadInv, RoutesAt
<1> DEFINE ans == Serve(call.route, call.result)
<1>1. Fair(ans)
  <2>1. CASE call.route = "create"
        BY <1>0, <2>1, CreateFair DEF Serve
  <2>2. CASE call.route = "complete"
        BY <1>0, <2>2, CompleteFair DEF Serve
  <2>3. CASE call.route = "status"
        BY <1>0, <2>3, StatusFair DEF Serve
  <2>4. CASE call.route = "content"
        BY <1>0, <2>4, ContentFair DEF Serve
  <2>5. QED BY <1>0, <2>1, <2>2, <2>3, <2>4
<1>2. reply' = [ans EXCEPT !.body = call.body]
      BY DEF Answer
<1> HIDE DEF ans
<1>3. /\ reply'.route = ans.route /\ reply'.status = ans.status /\ reply'.code = ans.code
      /\ reply'.state = ans.state /\ reply'.capability = ans.capability
      /\ reply'.signing = ans.signing /\ reply'.body = call.body
      BY <1>1, <1>2 DEF Fair, Fields
<1>4. Truthful(reply')
      BY <1>1, <1>3 DEF Fair, Truthful
<1>5. Clean => Clean'
      BY <1>0 DEF Clean
<1>6. Tells
      BY <1>1, <1>3, <1>4, <1>5 DEF Fair, Tells
<1>7. ReplyInv'
      BY <1>0, <1>1, <1>3 DEF Fair, ReplyInv, InternalErrorOnlyFromSigning, Exact
<1>8. RowInv' /\ DoubtInv'
      BY <1>0 DEF RowInv, DoubtInv, RowOK, SameDeclaration
<1>9. CallInv' /\ ReadInv' /\ StepInv'
  <2>1. Idle.pc = "idle" /\ DOMAIN Idle = CallFields
        BY DEF Idle, CallFields
  <2>2. QED BY <1>0, <2>1 DEF CallInv, ReadInv, StepInv
<1>10. QED BY <1>6, <1>7, <1>8, <1>9 DEF HttpInv

\* The steps of a store function change the local variables, not the route.
LEMMA RouteStays ==
  ASSUME CallInv, StoreStep
  PROVE  call'.route = call.route /\ call.pc # "idle"
<1>1. ASSUME NEW res, Return(res) PROVE call'.route = call.route
      BY <1>1 DEF Return, CallInv, CallFields
<1>2. Unavailable => call'.route = call.route
      BY <1>1 DEF Unavailable
<1>3. ASSUME NEW base, HandOut(base) PROVE call'.route = call.route
      BY <1>1, <1>2, <1>3 DEF HandOut
<1>4. ASSUME NEW errors, SigningFails(errors) PROVE call'.route = call.route
      BY <1>1, <1>4 DEF SigningFails
<1>5. ASSUME NEW pc, Goto(pc) PROVE call'.route = call.route
      BY <1>5 DEF Goto, CallInv, CallFields
<1>6. ASSUME NEW created, Show(created) \/ Recover(created) PROVE call'.route = call.route
  <2>1. CASE call' = [call EXCEPT !.pc = "represent", !.created = created]
        BY <2>1 DEF CallInv, CallFields
  <2>2. CASE call' = [call EXCEPT !.pc = "recover", !.created = created]
        BY <2>2 DEF CallInv, CallFields
  <2>3. QED BY <1>1, <1>6, <2>1, <2>2 DEF Show, Recover
<1>7. ASSUME NEW asked, ReadBack(asked) PROVE call'.route = call.route
      BY <1>7 DEF ReadBack, CallInv, CallFields
<1>8. CASE createOrReplayUpload
      BY <1>1, <1>2, <1>3, <1>4, <1>5, <1>6, <1>8
      DEF createOrReplayUpload, Transaction, Commit
<1>9. CASE authorizeReplay
      BY <1>1, <1>2, <1>3, <1>4, <1>6, <1>9 DEF authorizeReplay, Transaction, Commit
<1>10. CASE recoverUnknownUploadCommit
      BY <1>1, <1>2, <1>3, <1>6, <1>10 DEF recoverUnknownUploadCommit
<1>11. CASE completeUploadAttempt
      BY <1>1, <1>2, <1>5, <1>7, <1>11 DEF completeUploadAttempt, Transaction, Commit
<1>12. CASE recoverCompletionOutcome
  <2>1. call' = [call EXCEPT !.pc = "attempt", !.attempt = 2] => call'.route = call.route
        BY DEF CallInv, CallFields
  <2>2. QED BY <1>2, <1>6, <1>12, <2>1 DEF recoverCompletionOutcome
<1>13. CASE getUploadByID \/ authorizeContentRead
      BY <1>1, <1>2, <1>4, <1>13 DEF getUploadByID, authorizeContentRead
<1>14. QED BY <1>8, <1>9, <1>10, <1>11, <1>12, <1>13 DEF StoreStep

\* A step of a store function.
LEMMA StoreStepKeeps ==
  ASSUME HttpInv, StoreStep, Observe
  PROVE  HttpInv' /\ Tells
<1>1. late' = late /\ reply' = reply
      BY DEF StoreStep
<1>2. CallInv' /\ StepInv' /\ StoreEffect
      BY <1>1, InsertStep, ReplayStep, RecoverStep, AttemptStep, ReadBackStep,
         RepresentStep, ContentStep DEF StoreStep
<1>3. RowInv' /\ DoubtInv'
      BY <1>1, <1>2, StoreEffectKeeps DEF HttpInv
<1>4. ReadInv'
  <2> SUFFICES ASSUME call'.route \in {"status", "content"} PROVE Clean'
      BY DEF ReadInv
  <2>1. call.route \in {"status", "content"} /\ call.pc # "idle"
        BY RouteStays DEF HttpInv
  <2>2. Clean /\ call.pc \notin {"insert", "replay", "recover", "attempt", "readBack"}
        BY <2>1 DEF HttpInv, ReadInv, CallInv, RoutesAt
  <2>3. getUploadByID \/ authorizeContentRead
        BY <2>2 DEF StoreStep, createOrReplayUpload, authorizeReplay,
                    recoverUnknownUploadCommit, completeUploadAttempt, recoverCompletionOutcome
  <2>4. Untouched
        BY <2>3 DEF getUploadByID, authorizeContentRead, store, Untouched
  <2>5. QED BY <2>2, <2>4, CleanStays
<1>5. ReplyInv'
      BY <1>1 DEF HttpInv, ReplyInv, InternalErrorOnlyFromSigning, Exact
<1>6. QED BY <1>1, <1>2, <1>3, <1>4, <1>5 DEF HttpInv, Tells

\* Every step keeps the invariant, and every answer tells the truth.
LEMMA NextKeeps ==
  ASSUME HttpInv, [Next]_vars
  PROVE  HttpInv' /\ Tells
<1>1. CASE Requests /\ Observe
      BY <1>1, PostCreateStep, PostOrGetStep, OperationalStep DEF Requests
<1>2. CASE StoreStep /\ Observe
      BY <1>2, StoreStepKeeps
<1>3. CASE Answer /\ Observe
      BY <1>3, AnswerStep
<1>4. ASSUME (Settle \/ Background) /\ Observe PROVE HttpInv' /\ Tells
  <2>1. RowInv' /\ DoubtInv' /\ CallInv' /\ StepInv' /\ (Clean => Clean')
        BY <1>4, SettleStep, BackgroundStep
  <2>2. call' = call /\ reply' = reply
        BY <1>4 DEF Settle, Background
  <2>3. ReadInv' /\ ReplyInv'
        BY <2>1, <2>2 DEF HttpInv, ReadInv, ReplyInv, InternalErrorOnlyFromSigning, Exact
  <2>4. QED BY <2>1, <2>2, <2>3 DEF HttpInv, Tells
<1>5. CASE UNCHANGED vars
  <2>1. /\ row' = row /\ own' = own /\ wrote' = wrote /\ doubt' = doubt /\ late' = late
        /\ call' = call /\ seen' = seen /\ reply' = reply
        BY <1>5 DEF vars, store
  <2>2. RowInv' /\ DoubtInv'
        BY <2>1 DEF HttpInv, RowInv, DoubtInv, RowOK, SameDeclaration
  <2>3. (Clean => Clean') /\ (OfCommand => OfCommand')
        BY <2>1 DEF Clean, OfCommand, SameDeclaration
  <2>4. CallInv' /\ ReadInv' /\ ReplyInv'
        BY <2>1, <2>3
        DEF HttpInv, CallInv, Forwards, ReadInv, ReplyInv, InternalErrorOnlyFromSigning, Exact
  <2>5. StepInv'
        BY <2>1, <2>3 DEF HttpInv, StepInv, ResultOK, RowOK, Expected, WasSeen
  <2>6. QED BY <2>1, <2>2, <2>4, <2>5 DEF HttpInv, Tells
<1>6. QED BY <1>1, <1>2, <1>3, <1>4, <1>5 DEF Next

-----------------------------------------------------------------------------
(* Theorems.                                                               *)

\* Whatever requests arrive and wherever in them the row moves on, a commit of
\* theirs is left in doubt or a transaction settles, the request knows at every
\* step what the next one relies on.
THEOREM HttpInvariant == Spec => []HttpInv
<1>1. Init => HttpInv
  <2> SUFFICES ASSUME Init PROVE HttpInv
      OBVIOUS
  <2>1. NoRow \in Rows /\ NoRow.state = "none"
        BY DEF NoRow, Rows, States
  <2>2. RowInv /\ DoubtInv
        BY <2>1 DEF Init, RowInv, DoubtInv, RowOK
  <2>3. Idle.pc = "idle" /\ DOMAIN Idle = CallFields
        BY DEF Idle, CallFields
  <2>4. CallInv /\ ReadInv /\ StepInv
        BY <2>3 DEF Init, CallInv, ReadInv, StepInv
  <2>5. reply.code = None /\ reply.body = "unread"
        BY DEF Init, NoReply, Reply
  <2>6. ReplyInv
        BY <2>5, NoneIsNoName DEF ReplyInv, InternalErrorOnlyFromSigning, Exact
  <2>7. QED BY <2>2, <2>4, <2>6 DEF HttpInv
<1>2. HttpInv /\ [Next]_vars => HttpInv'
      BY NextKeeps
<1>3. QED BY <1>1, <1>2, PTL DEF Spec

\* No row the service can produce leads a handler into a defensive branch, and
\* no result of a recovery does: internal_error is the presigner's alone.
THEOREM InternalErrorsAreSigning == Spec => []InternalErrorOnlyFromSigning
<1>1. HttpInv => InternalErrorOnlyFromSigning
      BY DEF HttpInv, ReplyInv
<1>2. QED BY <1>1, HttpInvariant, PTL

\* Every answer tells the truth about the row and about the request, although
\* the row moves between the steps of the request and its commits may be in
\* doubt when it is answered.
THEOREM StatusesTellStates == Spec => StatusTellsState
<1> DEFINE Told ==
      reply' # reply /\ reply' # NoReply =>
        /\ reply'.status = 201 => own /\ row.state # "none"
        /\ reply'.state # "none" =>
             <<reply'.state, TRUE>> \in seen \/ <<reply'.state, FALSE>> \in seen
        /\ reply'.state \in Terminal => row.state = reply'.state
        /\ reply'.status = 202 => reply'.state = "finalizing"
        /\ reply'.status = 307 => reply'.state = "ready"
        /\ reply'.status = 409 => reply'.state \in {"pending", "finalizing"}
        /\ reply'.status = 410 => reply'.state = "expired"
        /\ reply'.route = "complete" /\ reply'.status = 200 => reply'.state \in Terminal
        /\ reply'.capability /\ reply'.route = "create" =>
             /\ reply'.state \in {"pending", "finalizing"}
             /\ <<reply'.state, FALSE>> \in seen
        /\ reply'.status \in 400..499 => ~wrote' /\ \A d \in doubt' : ~d.mine
<1>1. HttpInv /\ [Next]_vars => [Told]_vars
  <2> SUFFICES ASSUME HttpInv, [Next]_vars PROVE Told
      OBVIOUS
  <2>1. Tells
        BY NextKeeps
  <2>2. QED BY <2>1 DEF Tells, Truthful, WasSeen, Clean
<1> HIDE DEF Told
<1>2. Spec => [][Told]_vars
      BY <1>1, HttpInvariant, PTL DEF Spec
<1>3. QED BY <1>2 DEF StatusTellsState, Told

\* A body is refused exactly when it is not one object with one size and one
\* type, however many members it has and in whatever order, and what is stored
\* is within the limits of the uploads table.
THEOREM DeclarationsAreExact == Spec => []DeclarationsExact
<1>1. HttpInv => DeclarationsExact
      BY DEF HttpInv, RowInv, RowOK, ReplyInv, Exact, DeclarationsExact
<1>2. QED BY <1>1, HttpInvariant, PTL
=============================================================================
