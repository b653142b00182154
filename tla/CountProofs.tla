----------------------------- MODULE CountProofs ----------------------------
(***************************************************************************)
(* The counters of creations and completions count each of them at most    *)
(* once, and none that did not happen.                                     *)
(***************************************************************************)
EXTENDS LifecycleProofs, TransitionCounts

-----------------------------------------------------------------------------
(* The invariant.                                                          *)

\* An idempotency key without a row belongs to no request.
NoOwner(u) == uploads[u].state = "none" => uploads[u].id = Null

\* A request inserts under its own id.  When it reads the row back after the
\* commit of its insert was in doubt and finds its id, nobody has counted the
\* creation.
CreationOwned(r) ==
  /\ reqs[r].pc = "insert" => reqs[r].id = r
  /\ reqs[r].pc = "recover" /\ reqs[r].created =>
       /\ reqs[r].id = r
       /\ ReqUpload(r).id = r => counted[reqs[r].upload]["none_to_pending"] = 0

CountInv ==
  /\ counted \in [Uploads -> [Counters -> Nat]]
  /\ \A u \in Uploads : NoOwner(u)
  /\ \A r \in Requests : CreationOwned(r)
  /\ CreationAndCompletionCountedOnce

\* A step of the service with what it counts.
Counted(u, c) == counted[u][c] + (IF Counts(u, c) THEN 1 ELSE 0)

CountingNext ==
  /\ Next
  /\ counted' = [u \in Uploads |-> [c \in Counters |-> Counted(u, c)]]

-----------------------------------------------------------------------------
(* What is counted.                                                        *)

\* A row stays, or a legal write gives it an owner and moves it forward.
LEMMA RowOwned ==
  ASSUME Inv, [Next]_vars, NEW u \in Uploads
  PROVE  \/ uploads'[u] = uploads[u]
         \/ /\ <<uploads[u].state, uploads'[u].state>> \in StateMoves
            /\ uploads'[u].id \in Requests
  <1>0. uploads \in [Uploads -> UploadRow] BY DEF Inv, Registers, StoreTypeOK
  <1>1. Effect BY StepEffect
  <1>2. CASE UNCHANGED db BY <1>2 DEF db, tables
  <1>3. CASE DbEffect
    <2>1. CASE UNCHANGED uploads BY <2>1
    <2>2. ASSUME NEW v \in Uploads, NEW w, Legal(v, w), uploads' = [uploads EXCEPT ![v] = w.row]
          PROVE  \/ uploads'[u] = uploads[u]
                 \/ /\ <<uploads[u].state, uploads'[u].state>> \in StateMoves
                    /\ uploads'[u].id \in Requests
      <3>1. CASE u = v
        <4>1. uploads'[u] = w.row BY <1>0, <2>2, <3>1
        <4> QED BY <2>2, <3>1, <4>1 DEF Legal, LegalFor
      <3>2. CASE u # v BY <1>0, <2>2, <3>2
      <3> QED BY <3>1, <3>2
    <2> QED BY <1>3, <2>1, <2>2, OneRowMoves
  <1> QED BY <1>1, <1>2, <1>3 DEF Effect

\* Only the insert of a request leads it to the recovery of a creation, and
\* only its first step to the insert.
LEMMA RequestCreates ==
  ASSUME Inv, NEW q \in Requests,
         \/ RequestStep(q)
         \/ CrashRequest(q)
         \/ \E u \in Uploads : ClientCalls(q, u)
  PROVE  /\ reqs'[q].pc = "insert" => reqs'[q].id = q
         /\ reqs'[q].pc = "recover" /\ reqs'[q].created =>
              /\ reqs[q].pc = "insert"
              /\ reqs'[q].upload = reqs[q].upload /\ reqs'[q].id = reqs[q].id
              /\ uploads[reqs[q].upload].state = "none"
              /\ UNCHANGED uploads
  <1>0. reqs \in [Requests -> GoodReq] /\ reqs[q] \in ReqRow BY DEF Inv, Registers, GoodReq
  <1> DEFINE elsewhere == reqs'[q].pc \notin {"insert", "recover"}
  <1>1. CASE Respond(q)
    <2>1. reqs'[q] = ReqIdle BY <1>0, <1>1 DEF Respond
    <2> QED BY <2>1 DEF ReqIdle
  <1>2. ASSUME NEW pc \in ReqPCs \ {"insert", "recover"}, ReqGoto(q, pc) PROVE elsewhere
    BY <1>0, <1>2 DEF ReqGoto, ReqRow
  <1>3. ASSUME NEW b \in BOOLEAN, Recover(q, b)
        PROVE  /\ reqs'[q].pc = "recover" /\ reqs'[q].created = b
               /\ reqs'[q].upload = reqs[q].upload /\ reqs'[q].id = reqs[q].id
    BY <1>0, <1>3 DEF Recover, ReqRow
  <1>4. ASSUME NEW d, ReadBack(q, d) PROVE elsewhere BY <1>0, <1>4 DEF ReadBack, ReqRow
  <1>5. CASE createOrReplayUpload(q)
    <2>1. \/ Respond(q)
          \/ ReqGoto(q, "signReplay")
          \/ /\ Recover(q, TRUE) /\ uploads[reqs[q].upload].state = "none"
             /\ UNCHANGED uploads
      BY <1>5 DEF createOrReplayUpload, Transaction, Commit, Fails, HandOut,
                  AnswerState, Refuse, tables
    <2>2. CASE ReqGoto(q, "signReplay") BY <1>2, <2>2 DEF ReqPCs
    <2>3. CASE /\ Recover(q, TRUE) /\ uploads[reqs[q].upload].state = "none"
               /\ UNCHANGED uploads
      BY <1>3, <1>5, <2>3 DEF createOrReplayUpload, ReqAt
    <2> QED BY <1>1, <2>1, <2>2, <2>3
  <1>6. CASE presignReplay(q)
    <2>1. reqs'[q].pc = "authorize" BY <1>0, <1>6 DEF presignReplay, ReqRow
    <2> QED BY <2>1
  <1>7. CASE authorizeReplay(q)
    <2>1. Respond(q) \/ Recover(q, FALSE)
      BY <1>7 DEF authorizeReplay, Transaction, Commit, Fails, HandOut, AnswerState, Refuse
    <2>2. CASE Recover(q, FALSE) BY <1>3, <2>2
    <2> QED BY <1>1, <2>1, <2>2
  <1>8. CASE recoverUnknownUploadCommit(q)
    BY <1>1, <1>8 DEF recoverUnknownUploadCommit, Fails, HandOut, AnswerState, Refuse
  <1>9. CASE completeUploadAttempt(q)
    BY <1>1, <1>4, <1>9 DEF completeUploadAttempt, Transaction, Commit, Fails, Answer
  <1>10. CASE recoverCompletionOutcome(q)
    <2>1. CASE reqs' = [reqs EXCEPT ![q].pc = "complete", ![q].attempt = @ + 1,
                                    ![q].dueBy = Null]
      <3>1. reqs'[q].pc = "complete" BY <1>0, <2>1 DEF ReqRow
      <3> QED BY <3>1
    <2> QED BY <1>1, <1>10, <2>1 DEF recoverCompletionOutcome, Fails, Answer
  <1>11. CASE CrashRequest(q) BY <1>1, <1>11 DEF CrashRequest
  <1>12. ASSUME NEW u \in Uploads, presignCreate(q, u)
         PROVE  reqs'[q].pc = "insert" /\ reqs'[q].id = q
    BY <1>0, <1>12 DEF presignCreate, ReqIdle
  <1>13. ASSUME NEW u \in Uploads, startComplete(q, u) PROVE elsewhere
    BY <1>0, <1>13 DEF startComplete, ReqIdle
  <1> QED BY <1>5, <1>6, <1>7, <1>8, <1>9, <1>10, <1>11, <1>12, <1>13
          DEF RequestStep, ClientCalls

\* Who answers without a fault takes a step of its handler.
LEMMA ResponseIsStep ==
  ASSUME Inv, [Next]_vars, NEW r \in Requests, Responds(r)
  PROVE  RequestStep(r)
  <1>0. reqs[r].pc # "idle" /\ reqs'[r] # reqs[r]
    <2>1. ReqIdle.pc = "idle" BY DEF ReqIdle
    <2> QED BY <2>1 DEF Responds, ReqAt
  <1>1. ~UNCHANGED reqs BY <1>0
  <1>2. ApiNext
    BY <1>1 DEF Next, ServiceNext, vars, apiVars, ClientReads, getUploadByID,
                authorizeContentRead
  <1>3. PICK q \in Requests : \/ RequestStep(q)
                              \/ CrashRequest(q)
                              \/ \E u \in Uploads : ClientCalls(q, u)
    BY <1>2 DEF ApiNext
  <1>4. ReqKept(q) BY <1>3, RequestReqs DEF Inv
  <1>5. q = r BY <1>0, <1>4 DEF ReqKept
  <1>6. ~CrashRequest(r)
    <2>1. faults \in Nat BY DEF Inv, Registers, StoreTypeOK
    <2> QED BY <2>1 DEF CrashRequest, Fault, Responds
  <1>7. \A u \in Uploads : ~ClientCalls(r, u)
    BY <1>0 DEF ClientCalls, presignCreate, startComplete, ReqAt
  <1> QED BY <1>3, <1>5, <1>6, <1>7

\* A creation is counted when it was not before, by the request the row is of.
LEMMA CreationCounted ==
  ASSUME Inv, CountInv, [Next]_vars, NEW u \in Uploads, NEW r \in Requests,
         CountsCreation(r, u)
  PROVE  /\ uploads'[u].state # "none" /\ uploads'[u].id = r
         /\ counted[u]["none_to_pending"] = 0
  <1>0. RequestStep(r) /\ reqs[r].upload = u BY ResponseIsStep DEF CountsCreation
  <1>1. CASE ReqAt(r, "insert") /\ Moves(u, "none", "pending")
    <2> DEFINE row == [NoUpload EXCEPT !.state = "pending", !.id = reqs[r].id,
                                       !.declared = reqs[r].decl,
                                       !.deadline = now + UploadWindow,
                                       !.horizon = reqs[r].expires]
    <2>1. createOrReplayUpload(r)
      BY <1>0, <1>1 DEF RequestStep, presignReplay, authorizeReplay,
         recoverUnknownUploadCommit, completeUploadAttempt, recoverCompletionOutcome, ReqAt
    <2>2. uploads' # uploads BY <1>1 DEF Moves
    <2>3. Apply(u, WriteRow(u, row))
      BY <1>0, <2>1, <2>2 DEF createOrReplayUpload, Transaction, Commit, Fails, db, tables
    <2>4. WriteRow(u, row).row = row BY DEF WriteRow, WriteOf
    <2>5. uploads'[u] = row BY <2>3, <2>4, AppliedRow
    <2>6. row.id = reqs[r].id BY DEF NoUpload
    <2>7. reqs[r].id = r BY <1>1 DEF CountInv, CreationOwned, ReqAt
    <2>8. counted[u]["none_to_pending"] \in Nat BY DEF CountInv, Counters
    <2>9. counted[u]["none_to_pending"] <= 0
      BY <1>1 DEF CountInv, CreationAndCompletionCountedOnce, Moves
    <2>10. counted[u]["none_to_pending"] = 0 BY <2>8, <2>9
    <2>11. uploads'[u].state # "none" BY <1>1 DEF Moves
    <2> HIDE DEF row
    <2> QED BY <2>5, <2>6, <2>7, <2>10, <2>11
  <1>2. CASE RecoversCreation(r)
    <2>1. recoverUnknownUploadCommit(r)
      BY <1>0, <1>2 DEF RequestStep, createOrReplayUpload, presignReplay, authorizeReplay,
         completeUploadAttempt, recoverCompletionOutcome, ReqAt, RecoversCreation
    <2>2. uploads' = uploads BY <2>1 DEF recoverUnknownUploadCommit, Fails, db, tables
    <2>3. /\ reqs[r].pc = "recover" /\ reqs[r].created /\ uploads[u].id = reqs[r].id
      BY <1>0, <1>2 DEF RecoversCreation, ReqAt, ReqUpload
    <2>4. uploads[u].id = r /\ counted[u]["none_to_pending"] = 0
      BY <1>0, <2>3 DEF CountInv, CreationOwned, ReqUpload
    <2>5. r # Null BY StoreAssumption
    <2>6. uploads[u].state # "none" BY <2>4, <2>5 DEF CountInv, NoOwner
    <2> QED BY <2>2, <2>4, <2>6
  <1> QED BY <1>1, <1>2 DEF CountsCreation

-----------------------------------------------------------------------------
(* The invariant is kept.                                                  *)

\* The counters of a row after a step.
LEMMA CountsKept ==
  ASSUME Inv, CountInv, CountingNext, NEW u \in Uploads
  PROVE  /\ counted'[u]["none_to_pending"] <= IF uploads'[u].state = "none" THEN 0 ELSE 1
         /\ counted'[u]["pending_to_finalizing"] <=
              IF uploads'[u].state \in {"none", "pending"} THEN 0 ELSE 1
  <1> DEFINE n == counted[u]["none_to_pending"]
             p == counted[u]["pending_to_finalizing"]
  <1>1. n \in Nat /\ p \in Nat BY DEF CountInv, Counters
  <1>2. /\ n <= IF uploads[u].state = "none" THEN 0 ELSE 1
        /\ p <= IF uploads[u].state \in {"none", "pending"} THEN 0 ELSE 1
    BY DEF CountInv, CreationAndCompletionCountedOnce
  <1>3. /\ counted'[u]["none_to_pending"] = Counted(u, "none_to_pending")
        /\ counted'[u]["pending_to_finalizing"] = Counted(u, "pending_to_finalizing")
    BY DEF CountingNext, Counters
  <1>4. [Next]_vars BY DEF CountingNext
  <1>5. \/ uploads'[u] = uploads[u]
        \/ <<uploads[u].state, uploads'[u].state>> \in StateMoves
    BY <1>4, RowOwned
  <1>6. Counted(u, "none_to_pending") <= IF uploads'[u].state = "none" THEN 0 ELSE 1
    <2>1. CASE \E r \in Requests : CountsCreation(r, u)
      <3>1. uploads'[u].state # "none" /\ n = 0 BY <1>4, <2>1, CreationCounted
      <3>2. Counted(u, "none_to_pending") = n + 1 BY <2>1 DEF Counted, Counts
      <3> QED BY <3>1, <3>2
    <2>2. CASE ~\E r \in Requests : CountsCreation(r, u)
      <3>1. Counted(u, "none_to_pending") = n BY <1>1, <2>2 DEF Counted, Counts
      <3>2. uploads'[u].state = "none" => uploads[u].state = "none" BY <1>5 DEF StateMoves
      <3> QED BY <1>1, <1>2, <3>1, <3>2
    <2> QED BY <2>1, <2>2
  <1>7. Counted(u, "pending_to_finalizing") <=
          IF uploads'[u].state \in {"none", "pending"} THEN 0 ELSE 1
    <2>1. CASE \E r \in Requests : CountsCompletion(r, u, "finalizing")
      <3>1. uploads[u].state = "pending" /\ uploads'[u].state = "finalizing"
        BY <2>1 DEF CountsCompletion, Moves
      <3>2. Counted(u, "pending_to_finalizing") = p + 1 BY <2>1 DEF Counted, Counts
      <3> QED BY <1>1, <1>2, <3>1, <3>2
    <2>2. CASE ~\E r \in Requests : CountsCompletion(r, u, "finalizing")
      <3>1. Counted(u, "pending_to_finalizing") = p BY <1>1, <2>2 DEF Counted, Counts
      <3>2. uploads'[u].state \in {"none", "pending"} =>
              uploads[u].state \in {"none", "pending"}
        BY <1>5 DEF StateMoves
      <3> QED BY <1>1, <1>2, <3>1, <3>2
    <2> QED BY <2>1, <2>2
  <1> QED BY <1>3, <1>6, <1>7

\* A request whose insert is in doubt, while others take their steps.
LEMMA OwnerWaits ==
  ASSUME Inv, CountInv, CountingNext, NEW r \in Requests, reqs'[r] = reqs[r]
  PROVE  CreationOwned(r)'
  <1> DEFINE u == reqs[r].upload
  <1>1. CreationOwned(r) BY DEF CountInv
  <1>2. ASSUME reqs[r].pc = "recover", reqs[r].created, uploads'[u].id = r
        PROVE  counted'[u]["none_to_pending"] = 0
    <2>0. u \in Uploads BY <1>2 DEF Inv, Registers, GoodReq, ReqSet
    <2>1. counted'[u]["none_to_pending"] = Counted(u, "none_to_pending")
      BY <2>0 DEF CountingNext, Counters
    <2>2. counted[u]["none_to_pending"] \in Nat BY <2>0 DEF CountInv, Counters
    <2>3. ASSUME NEW q \in Requests, CountsCreation(q, u) PROVE FALSE
      <3>1. uploads'[u].id = q BY <2>0, <2>3, CreationCounted DEF CountingNext
      <3>2. q = r BY <1>2, <3>1
      <3>3. reqs'[r].pc = "idle" BY <2>3, <3>2 DEF CountsCreation, Responds, ReqIdle
      <3> QED BY <1>2, <3>3
    <2>4. Counted(u, "none_to_pending") = counted[u]["none_to_pending"]
      BY <2>2, <2>3 DEF Counted, Counts
    <2>5. CASE uploads[u].state = "none"
      BY <2>0, <2>1, <2>2, <2>4, <2>5 DEF CountInv, CreationAndCompletionCountedOnce
    <2>6. CASE uploads[u].state # "none"
      <3>1. Monotone(u) BY <2>0, StepEffect DEF EffectAfter, CountingNext
      <3>2. uploads[u].id = r BY <1>2, <2>6, <3>1 DEF Monotone
      <3> QED BY <1>1, <1>2, <2>1, <2>4, <3>2 DEF CreationOwned, ReqUpload
    <2> QED BY <2>5, <2>6
  <1> QED BY <1>1, <1>2 DEF CreationOwned, ReqUpload

\* The same when it is its own step that leaves the insert in doubt.
LEMMA OwnerSteps ==
  ASSUME Inv, CountInv, CountingNext, NEW r \in Requests,
         \/ RequestStep(r)
         \/ CrashRequest(r)
         \/ \E u \in Uploads : ClientCalls(r, u)
  PROVE  CreationOwned(r)'
  <1> DEFINE u == reqs[r].upload
  <1>1. reqs'[r].pc = "insert" => reqs'[r].id = r BY RequestCreates
  <1>2. ASSUME reqs'[r].pc = "recover", reqs'[r].created
        PROVE  reqs'[r].id = r /\ uploads'[reqs'[r].upload].id # r
    <2>1. /\ reqs[r].pc = "insert" /\ reqs'[r].upload = u /\ reqs'[r].id = reqs[r].id
          /\ uploads[u].state = "none" /\ UNCHANGED uploads
      BY <1>2, RequestCreates
    <2>2. u \in Uploads BY <2>1 DEF Inv, Registers, GoodReq, ReqSet
    <2>3. uploads[u].id = Null BY <2>1, <2>2 DEF CountInv, NoOwner
    <2>4. r # Null BY StoreAssumption
    <2>5. reqs[r].id = r BY <2>1 DEF CountInv, CreationOwned
    <2> QED BY <2>1, <2>3, <2>4, <2>5
  <1> QED BY <1>1, <1>2 DEF CreationOwned, ReqUpload

\* The initial state.
LEMMA InitCount ==
  Init /\ counted = [u \in Uploads |-> [c \in Counters |-> 0]] => CountInv
  <1> SUFFICES ASSUME Init, counted = [u \in Uploads |-> [c \in Counters |-> 0]]
               PROVE  CountInv
    OBVIOUS
  <1> USE DEF Init, StoreInit, ApiInit
  <1>1. \A u \in Uploads : NoOwner(u) BY DEF NoOwner, NoUpload
  <1>2. \A r \in Requests : CreationOwned(r) BY DEF CreationOwned, ReqIdle
  <1>3. \A u \in Uploads, c \in Counters : counted[u][c] = 0 OBVIOUS
  <1>4. CreationAndCompletionCountedOnce
    BY <1>3 DEF CreationAndCompletionCountedOnce, Counters
  <1> QED BY <1>1, <1>2, <1>4 DEF CountInv

-----------------------------------------------------------------------------
(* The theorems.                                                           *)

\* The counters, the owners of rows and the requests whose insert is in doubt
\* are together inductive, relative to the invariant of the storage.
THEOREM CountInvariant == CountingSpec => []CountInv
  <1>1. Inv /\ CountInv /\ [CountingNext]_<<vars, counted>> => CountInv'
    <2> SUFFICES ASSUME Inv, CountInv, [CountingNext]_<<vars, counted>> PROVE CountInv'
      OBVIOUS
    <2>1. CASE CountingNext
      <3>0. [Next]_vars BY <2>1 DEF CountingNext
      <3>1. counted' \in [Uploads -> [Counters -> Nat]]
        <4>1. \A u \in Uploads, c \in Counters : Counted(u, c) \in Nat
          BY DEF CountInv, Counted
        <4> QED BY <2>1, <4>1 DEF CountingNext
      <3>2. ASSUME NEW u \in Uploads PROVE NoOwner(u)'
        <4>1. NoOwner(u) BY DEF CountInv
        <4>2. \/ uploads'[u] = uploads[u]
              \/ <<uploads[u].state, uploads'[u].state>> \in StateMoves
          BY <3>0, RowOwned
        <4> QED BY <4>1, <4>2 DEF NoOwner, StateMoves
      <3>3. ASSUME NEW r \in Requests PROVE CreationOwned(r)'
        <4>1. CASE UNCHANGED reqs BY <2>1, <4>1, OwnerWaits
        <4>2. CASE ApiNext
          <5>1. PICK q \in Requests : \/ RequestStep(q)
                                      \/ CrashRequest(q)
                                      \/ \E u \in Uploads : ClientCalls(q, u)
            BY <4>2 DEF ApiNext
          <5>2. ReqKept(q) BY <5>1, RequestReqs DEF Inv
          <5>3. CASE r = q BY <2>1, <5>1, <5>3, OwnerSteps
          <5>4. CASE r # q BY <2>1, <5>2, <5>4, OwnerWaits DEF ReqKept
          <5> QED BY <5>3, <5>4
        <4>3. CASE \E u \in Uploads : ClientReads(u)
          BY <4>1, <4>3 DEF ClientReads, getUploadByID, authorizeContentRead
        <4> QED BY <3>0, <4>1, <4>2, <4>3 DEF Next, ServiceNext, vars, apiVars
      <3>4. CreationAndCompletionCountedOnce'
        BY <2>1, CountsKept DEF CreationAndCompletionCountedOnce
      <3> QED BY <3>1, <3>2, <3>3, <3>4 DEF CountInv
    <2>2. CASE UNCHANGED <<vars, counted>>
      BY <2>2 DEF CountInv, NoOwner, CreationOwned, ReqUpload,
                  CreationAndCompletionCountedOnce, vars, storeVars, db, tables, apiVars
    <2> QED BY <2>1, <2>2
  <1>2. [CountingNext]_<<vars, counted>> => [Next]_vars BY DEF CountingNext
  <1>3. CountingSpec => Spec
    BY <1>2, PTL DEF CountingSpec, Spec, CountingNext, Counted
  <1> QED BY <1>1, <1>3, InitCount, StorageInvariant, PTL
          DEF CountingSpec, CountingNext, Counted

\* A replay, a second completion and the recovery of an insert whose commit was
\* in doubt never count a creation or a completion a second time, and none is
\* counted that did not happen, for any number of requests and faults.
THEOREM CountedOnce == CountingSpec => []CreationAndCompletionCountedOnce
  <1>1. CountInv => CreationAndCompletionCountedOnce BY DEF CountInv
  <1> QED BY <1>1, CountInvariant, PTL
=============================================================================
