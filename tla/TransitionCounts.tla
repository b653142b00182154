------------------------- MODULE TransitionCounts --------------------------
(***************************************************************************)
(* The counters upload_transitions_total of the transitions that the API   *)
(* and the expiry sweep report.  A counter is incremented after the        *)
(* transaction, by the handler or loop that believes it made the           *)
(* transition: because the commit was acknowledged (the row changes in its *)
(* step) or because the row, read back, shows the outcome.                 *)
(***************************************************************************)
EXTENDS MediaUpload

VARIABLE counted  \* how often each transition of an upload has been counted

Counters == {"none_to_pending", "pending_to_finalizing", "pending_to_expired"}

Moves(u, from, to) == uploads[u].state = from /\ uploads'[u].state = to

\* The handler answers; it neither failed nor crashed.
Responds(r) == ~ReqAt(r, "idle") /\ reqs'[r] = ReqIdle /\ UNCHANGED faults

\* Faulty variant: a replay that is recovered counts as a creation.
RecoversAnyCreation(r) ==
  /\ ReqAt(r, "recover")
  /\ uploadMatchesCommand(r)
  /\ ReqUpload(r).id = reqs[r].id
  /\ uploadAcceptsWrites(ReqUpload(r)) => CommitShows(r) /\ now < reqs[r].expires

\* The result that recoverUnknownUploadCommit returns is Created.
RecoversCreation(r) ==
  /\ ReqAt(r, "recover")
  /\ reqs[r].created
  /\ uploadMatchesCommand(r)
  /\ ReqUpload(r).id = reqs[r].id
  /\ uploadAcceptsWrites(ReqUpload(r)) => CommitShows(r) /\ now < reqs[r].expires

CountsCreation(r, u) ==
  /\ reqs[r].upload = u
  /\ Responds(r)
  /\ \/ ReqAt(r, "insert") /\ Moves(u, "none", "pending")
     \/ RecoversCreation(r)

CountsCompletion(r, u, state) ==
  /\ reqs[r].upload = u
  /\ ReqAt(r, "complete")
  /\ Responds(r)
  /\ Moves(u, "pending", state)

CountsSweep(j, u) ==
  /\ jan'[j] # jan[j]
  /\ \/ JanAt(j, "expiry") /\ Moves(u, "pending", "expired")
     \/ /\ JanAt(j, "confirmExpired")
        /\ jan[j].upload = u
        /\ ExpiryConfirmed(j)
        /\ UNCHANGED faults

Counts(u, c) ==
  CASE c = "none_to_pending" -> \E r \in Requests : CountsCreation(r, u)
    [] c = "pending_to_finalizing" ->
         \E r \in Requests : CountsCompletion(r, u, "finalizing")
    [] c = "pending_to_expired" ->
         \/ \E r \in Requests : CountsCompletion(r, u, "expired")
         \/ \E j \in Janitors : CountsSweep(j, u)

CountingSpec ==
  /\ Init
  /\ counted = [u \in Uploads |-> [c \in Counters |-> 0]]
  /\ [][/\ Next
        /\ counted' = [u \in Uploads |-> [c \in Counters |->
                         counted[u][c] + (IF Counts(u, c) THEN 1 ELSE 0)]]
       ]_<<vars, counted>>

\* A replay, a second completion or the recovery of an unknown commit never
\* counts a creation or a completion again, and none is counted that did not
\* happen.
CreationAndCompletionCountedOnce ==
  \A u \in Uploads :
    /\ counted[u]["none_to_pending"] <= IF uploads[u].state = "none" THEN 0 ELSE 1
    /\ counted[u]["pending_to_finalizing"] <=
         IF uploads[u].state \in {"none", "pending"} THEN 0 ELSE 1

\* The expiry of a pending upload is counted once, whether the sweep or a late
\* completion made it.  It is not: a sweep whose own transaction was rolled
\* back reads back the expiry that a late completion committed, and both count
\* it.
ExpiryCountedOnce ==
  \A u \in Uploads : counted[u]["pending_to_expired"] <= 1
=============================================================================
