-------------------------- MODULE UploadLifecycle --------------------------
(***************************************************************************)
(* What the service promises about an upload, without leases, retries,     *)
(* commits of unknown outcome, candidates or tombstones: its state only    *)
(* moves forward, and the bytes behind a ready upload are bytes the client *)
(* sent that passed validation, available and unchanged for ever.          *)
(***************************************************************************)
CONSTANTS Uploads, Images, Contents, Null

VARIABLES
  state,      \* the state clients are told
  published,  \* the bytes the final key holds, Null unless ready
  written     \* the bytes that arrived in staging

lifecycleVars == <<state, published, written>>

Init ==
  /\ state = [u \in Uploads |-> "none"]
  /\ published = [u \in Uploads |-> Null]
  /\ written = [u \in Uploads |-> {}]

Move(u, from, to) ==
  /\ state[u] \in from
  /\ state' = [state EXCEPT ![u] = to]

Create(u) == Move(u, {"none"}, "pending") /\ UNCHANGED <<published, written>>

Complete(u) == Move(u, {"pending"}, "finalizing") /\ UNCHANGED <<published, written>>

\* Capabilities exist from creation on and outlive the upload's lifecycle.
Write(u, c) ==
  /\ state[u] # "none"
  /\ written' = [written EXCEPT ![u] = @ \cup {c}]
  /\ UNCHANGED <<state, published>>

Publish(u, c) ==
  /\ Move(u, {"finalizing"}, "ready")
  /\ c \in written[u] \cap Images
  /\ published' = [published EXCEPT ![u] = c]
  /\ UNCHANGED written

Reject(u) == Move(u, {"finalizing"}, "rejected") /\ UNCHANGED <<published, written>>

Expire(u) ==
  Move(u, {"pending", "finalizing"}, "expired") /\ UNCHANGED <<published, written>>

Next ==
  \E u \in Uploads :
    \/ Create(u)
    \/ Complete(u)
    \/ Reject(u)
    \/ Expire(u)
    \/ \E c \in Contents : Write(u, c) \/ Publish(u, c)

Spec == Init /\ [][Next]_lifecycleVars
=============================================================================
