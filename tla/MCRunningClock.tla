--------------------------- MODULE MCRunningClock ---------------------------
(***************************************************************************)
(* MediaUpload with a clock that never stops, for the liveness run.        *)
(***************************************************************************)
EXTENDS MediaUpload

ASSUME ClockAssumption == Cardinality(Uploads \X Keys) <= MaxTime

\* A timestamp one unit further in the past.  1 is in the past when the clock
\* shows MaxTime, and 0 stands for NULL.
Aged(t) == IF t > 1 THEN t - 1 ELSE t

\* The sweep takes the duty that has been due longest, so next_attempt_at ages
\* in a way that keeps the order of the duties.
AgedNext(u, k) ==
  LET before == {d \in Uploads \X Keys : duty[d[1]][d[2]].next \in 1..(duty[u][k].next - 1)}
  IN IF duty[u][k].next > 1 + Cardinality(before)
     THEN duty[u][k].next - 1
     ELSE duty[u][k].next

AgedRow(row) ==
  [row EXCEPT !.deadline = Aged(@), !.horizon = Aged(@), !.due = Aged(@),
              !.claimExp = Aged(@)]

\* Between two renewals a finalizer does at most one S3 call (ten seconds)
\* and a few statements (five seconds each), less than the lease of thirty
\* seconds.
Prompt ==
  \A f \in Finalizers :
    ~At(f, "idle") /\ Active(f) => now + 1 < Row(f).claimExp

\* When the clock shows MaxTime time goes on by making every timestamp older:
\* all the guards compare timestamps with the clock or with each other.
Age ==
  /\ now = MaxTime
  /\ Prompt
  /\ uploads' = [u \in Uploads |-> AgedRow(uploads[u])]
  /\ doubt' = [u \in Uploads |-> IF Locked(u)
       THEN [doubt[u] EXCEPT !.row = AgedRow(@),
                             !.tombs = [k \in DOMAIN @ |-> Aged(@[k])]]
       ELSE Null]
  /\ duty' = [u \in Uploads |-> [k \in Keys |-> [duty[u][k] EXCEPT
       !.notBefore = Aged(@), !.next = AgedNext(u, k), !.expires = Aged(@)]]]
  /\ caps' = [u \in Uploads |-> Aged(caps[u])]
  /\ fin' = [f \in Finalizers |-> [fin[f] EXCEPT
       !.expect = Aged(@), !.horizon = Aged(@)]]
  /\ jan' = [j \in Janitors |-> [jan[j] EXCEPT !.horizon = Aged(@)]]
  /\ reqs' = [r \in Requests |-> [reqs[r] EXCEPT
       !.expires = Aged(@), !.dueBy = IF @ = Null THEN Null ELSE Aged(@)]]
  /\ UNCHANGED <<now, faults, candidates, tombstoned, bucket, history>>

\* Tokens are random, so one fresh token stands for every other.
AnyFreshToken ==
  /\ \A f \in Finalizers :
       fin'[f].token \notin {fin[f].token, Null} =>
         fin'[f].token = CHOOSE t \in Tokens : FreshClaim(fin'[f].upload, t)
  /\ \A j \in Janitors :
       jan'[j].token \notin {jan[j].token, Null} =>
         jan'[j].token =
           CHOOSE t \in Tokens : FreshReservation(jan'[j].upload, jan'[j].key, t)

\* GET requests change nothing the loops see and are left out.
RunningClockSpec ==
  /\ Init
  /\ [][(ServiceNext /\ AnyFreshToken) \/ Age]_vars
  /\ Fairness
  /\ WF_vars(Age)
=============================================================================
