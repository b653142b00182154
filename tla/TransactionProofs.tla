------------------------- MODULE TransactionProofs --------------------------
(***************************************************************************)
(* The registers of finalizers, maintenance loops and requests are set     *)
(* where their program counters rely on them, and the tables and the       *)
(* transactions in doubt stay consistent whatever order the transactions   *)
(* of the service are applied in: for any sets of uploads, images, tokens, *)
(* requests and workers and any values of the leases, delays, bounds and   *)
(* batch sizes.                                                            *)
(***************************************************************************)
EXTENDS MediaUpload, TLAPS

-----------------------------------------------------------------------------
(* Registers.                                                              *)

HoldsImage(r) ==
  \/ r.pc \in {"register", "confirmRegister", "put", "verify", "ready", "confirmReady"}
  \/ r.pc \in {"renew", "confirmRenew"} /\ r.next \in {"put", "verify"}

\* The registers of a finalizer that its program counter relies on are set.
FinSet(r) ==
  /\ r.pc # "idle" => r.upload \in Uploads
  /\ r.pc \in {"renew", "confirmRenew"} => r.next \in {"getCand", "observe", "put", "verify"}
  /\ HoldsImage(r) => r.img \in Images
  /\ r.pc \in {"reject", "confirmRejected"} => r.reason \in RejectReasons

\* The same for a maintenance loop and for a request.
JanSet(r) ==
  /\ r.pc # "wait" => r.left # 0
  /\ r.pc \in {"confirmExpired", "confirmReservation", "delete", "apply"} => r.upload \in Uploads
  /\ r.pc \in {"confirmReservation", "delete", "apply"} => r.key \in Keys

ReqSet(r) ==
  /\ r.pc # "idle" => r.upload \in Uploads
  /\ r.pc \in {"insert", "authorize", "recover"} => r.id \in Requests
  /\ r.pc \in {"insert", "signReplay", "authorize", "recover"} => r.decl \in Declarations

GoodFin == {r \in FinRow : FinSet(r)}
GoodJan == {r \in JanRow : JanSet(r)}
GoodReq == {r \in ReqRow : ReqSet(r)}

Registers ==
  /\ StoreTypeOK
  /\ fin \in [Finalizers -> GoodFin]
  /\ jan \in [Janitors -> GoodJan]
  /\ reqs \in [Requests -> GoodReq]
  /\ handed \in [Uploads -> SUBSET (Requests \X Declarations)]
  /\ told \in [Uploads -> States]
  /\ redirected \in [Uploads -> SUBSET Images]
  /\ \A u \in Uploads : uploads[u].state # "none" => uploads[u].id \in Requests
  /\ \A r \in Requests : reqs[r].pc = "signReplay" => uploads[reqs[r].upload].state # "none"

\* What a step leaves of the registers: its own are well formed, those of the
\* other workers are as they were.
FinKept(f) ==
  /\ fin' \in [Finalizers -> GoodFin]
  /\ \A g \in Finalizers : g # f => fin'[g] = fin[g]
JanKept(j) ==
  /\ jan' \in [Janitors -> GoodJan]
  /\ \A i \in Janitors : i # j => jan'[i] = jan[i]
ReqKept(q) ==
  /\ reqs' \in [Requests -> GoodReq]
  /\ \A r \in Requests : r # q => reqs'[r] = reqs[r]

\* The initial state sets the registers.
LEMMA InitRegisters == Init => Registers
  <1> SUFFICES ASSUME Init PROVE Registers OBVIOUS
  <1> USE DEF Init, StoreInit, ApiInit, FinInit, JanInit
  <1>1. StoreTypeOK
    BY DEF StoreTypeOK, Time, NoUpload, UploadRow, States, NoDuty, DutyRow
  <1>2. FinIdle \in GoodFin
    BY DEF FinIdle, GoodFin, FinRow, FinSet, HoldsImage, FinPCs, Time
  <1>3. JanWaits \in GoodJan
    BY DEF JanWaits, GoodJan, JanRow, JanSet, JanPCs, Time
  <1>4. ReqIdle \in GoodReq
    BY DEF ReqIdle, GoodReq, ReqRow, ReqSet, ReqPCs, Time
  <1>5. \A u \in Uploads : uploads[u].state = "none"
    BY DEF NoUpload
  <1>6. \A r \in Requests : reqs[r].pc # "signReplay"
    BY DEF ReqIdle
  <1>7. /\ handed \in [Uploads -> SUBSET (Requests \X Declarations)]
        /\ told \in [Uploads -> States]
        /\ redirected \in [Uploads -> SUBSET Images]
    BY DEF States
  <1>8. /\ fin \in [Finalizers -> GoodFin]
        /\ jan \in [Janitors -> GoodJan]
        /\ reqs \in [Requests -> GoodReq]
    BY <1>2, <1>3, <1>4
  <1> QED BY <1>1, <1>5, <1>6, <1>7, <1>8 DEF Registers

-----------------------------------------------------------------------------
(* Finalizer registers.                                                    *)

PlainPCs ==
  {"idle", "confirmClaim", "load", "getCand", "observe", "getStaging",
   "expire", "confirmExpired", "retry"}
ImagePCs == {"register", "confirmRegister", "put", "verify", "ready", "confirmReady"}

\* An idle finalizer needs no registers.
LEMMA IdleRow == FinIdle \in GoodFin
  BY DEF FinIdle, GoodFin, FinRow, FinSet, HoldsImage, FinPCs, Time

\* Most control points need no register but the upload.
LEMMA PlainRow ==
  ASSUME NEW r \in GoodFin, r.pc # "idle", NEW pc \in PlainPCs
  PROVE  [r EXCEPT !.pc = pc] \in GoodFin
  BY DEF GoodFin, FinRow, FinSet, HoldsImage, FinPCs, PlainPCs

\* Between control points that hold an image the image stays.
LEMMA ImageRow ==
  ASSUME NEW r \in GoodFin, r.pc # "idle", r.img \in Images, NEW pc \in ImagePCs
  PROVE  [r EXCEPT !.pc = pc] \in GoodFin
  BY DEF GoodFin, FinRow, FinSet, HoldsImage, FinPCs, ImagePCs

\* A renewal remembers what follows it.
LEMMA RenewRow ==
  ASSUME NEW r \in GoodFin, r.pc # "idle",
         NEW n \in {"getCand", "observe", "put", "verify"},
         n \in {"put", "verify"} => r.img \in Images
  PROVE  [r EXCEPT !.pc = "renew", !.next = n] \in GoodFin
  BY DEF GoodFin, FinRow, FinSet, HoldsImage, FinPCs

\* A step writes the registers of one finalizer.
LEMMA FinUpdate ==
  ASSUME fin \in [Finalizers -> GoodFin], NEW f \in Finalizers, NEW r \in GoodFin,
         fin' = [fin EXCEPT ![f] = r]
  PROVE  FinKept(f)
  BY DEF FinKept

\* claimNextFinalizing and its confirmation keep the registers set.
LEMMA ClaimFin ==
  ASSUME Registers, NEW f \in Finalizers, NEW u \in Uploads, NEW t \in Tokens,
         claimNextFinalizing(f, u, t)
  PROVE  FinKept(f)
  <1> DEFINE row(pc) == [fin[f] EXCEPT !.pc = pc, !.upload = u, !.token = t]
  <1>1. fin[f] \in GoodFin BY DEF Registers
  <1>2. row("load") \in GoodFin
    <2>1. row("load") \in FinRow BY <1>1 DEF GoodFin, FinRow, FinPCs
    <2>2. FinSet(row("load")) BY <1>1 DEF GoodFin, FinRow, FinSet, HoldsImage
    <2> QED BY <2>1, <2>2 DEF GoodFin
  <1>3. row("confirmClaim") \in GoodFin
    <2>1. row("confirmClaim") \in FinRow BY <1>1 DEF GoodFin, FinRow, FinPCs
    <2>2. FinSet(row("confirmClaim")) BY <1>1 DEF GoodFin, FinRow, FinSet, HoldsImage
    <2> QED BY <2>1, <2>2 DEF GoodFin
  <1>4. fin' = [fin EXCEPT ![f] = row("load")] \/ fin' = [fin EXCEPT ![f] = row("confirmClaim")]
    BY DEF claimNextFinalizing, Commit
  <1> QED BY <1>2, <1>3, <1>4, FinUpdate DEF Registers

\* Goto, RenewThen, RejectWith and Stop keep the registers set.
LEMMA MoveFin ==
  ASSUME Registers, NEW f \in Finalizers, fin[f].pc # "idle",
         \/ Stop(f)
         \/ \E pc \in PlainPCs : Goto(f, pc)
         \/ fin[f].img \in Images /\ \E pc \in ImagePCs : Goto(f, pc)
         \/ fin[f].img \in Images /\ \E n \in {"put", "verify"} : RenewThen(f, n)
         \/ fin[f].reason \in RejectReasons /\ Goto(f, "confirmRejected")
         \/ \E reason \in RejectReasons : RejectWith(f, reason)
  PROVE  FinKept(f)
  <1>1. fin[f] \in GoodFin BY DEF Registers
  <1>2. CASE Stop(f)
    BY <1>2, IdleRow, FinUpdate DEF Registers, Stop
  <1>3. ASSUME NEW pc \in PlainPCs, Goto(f, pc) PROVE FinKept(f)
    <2>1. fin' = [fin EXCEPT ![f] = [fin[f] EXCEPT !.pc = pc]] BY <1>3 DEF Goto
    <2>2. [fin[f] EXCEPT !.pc = pc] \in GoodFin BY <1>1, <1>3, PlainRow
    <2> QED BY <2>1, <2>2, FinUpdate DEF Registers
  <1>4. ASSUME NEW pc \in ImagePCs, fin[f].img \in Images, Goto(f, pc)
        PROVE FinKept(f)
    <2>1. fin' = [fin EXCEPT ![f] = [fin[f] EXCEPT !.pc = pc]] BY <1>4 DEF Goto
    <2>2. [fin[f] EXCEPT !.pc = pc] \in GoodFin BY <1>1, <1>4, ImageRow
    <2> QED BY <2>1, <2>2, FinUpdate DEF Registers
  <1>5. ASSUME NEW n \in {"put", "verify"}, fin[f].img \in Images, RenewThen(f, n)
        PROVE FinKept(f)
    <2>1. fin' = [fin EXCEPT ![f] = [fin[f] EXCEPT !.pc = "renew", !.next = n]]
      BY <1>5 DEF RenewThen
    <2>2. [fin[f] EXCEPT !.pc = "renew", !.next = n] \in GoodFin BY <1>1, <1>5, RenewRow
    <2> QED BY <2>1, <2>2, FinUpdate DEF Registers
  <1>6. ASSUME fin[f].reason \in RejectReasons, Goto(f, "confirmRejected")
        PROVE FinKept(f)
    <2>1. fin' = [fin EXCEPT ![f] = [fin[f] EXCEPT !.pc = "confirmRejected"]]
      BY <1>6 DEF Goto
    <2>2. [fin[f] EXCEPT !.pc = "confirmRejected"] \in GoodFin
      BY <1>1, <1>6 DEF GoodFin, FinRow, FinSet, HoldsImage, FinPCs
    <2> QED BY <2>1, <2>2, FinUpdate DEF Registers
  <1>7. ASSUME NEW reason \in RejectReasons, RejectWith(f, reason)
        PROVE FinKept(f)
    <2>1. fin' = [fin EXCEPT ![f] = [fin[f] EXCEPT !.pc = "reject", !.reason = reason]]
      BY <1>7 DEF RejectWith
    <2>2. [fin[f] EXCEPT !.pc = "reject", !.reason = reason] \in GoodFin
      <3>1. [fin[f] EXCEPT !.pc = "reject", !.reason = reason] \in FinRow BY <1>1, <1>7 DEF GoodFin, FinRow, FinPCs
      <3>2. FinSet([fin[f] EXCEPT !.pc = "reject", !.reason = reason]) BY <1>1, <1>7 DEF GoodFin, FinRow, FinSet, HoldsImage
      <3> QED BY <3>1, <3>2 DEF GoodFin
    <2> QED BY <2>1, <2>2, FinUpdate DEF Registers
  <1> QED BY <1>2, <1>3, <1>4, <1>5, <1>6, <1>7

\* The steps that write no other register than these moves do.
LEMMA MovingSteps ==
  ASSUME Registers, NEW f \in Finalizers,
         \/ confirmFinalizeClaim(f)
         \/ registerCandidate(f)
         \/ candidateTracked(f)
         \/ putCandidateObject(f)
         \/ verifyCandidate(f)
         \/ transitionFinalizeReady(f)
         \/ transitionFinalizeRejected(f)
         \/ transitionFinalizeExpiredMissing(f)
         \/ confirmTerminal(f)
         \/ scheduleFinalizeRetry(f)
         \/ CrashFinalizer(f)
  PROVE  FinKept(f)
  <1>1. fin[f] \in GoodFin BY DEF Registers
  <1>2. fin[f].pc \in ImagePCs => fin[f].img \in Images
    BY <1>1 DEF GoodFin, FinSet, HoldsImage, ImagePCs
  <1>3. fin[f].pc = "reject" => fin[f].reason \in RejectReasons
    BY <1>1 DEF GoodFin, FinSet
  <1> DEFINE moves ==
        \/ Stop(f)
        \/ \E pc \in PlainPCs : Goto(f, pc)
        \/ fin[f].img \in Images /\ \E pc \in ImagePCs : Goto(f, pc)
        \/ fin[f].img \in Images /\ \E n \in {"put", "verify"} : RenewThen(f, n)
        \/ fin[f].reason \in RejectReasons /\ Goto(f, "confirmRejected")
        \/ \E reason \in RejectReasons : RejectWith(f, reason)
  <1>4. moves /\ fin[f].pc # "idle"
    <2>1. CASE confirmFinalizeClaim(f)
      BY <2>1 DEF confirmFinalizeClaim, Fails, At, PlainPCs
    <2>2. CASE registerCandidate(f)
      BY <1>2, <2>2 DEF registerCandidate, Transaction, Commit, Fails, At, PlainPCs, ImagePCs
    <2>3. CASE candidateTracked(f)
      BY <1>2, <2>3 DEF candidateTracked, Fails, At, PlainPCs, ImagePCs
    <2>4. CASE putCandidateObject(f)
      BY <1>2, <2>4 DEF putCandidateObject, S3Write, At, PlainPCs, ImagePCs
    <2>5. CASE verifyCandidate(f)
      BY <1>2, <2>5 DEF verifyCandidate, At, PlainPCs, ImagePCs, RejectReasons
    <2>6. CASE transitionFinalizeReady(f)
      BY <1>2, <2>6 DEF transitionFinalizeReady, Transaction, Commit, Fails, At, PlainPCs, ImagePCs
    <2>7. CASE transitionFinalizeRejected(f)
      BY <1>3, <2>7 DEF transitionFinalizeRejected, Transaction, Commit, Fails, At, PlainPCs
    <2>8. CASE transitionFinalizeExpiredMissing(f)
      BY <2>8 DEF transitionFinalizeExpiredMissing, Transaction, Commit, Fails, At, PlainPCs
    <2>9. CASE confirmTerminal(f)
      BY <2>9 DEF confirmTerminal, Fails, PlainPCs
    <2>10. CASE scheduleFinalizeRetry(f)
      BY <2>10 DEF scheduleFinalizeRetry, Transaction, CommitRow, Commit, Fails, At
    <2>11. CASE CrashFinalizer(f)
      BY <2>11 DEF CrashFinalizer, At
    <2> QED BY <2>1, <2>2, <2>3, <2>4, <2>5, <2>6, <2>7, <2>8, <2>9, <2>10, <2>11
  <1> QED BY <1>4, MoveFin

\* The renewal goes to the control point that was remembered.
LEMMA RenewFin ==
  ASSUME Registers, NEW f \in Finalizers,
         renewFinalizeClaim(f) \/ confirmFinalizeRenewal(f)
  PROVE  FinKept(f)
  <1>1. fin[f] \in GoodFin BY DEF Registers
  <1>2. fin[f].pc \in {"renew", "confirmRenew"}
    BY DEF renewFinalizeClaim, confirmFinalizeRenewal, At
  <1> DEFINE unknown == [fin[f] EXCEPT !.pc = "confirmRenew", !.expect = now + Lease]
  <1>3. \/ Stop(f)
        \/ Goto(f, "retry")
        \/ Goto(f, fin[f].next)
        \/ fin' = [fin EXCEPT ![f] = unknown]
    BY DEF renewFinalizeClaim, confirmFinalizeRenewal, Transaction, CommitRow, Commit, Fails
  <1>4. CASE Goto(f, fin[f].next)
    <2>1. fin[f].next \in {"getCand", "observe", "put", "verify"}
      BY <1>1, <1>2 DEF GoodFin, FinSet
    <2>2. fin[f].next \in {"put", "verify"} => fin[f].img \in Images
      BY <1>1, <1>2 DEF GoodFin, FinSet, HoldsImage
    <2> QED BY <1>2, <1>4, <2>1, <2>2, MoveFin DEF PlainPCs, ImagePCs
  <1>5. CASE fin' = [fin EXCEPT ![f] = unknown]
    <2>1. now + Lease \in Nat
      BY FinalizerAssumption DEF Registers, StoreTypeOK, Time
    <2>2. unknown \in GoodFin
      BY <1>1, <1>2, <2>1 DEF GoodFin, FinRow, FinSet, HoldsImage, FinPCs, Time
    <2> QED BY <1>5, <2>2, FinUpdate DEF Registers
  <1>6. CASE Stop(f) \/ Goto(f, "retry")
    BY <1>2, <1>6, MoveFin DEF PlainPCs
  <1> QED BY <1>3, <1>4, <1>5, <1>6

\* The steps that read the database or the bucket into registers.
LEMMA ReadFin ==
  ASSUME Registers, NEW f \in Finalizers,
         \/ loadTrackedCandidates(f)
         \/ getCandidate(f)
         \/ prepareMissingObservation(f)
         \/ captureStaging(f)
  PROVE  FinKept(f)
  <1>1. fin[f] \in GoodFin BY DEF Registers
  <1>2. fin[f].pc \in {"load", "getCand", "observe", "getStaging"}
    BY DEF loadTrackedCandidates, getCandidate, prepareMissingObservation, captureStaging, At
  <1>3. fin[f].upload \in Uploads BY <1>1, <1>2 DEF GoodFin, FinSet
  <1>4. fin[f].todo \subseteq Images BY <1>1 DEF GoodFin, FinRow
  <1>5. ASSUME \/ Stop(f)
               \/ \E pc \in PlainPCs : Goto(f, pc)
               \/ \E reason \in RejectReasons : RejectWith(f, reason)
        PROVE  FinKept(f)
    BY <1>2, <1>5, MoveFin
  <1>6. CASE loadTrackedCandidates(f)
    <2> DEFINE cands == IF Active(f) THEN candidates[fin[f].upload] ELSE {}
               row == [fin[f] EXCEPT !.pc = "renew", !.next = NextCandidate(cands),
                                     !.cands = cands, !.todo = cands]
    <2>1. Goto(f, "retry") \/ fin' = [fin EXCEPT ![f] = row]
      BY <1>6 DEF loadTrackedCandidates, Fails
    <2>2. cands \subseteq Images BY <1>3 DEF Registers, StoreTypeOK
    <2>3. NextCandidate(cands) \in {"getCand", "observe"} BY DEF NextCandidate
    <2>4. row \in GoodFin
      <3> HIDE DEF cands
      <3> QED BY <1>1, <1>2, <2>2, <2>3 DEF GoodFin, FinRow, FinSet, HoldsImage, FinPCs
    <2> QED BY <1>5, <2>1, <2>4, FinUpdate DEF Registers, PlainPCs
  <1>7. CASE getCandidate(f)
    <2>1. ASSUME NEW c \in fin[f].todo,
                 fin' = [fin EXCEPT ![f].pc = "renew",
                                    ![f].next = NextCandidate(fin[f].todo \ {c}),
                                    ![f].todo = @ \ {c}]
          PROVE  FinKept(f)
      <3> DEFINE n == NextCandidate(fin[f].todo \ {c})
                 row == [fin[f] EXCEPT !.pc = "renew", !.next = n, !.todo = @ \ {c}]
      <3>1. fin' = [fin EXCEPT ![f] = row] BY <2>1
      <3>2. n \in {"getCand", "observe"} BY DEF NextCandidate
      <3>3. row \in GoodFin
        <4> HIDE DEF n
        <4> QED BY <1>1, <1>2, <1>4, <3>2 DEF GoodFin, FinRow, FinSet, HoldsImage, FinPCs
      <3> QED BY <3>1, <3>3, FinUpdate DEF Registers
    <2>2. ASSUME NEW c \in fin[f].todo,
                 fin' = [fin EXCEPT ![f].pc = "ready", ![f].img = c]
          PROVE  FinKept(f)
      <3> DEFINE row == [fin[f] EXCEPT !.pc = "ready", !.img = c]
      <3>1. fin' = [fin EXCEPT ![f] = row] BY <2>2
      <3>2. c \in Images BY <1>4
      <3>3. row \in GoodFin
        BY <1>1, <1>2, <3>2 DEF GoodFin, FinRow, FinSet, HoldsImage, FinPCs
      <3> QED BY <3>1, <3>3, FinUpdate DEF Registers
    <2> QED BY <1>5, <1>7, <2>1, <2>2 DEF getCandidate, PlainPCs, RejectReasons
  <1>8. CASE prepareMissingObservation(f)
    <2> DEFINE row == [fin[f] EXCEPT !.pc = "getStaging", !.horizon = Row(f).horizon,
                                     !.eligible = MissingIsFinal(f)]
    <2>1. Stop(f) \/ Goto(f, "retry") \/ fin' = [fin EXCEPT ![f] = row]
      BY <1>8 DEF prepareMissingObservation, Transaction, Fails
    <2>2. Row(f).horizon \in Time BY <1>3 DEF Registers, StoreTypeOK, UploadRow, Row
    <2>3. MissingIsFinal(f) \in BOOLEAN BY DEF MissingIsFinal
    <2>4. row \in GoodFin
      <3>1. row \in FinRow BY <1>1, <1>2, <2>2, <2>3 DEF GoodFin, FinRow, FinPCs
      <3>2. FinSet(row) BY <1>1, <1>2, <2>2, <2>3 DEF GoodFin, FinRow, FinSet, HoldsImage
      <3> QED BY <3>1, <3>2 DEF GoodFin
    <2> QED BY <1>5, <2>1, <2>4, FinUpdate DEF Registers, PlainPCs
  <1>9. CASE captureStaging(f)
    <2>1. ASSUME Object(f, Staging) \in Images,
                 fin' = [fin EXCEPT ![f].pc = "register", ![f].img = Object(f, Staging)]
          PROVE  FinKept(f)
      <3> DEFINE row == [fin[f] EXCEPT !.pc = "register", !.img = Object(f, Staging)]
      <3>1. fin' = [fin EXCEPT ![f] = row] BY <2>1
      <3>2. row \in GoodFin
        BY <1>1, <1>2, <2>1 DEF GoodFin, FinRow, FinSet, HoldsImage, FinPCs
      <3> QED BY <3>1, <3>2, FinUpdate DEF Registers
    <2> QED BY <1>5, <1>9, <2>1 DEF captureStaging, PlainPCs, RejectReasons
  <1> QED BY <1>6, <1>7, <1>8, <1>9

-----------------------------------------------------------------------------
(* Maintenance loop registers.                                              *)

\* One maintenance loop's registers are replaced by well-formed ones.
LEMMA JanUpdate ==
  ASSUME jan \in [Janitors -> GoodJan], NEW j \in Janitors, NEW r \in GoodJan,
         jan' = [jan EXCEPT ![j] = r]
  PROVE  JanKept(j)
  BY DEF JanKept

\* The control points that need no register but the rest of the batch.
LEMMA BatchRow ==
  ASSUME NEW r \in GoodJan, NEW pc \in {"expiry", "reserve"}, NEW n \in Nat, n # 0
  PROVE  [r EXCEPT !.pc = pc, !.left = n] \in GoodJan
  BY DEF GoodJan, JanRow, JanSet, JanPCs

\* Going on with a batch of n.
LEMMA MoreJan ==
  ASSUME Registers, NEW j \in Janitors, NEW n \in Nat, ExpireMore(j, n) \/ CleanMore(j, n)
  PROVE  JanKept(j)
  <1>1. JanWaits \in GoodJan
    BY DEF JanWaits, GoodJan, JanRow, JanSet, JanPCs, Time
  <1>2. [JanWaits EXCEPT !.pc = "reserve", !.left = CleanupBatch] \in GoodJan
    BY <1>1, BatchRow, MaintenanceAssumption
  <1>0. n > 0 => n # 0 OBVIOUS
  <1>3. n > 0 => [JanWaits EXCEPT !.pc = "expiry", !.left = n] \in GoodJan
    BY <1>0, <1>1, BatchRow, Zenon
  <1>4. n > 0 => [JanWaits EXCEPT !.pc = "reserve", !.left = n] \in GoodJan
    BY <1>0, <1>1, BatchRow, Zenon
  <1>5. CASE ExpireMore(j, n)
    <2> DEFINE row == IF n > 0 THEN [JanWaits EXCEPT !.pc = "expiry", !.left = n]
                      ELSE [JanWaits EXCEPT !.pc = "reserve", !.left = CleanupBatch]
    <2>1. row \in GoodJan BY <1>2, <1>3
    <2>2. jan' = [jan EXCEPT ![j] = row] BY <1>5 DEF ExpireMore
    <2> HIDE DEF row
    <2> QED BY <2>1, <2>2, JanUpdate DEF Registers
  <1>6. CASE CleanMore(j, n)
    <2> DEFINE row == IF n > 0 THEN [JanWaits EXCEPT !.pc = "reserve", !.left = n]
                      ELSE JanWaits
    <2>1. row \in GoodJan BY <1>1, <1>4
    <2>2. jan' = [jan EXCEPT ![j] = row] BY <1>6 DEF CleanMore
    <2> HIDE DEF row
    <2> QED BY <2>1, <2>2, JanUpdate DEF Registers
  <1> QED BY <1>5, <1>6

\* The registers of the maintenance loop stay set.
LEMMA JanitorJan ==
  ASSUME Registers, NEW j \in Janitors, JanitorStep(j) \/ CrashJanitor(j)
  PROVE  JanKept(j)
  <1>1. jan[j] \in GoodJan BY DEF Registers
  <1>2. jan[j].pc # "wait" => jan[j].left - 1 \in Nat
    BY <1>1 DEF GoodJan, JanRow, JanSet
  <1>3. CASE \/ runMaintenanceLoop(j)
             \/ EndExpiry(j)
             \/ EndSweep(j)
             \/ jan[j].pc # "wait" /\ ExpireMore(j, jan[j].left - 1)
             \/ jan[j].pc # "wait" /\ CleanMore(j, jan[j].left - 1)
    BY <1>2, <1>3, MoreJan, MaintenanceAssumption
    DEF runMaintenanceLoop, EndExpiry, EndSweep
  <1>4. ASSUME NEW u \in Uploads, jan[j].pc = "expiry",
               jan' = [jan EXCEPT ![j].pc = "confirmExpired", ![j].upload = u,
                                  ![j].horizon = uploads[u].horizon]
        PROVE  JanKept(j)
    <2> DEFINE row == [jan[j] EXCEPT !.pc = "confirmExpired", !.upload = u,
                                     !.horizon = uploads[u].horizon]
    <2>1. uploads[u].horizon \in Time BY DEF Registers, StoreTypeOK, UploadRow
    <2>2. row \in GoodJan BY <1>1, <1>4, <2>1 DEF GoodJan, JanRow, JanSet, JanPCs
    <2>3. jan' = [jan EXCEPT ![j] = row] BY <1>4
    <2> QED BY <2>2, <2>3, JanUpdate DEF Registers
  <1>5. ASSUME NEW pc \in {"delete", "confirmReservation"},
               NEW u \in Uploads, NEW k \in Keys, NEW t \in Tokens, jan[j].pc = "reserve",
               HoldDuty(j, u, k, t, pc)
        PROVE  JanKept(j)
    <2> DEFINE row == [jan[j] EXCEPT !.pc = pc, !.upload = u, !.key = k, !.token = t]
    <2>1. row \in GoodJan BY <1>1, <1>5 DEF GoodJan, JanRow, JanSet, JanPCs
    <2>2. jan' = [jan EXCEPT ![j] = row] BY <1>5 DEF HoldDuty
    <2> QED BY <2>1, <2>2, JanUpdate DEF Registers
  <1>6. ASSUME jan[j].pc = "confirmReservation", jan' = [jan EXCEPT ![j].pc = "delete"]
        PROVE  JanKept(j)
    <2> DEFINE row == [jan[j] EXCEPT !.pc = "delete"]
    <2>1. row \in GoodJan BY <1>1, <1>6 DEF GoodJan, JanRow, JanSet, JanPCs
    <2>2. jan' = [jan EXCEPT ![j] = row] BY <1>6
    <2> QED BY <2>1, <2>2, JanUpdate DEF Registers
  <1>7. ASSUME NEW ok \in BOOLEAN, jan[j].pc = "delete",
               jan' = [jan EXCEPT ![j].pc = "apply", ![j].deleted = ok]
        PROVE  JanKept(j)
    <2> DEFINE row == [jan[j] EXCEPT !.pc = "apply", !.deleted = ok]
    <2>1. row \in GoodJan BY <1>1, <1>7 DEF GoodJan, JanRow, JanSet, JanPCs
    <2>2. jan' = [jan EXCEPT ![j] = row] BY <1>7
    <2> QED BY <2>1, <2>2, JanUpdate DEF Registers
  <1>8. CASE runMaintenanceLoop(j)
    BY <1>3, <1>8
  <1>9. CASE expireNextPendingUpload(j)
    <2>1. jan[j].pc = "expiry" BY <1>9 DEF expireNextPendingUpload, JanAt
    <2>2. \/ ExpireMore(j, jan[j].left - 1)
          \/ EndExpiry(j)
          \/ \E u \in Uploads : jan' = [jan EXCEPT ![j].pc = "confirmExpired", ![j].upload = u,
                                                   ![j].horizon = uploads[u].horizon]
      BY <1>9 DEF expireNextPendingUpload, Commit, Fails
    <2> QED BY <1>3, <1>4, <2>1, <2>2
  <1>10. CASE confirmPendingExpired(j)
    <2>1. jan[j].pc # "wait" /\ (ExpireMore(j, jan[j].left - 1) \/ EndExpiry(j))
      BY <1>10 DEF confirmPendingExpired, Fails, JanAt
    <2> QED BY <1>3, <2>1
  <1>11. CASE reserveNextCleanup(j)
    <2>1. jan[j].pc = "reserve" BY <1>11 DEF reserveNextCleanup, JanAt
    <2>2. CASE EndSweep(j) BY <1>3, <2>2
    <2>3. CASE ~EndSweep(j)
      <3>1. \E u \in Uploads, k \in Keys, t \in Tokens :
              \E pc \in {"delete", "confirmReservation"} : HoldDuty(j, u, k, t, pc)
        BY <1>11, <2>3 DEF reserveNextCleanup, CommitDuty, Fails
      <3> QED BY <1>5, <2>1, <3>1
    <2> QED BY <2>2, <2>3
  <1>12. CASE confirmCleanupReservation(j)
    <2>1. jan[j].pc = "confirmReservation" BY <1>12 DEF confirmCleanupReservation, JanAt
    <2>2. EndSweep(j) \/ jan' = [jan EXCEPT ![j].pc = "delete"]
      BY <1>12 DEF confirmCleanupReservation, Fails
    <2> QED BY <1>3, <1>6, <2>1, <2>2
  <1>13. CASE deleteS3Object(j)
    <2>1. jan[j].pc = "delete" BY <1>13 DEF deleteS3Object, JanAt
    <2>2. \E ok \in BOOLEAN : jan' = [jan EXCEPT ![j].pc = "apply", ![j].deleted = ok]
      BY <1>13 DEF deleteS3Object, S3Write
    <2> QED BY <1>7, <2>1, <2>2
  <1>14. CASE applyCleanupResult(j)
    <2>1. jan[j].pc # "wait" BY <1>14 DEF applyCleanupResult, JanAt
    <2>2. CleanMore(j, jan[j].left - 1) \/ EndSweep(j)
      BY <1>14 DEF applyCleanupResult, CommitDuty, Fails
    <2> QED BY <1>3, <2>1, <2>2
  <1>15. CASE CrashJanitor(j)
    <2>1. EndSweep(j) BY <1>15 DEF CrashJanitor
    <2> QED BY <1>3, <2>1
  <1> QED BY <1>8, <1>9, <1>10, <1>11, <1>12, <1>13, <1>14, <1>15 DEF JanitorStep

-----------------------------------------------------------------------------
(* Request registers.                                                       *)

\* One handler's registers are replaced by well-formed ones.
LEMMA ReqUpdate ==
  ASSUME reqs \in [Requests -> GoodReq], NEW q \in Requests, NEW r \in GoodReq,
         reqs' = [reqs EXCEPT ![q] = r]
  PROVE  ReqKept(q)
  BY DEF ReqKept

\* The registers of a request stay set.
LEMMA RequestReqs ==
  ASSUME Registers, NEW q \in Requests,
         \/ RequestStep(q)
         \/ CrashRequest(q)
         \/ \E u \in Uploads : ClientCalls(q, u)
  PROVE  ReqKept(q)
  <1>1. reqs[q] \in GoodReq BY DEF Registers
  <1>2. now + PresignTTL \in Time
    BY StoreAssumption DEF Registers, StoreTypeOK, Time
  <1>3. CASE Respond(q)
    <2>1. ReqIdle \in GoodReq BY DEF ReqIdle, GoodReq, ReqRow, ReqSet, ReqPCs, Time
    <2> QED BY <1>3, <2>1, ReqUpdate DEF Registers, Respond
  <1>4. ASSUME NEW u \in Uploads, ClientCalls(q, u)
        PROVE  ReqKept(q)
    <2> DEFINE create(d) == [ReqIdle EXCEPT !.pc = "insert", !.upload = u, !.decl = d,
                                            !.id = q, !.expires = now + PresignTTL]
               complete == [ReqIdle EXCEPT !.pc = "complete", !.upload = u, !.attempt = 1]
    <2>0. ReqIdle \in GoodReq BY DEF ReqIdle, GoodReq, ReqRow, ReqSet, ReqPCs, Time
    <2>1. \A d \in Declarations : create(d) \in GoodReq
      BY <1>2, <2>0 DEF GoodReq, ReqRow, ReqSet, ReqPCs
    <2>2. complete \in GoodReq
      <3>1. 1 \in 0..2 OBVIOUS
      <3> QED BY <2>0, <3>1 DEF GoodReq, ReqRow, ReqSet, ReqPCs
    <2>3. \/ \E d \in Declarations : reqs' = [reqs EXCEPT ![q] = create(d)]
          \/ reqs' = [reqs EXCEPT ![q] = complete]
      BY <1>4 DEF ClientCalls, presignCreate, presignUploadPUT, startComplete
    <2> HIDE DEF create, complete
    <2> QED BY <2>1, <2>2, <2>3, ReqUpdate DEF Registers
  <1>5. ASSUME reqs[q].pc = "insert", ReqGoto(q, "signReplay")
        PROVE  ReqKept(q)
    <2> DEFINE row == [reqs[q] EXCEPT !.pc = "signReplay"]
    <2>1. row \in GoodReq BY <1>1, <1>5 DEF GoodReq, ReqRow, ReqSet, ReqPCs
    <2>2. reqs' = [reqs EXCEPT ![q] = row] BY <1>5 DEF ReqGoto
    <2> QED BY <2>1, <2>2, ReqUpdate DEF Registers
  <1>15. ASSUME NEW created \in BOOLEAN, Recover(q, created), reqs[q].pc \in {"insert", "authorize"}
        PROVE  ReqKept(q)
    <2> DEFINE row == [reqs[q] EXCEPT !.pc = "recover", !.created = created]
    <2>1. row \in GoodReq BY <1>1, <1>15 DEF GoodReq, ReqRow, ReqSet, ReqPCs
    <2>2. reqs' = [reqs EXCEPT ![q] = row] BY <1>15 DEF Recover
    <2> QED BY <2>1, <2>2, ReqUpdate DEF Registers
  <1>16. ASSUME NEW state, HandOut(q, state) \/ AnswerState(q, state) \/ Answer(q, state) \/ Refuse(q)
        PROVE  Respond(q)
    BY <1>16 DEF HandOut, AnswerState, Answer, Refuse
  <1>6. CASE presignReplay(q)
    <2> DEFINE row == [reqs[q] EXCEPT !.pc = "authorize", !.id = ReqUpload(q).id,
                                      !.expires = now + PresignTTL]
    <2>1. reqs[q].upload \in Uploads
      BY <1>1, <1>6 DEF presignReplay, ReqAt, GoodReq, ReqSet
    <2>2. ReqUpload(q).id \in Requests
      <3>1. uploads[reqs[q].upload].state # "none"
        BY <1>6 DEF presignReplay, ReqAt, Registers
      <3> QED BY <2>1, <3>1 DEF ReqUpload, Registers
    <2>5. reqs[q].decl \in Declarations
      BY <1>1, <1>6 DEF presignReplay, ReqAt, GoodReq, ReqSet
    <2>3. row \in GoodReq BY <1>1, <1>2, <2>1, <2>2, <2>5 DEF GoodReq, ReqRow, ReqSet, ReqPCs
    <2>4. reqs' = [reqs EXCEPT ![q] = row] BY <1>6 DEF presignReplay, presignUploadPUT
    <2> QED BY <2>3, <2>4, ReqUpdate DEF Registers
  <1>7. ASSUME NEW dueBy \in Time \cup {Null}, ReadBack(q, dueBy), reqs[q].pc = "complete"
        PROVE  ReqKept(q)
    <2> DEFINE row == [reqs[q] EXCEPT !.pc = "readback", !.dueBy = dueBy]
    <2>1. row \in GoodReq BY <1>1, <1>7 DEF GoodReq, ReqRow, ReqSet, ReqPCs
    <2>2. reqs' = [reqs EXCEPT ![q] = row] BY <1>7 DEF ReadBack
    <2> QED BY <2>1, <2>2, ReqUpdate DEF Registers
  <1>8. ASSUME reqs[q].pc = "readback", reqs[q].attempt < 2,
               reqs' = [reqs EXCEPT ![q].pc = "complete", ![q].attempt = @ + 1,
                                    ![q].dueBy = Null]
        PROVE  ReqKept(q)
    <2> DEFINE row == [reqs[q] EXCEPT !.pc = "complete", !.attempt = @ + 1, !.dueBy = Null]
    <2>0. reqs[q].attempt + 1 \in 0..2 BY <1>1, <1>8 DEF GoodReq, ReqRow
    <2>1. row \in GoodReq BY <1>1, <1>8, <2>0 DEF GoodReq, ReqRow, ReqSet, ReqPCs
    <2>2. reqs' = [reqs EXCEPT ![q] = row] BY <1>8
    <2> QED BY <2>1, <2>2, ReqUpdate DEF Registers
  <1>9. CASE createOrReplayUpload(q)
    <2>1. reqs[q].pc = "insert" BY <1>9 DEF createOrReplayUpload, ReqAt
    <2>2. \/ \E state : HandOut(q, state) \/ AnswerState(q, state)
          \/ Refuse(q)
          \/ Recover(q, TRUE)
          \/ ReqGoto(q, "signReplay")
      BY <1>9 DEF createOrReplayUpload, Transaction, Commit, Fails
    <2> QED BY <1>3, <1>5, <1>15, <1>16, <2>1, <2>2
  <1>10. CASE authorizeReplay(q)
    <2>1. reqs[q].pc = "authorize" BY <1>10 DEF authorizeReplay, ReqAt
    <2>2. \/ \E state : HandOut(q, state) \/ AnswerState(q, state)
          \/ Refuse(q)
          \/ Recover(q, FALSE)
      BY <1>10 DEF authorizeReplay, Transaction, Commit, Fails
    <2> QED BY <1>3, <1>15, <1>16, <2>1, <2>2
  <1>11. CASE recoverUnknownUploadCommit(q)
    <2>1. (\E state : HandOut(q, state) \/ AnswerState(q, state)) \/ Refuse(q)
      BY <1>11 DEF recoverUnknownUploadCommit, Fails
    <2> QED BY <1>3, <1>16, <2>1
  <1>12. CASE completeUploadAttempt(q)
    <2>1. reqs[q].pc = "complete" /\ now \in Time
      BY <1>12 DEF completeUploadAttempt, ReqAt, Registers, StoreTypeOK
    <2>2. \/ \E state : Answer(q, state)
          \/ Respond(q)
          \/ ReadBack(q, Null)
          \/ ReadBack(q, now)
      BY <1>12 DEF completeUploadAttempt, Transaction, Commit, Fails
    <2> QED BY <1>3, <1>7, <1>16, <2>1, <2>2
  <1>13. CASE recoverCompletionOutcome(q)
    <2>1. reqs[q].pc = "readback" BY <1>13 DEF recoverCompletionOutcome, ReqAt
    <2>2. \/ \E state : Answer(q, state)
          \/ Respond(q)
          \/ /\ reqs[q].attempt < 2
             /\ reqs' = [reqs EXCEPT ![q].pc = "complete", ![q].attempt = @ + 1,
                                     ![q].dueBy = Null]
      BY <1>13 DEF recoverCompletionOutcome, Fails
    <2> QED BY <1>3, <1>8, <1>16, <2>1, <2>2
  <1>14. CASE CrashRequest(q)
    BY <1>3, <1>14 DEF CrashRequest
  <1> QED BY <1>4, <1>6, <1>9, <1>10, <1>11, <1>12, <1>13, <1>14 DEF RequestStep

-----------------------------------------------------------------------------
(* The invariant.                                                          *)

StateMoves ==
  {<<"none", "pending">>, <<"pending", "pending">>, <<"pending", "finalizing">>,
   <<"pending", "expired">>, <<"finalizing", "finalizing">>, <<"finalizing", "ready">>,
   <<"finalizing", "rejected">>, <<"finalizing", "expired">>}

\* A write that a transaction may make which finds this row, these candidates
\* and these objects: it moves the upload forward, keeps its identity, never
\* takes back the write horizon or a candidate, records the deletion duties
\* with the terminal state and never before, and publishes only what is stored.
LegalFor(row, cands, objs, w) ==
  /\ IsWrite(w)
  /\ <<row.state, w.row.state>> \in StateMoves
  /\ w.row.id \in Requests
  /\ row.state # "none" => w.row.id = row.id /\ w.row.declared = row.declared
  /\ row.horizon <= w.row.horizon
  /\ cands \subseteq w.cands
  /\ w.row.state = "pending" => w.cands = {}
  /\ w.row.state \notin Terminal => DOMAIN w.tombs = {}
  /\ w.row.state \in Terminal =>
       /\ DOMAIN w.tombs = {Staging} \cup (w.cands \ {w.row.final})
       /\ w.tombs[Staging] = w.row.horizon
  /\ w.row.state # "ready" => w.row.final = Null
  /\ w.row.state = "ready" => w.row.final \in w.cands /\ objs[w.row.final] = w.row.final
  /\ w.row.reason = "upload_deadline_elapsed" =>
       w.row.state = "expired" /\ row.state = "pending"

Legal(u, w) == LegalFor(uploads[u], candidates[u], objects[u], w)

\* A row against the other tables and the bucket: candidates come after the
\* completion, duties with the terminal state, and then for good.
PhaseFor(row, cands, tombs, staging, objs) ==
  /\ row.state = "none" => row.horizon = 0
  /\ row.state \in {"none", "pending"} => cands = {}
  /\ row.state \notin Terminal => tombs = {}
  /\ row.state # "ready" => row.final = Null
  /\ row.state \in Terminal =>
       /\ {Staging} \cup (cands \ {row.final}) \subseteq tombs
       /\ staging.notBefore = row.horizon
  /\ row.state = "ready" =>
       row.final \in cands /\ row.final \notin tombs /\ objs[row.final] = row.final
  /\ row.reason = "upload_deadline_elapsed" => row.state = "expired"

Phase(u) == PhaseFor(uploads[u], candidates[u], tombstoned[u], duty[u][Staging], objects[u])

\* Whatever a transaction in doubt writes is legal when it is applied.
DoubtLegal(u) == Locked(u) => Legal(u, doubt[u])

\* The writes the bucket may receive: a client's PUT to staging, the PUT of a
\* tracked candidate, the DELETE of a tombstoned key.
Allowed(u, k, c) ==
  \/ k = Staging /\ c # Null
  \/ k \in candidates[u] /\ c = k
  \/ k \in tombstoned[u] /\ c = Null

\* A candidate key holds the tracked image or nothing.
CandidateKey(u, k) == objects[u][k] = Null \/ (objects[u][k] = k /\ k \in candidates[u])

\* What a finalizer is about to PUT is tracked, and what it is about to
\* publish is stored while the upload is not terminal.
FinHolds(f) ==
  /\ WillPut(f) => fin[f].img \in candidates[fin[f].upload]
  /\ fin[f].pc = "ready" /\ Row(f).state \notin Terminal =>
       Object(f, fin[f].img) = fin[f].img

\* What a maintenance loop is about to DELETE is tombstoned, and due.
JanHolds(j) ==
  jan[j].pc \in {"confirmReservation", "delete"} =>
    /\ jan[j].key \in tombstoned[jan[j].upload]
    /\ duty[jan[j].upload][jan[j].key].notBefore <= now

\* What clients were told, given and sent to.
HistoryFor(row, state, given, keys, expires) ==
  /\ state = "pending" => row.state # "none"
  /\ state = "finalizing" => /\ row.state \in {"finalizing"} \cup Terminal
                             /\ row.reason # "upload_deadline_elapsed"
  /\ state \in Terminal => row.state = state
  /\ \A h \in given : row.state # "none" /\ row.id = h[1] /\ row.declared = h[2]
  /\ \A k \in keys : row.state = "ready" /\ row.final = k
  /\ expires <= row.horizon

History(u) == HistoryFor(uploads[u], told[u], handed[u], redirected[u], caps[u])

Inv ==
  /\ Registers
  /\ \A u \in Uploads : Phase(u)
  /\ \A u \in Uploads : DoubtLegal(u)
  /\ \A u \in Uploads : History(u)
  /\ \A u \in Uploads, k \in Images : CandidateKey(u, k)
  /\ \A m \in inflight : Allowed(m.upload, m.key, m.content)
  /\ \A f \in Finalizers : FinHolds(f)
  /\ \A j \in Janitors : JanHolds(j)

-----------------------------------------------------------------------------
(* The effect of a legal write.                                            *)

TablesOK ==
  /\ uploads \in [Uploads -> UploadRow]
  /\ candidates \in [Uploads -> SUBSET Images]
  /\ tombstoned \in [Uploads -> SUBSET Keys]
  /\ duty \in [Uploads -> [Keys -> DutyRow]]
  /\ \A u \in Uploads : uploads[u].state # "none" => uploads[u].id \in Requests

\* The tables only grow, an upload keeps its identity and moves forward, and
\* a terminal row is never written again.
Monotone(u) ==
  /\ candidates[u] \subseteq candidates'[u]
  /\ tombstoned[u] \subseteq tombstoned'[u]
  /\ uploads[u].horizon <= uploads'[u].horizon
  /\ uploads[u].state # "none" => /\ uploads'[u].state # "none"
                                  /\ uploads'[u].id = uploads[u].id
                                  /\ uploads'[u].declared = uploads[u].declared
  /\ uploads[u].state = "finalizing" =>
       /\ uploads'[u].state \in {"finalizing"} \cup Terminal
       /\ uploads'[u].reason # "upload_deadline_elapsed"
  /\ uploads[u].state \in Terminal => uploads'[u] = uploads[u]
  /\ \A k \in tombstoned[u] : duty'[u][k].notBefore = duty[u][k].notBefore

\* A step that leaves a row and its duties alone.
LEMMA Unwritten ==
  ASSUME Inv, NEW u \in Uploads, uploads'[u] = uploads[u], candidates'[u] = candidates[u],
         tombstoned'[u] = tombstoned[u],
         \A k \in Keys : duty'[u][k].notBefore = duty[u][k].notBefore
  PROVE  Monotone(u)
  <1>1. uploads[u] \in UploadRow /\ tombstoned[u] \subseteq Keys
    BY DEF Inv, Registers, StoreTypeOK
  <1>2. uploads[u].horizon <= uploads'[u].horizon BY <1>1 DEF UploadRow, Time
  <1>3. uploads[u].state = "finalizing" => uploads[u].reason # "upload_deadline_elapsed"
    BY DEF Inv, Phase, PhaseFor
  <1> QED BY <1>1, <1>2, <1>3 DEF Monotone

\* The four tables after a write is applied: one upload has the rows that were
\* written, the others are as they were.
LEMMA Applied ==
  ASSUME Inv, NEW u \in Uploads, NEW w, IsWrite(w), Apply(u, w)
  PROVE  /\ uploads'[u] = w.row /\ candidates'[u] = w.cands
         /\ tombstoned'[u] = tombstoned[u] \cup DOMAIN w.tombs
         /\ duty'[u] = ensureTombstones(u, w.tombs)
         /\ \A v \in Uploads : v # u => /\ uploads'[v] = uploads[v]
                                        /\ candidates'[v] = candidates[v]
                                        /\ tombstoned'[v] = tombstoned[v]
                                        /\ duty'[v] = duty[v]
  <1>1. /\ uploads \in [Uploads -> UploadRow]
        /\ candidates \in [Uploads -> SUBSET Images]
        /\ tombstoned \in [Uploads -> SUBSET Keys]
        /\ duty \in [Uploads -> [Keys -> DutyRow]]
    BY DEF Inv, Registers, StoreTypeOK
  <1> QED BY <1>1 DEF Apply

\* The duty rows that ensureTombstones leaves.
LEMMA Ensured ==
  ASSUME Inv, NEW u \in Uploads, NEW w, IsWrite(w)
  PROVE  /\ ensureTombstones(u, w.tombs) \in [Keys -> DutyRow]
         /\ \A k \in tombstoned[u] : ensureTombstones(u, w.tombs)[k] = duty[u][k]
         /\ \A k \in DOMAIN w.tombs \ tombstoned[u] :
              ensureTombstones(u, w.tombs)[k].notBefore = w.tombs[k]
  <1> DEFINE fresh(k) == [ notBefore |-> w.tombs[k], next |-> w.tombs[k],
                           token |-> Null, expires |-> 0 ]
             rows == [k \in Keys |-> IF k \in DOMAIN w.tombs \ tombstoned[u]
                                     THEN fresh(k) ELSE duty[u][k]]
  <1>1. /\ tombstoned[u] \subseteq Keys
        /\ duty[u] \in [Keys -> DutyRow]
        /\ DOMAIN w.tombs \subseteq Keys
        /\ \A k \in DOMAIN w.tombs : w.tombs[k] \in Time
    BY DEF Inv, Registers, StoreTypeOK, IsWrite
  <1>2. \A k \in DOMAIN w.tombs : fresh(k) \in DutyRow /\ fresh(k).notBefore = w.tombs[k]
    BY <1>1 DEF DutyRow, Time
  <1>3. ensureTombstones(u, w.tombs) = rows BY DEF ensureTombstones
  <1> HIDE DEF fresh
  <1>4. rows \in [Keys -> DutyRow] BY <1>1, <1>2
  <1>5. \A k \in tombstoned[u] : rows[k] = duty[u][k] BY <1>1
  <1>6. \A k \in DOMAIN w.tombs \ tombstoned[u] : rows[k].notBefore = w.tombs[k]
    BY <1>1, <1>2
  <1> HIDE DEF rows
  <1> QED BY <1>3, <1>4, <1>5, <1>6

\* A legal write moves its upload forward.
LEMMA LegalMoves ==
  ASSUME Inv, NEW u \in Uploads, NEW w, Legal(u, w), Apply(u, w)
  PROVE  Monotone(u)
  <1>1. IsWrite(w) /\ <<uploads[u].state, w.row.state>> \in StateMoves
    BY DEF Legal, LegalFor
  <1>2. /\ uploads'[u] = w.row /\ candidates'[u] = w.cands
        /\ tombstoned'[u] = tombstoned[u] \cup DOMAIN w.tombs
        /\ duty'[u] = ensureTombstones(u, w.tombs)
    BY <1>1, Applied
  <1>3. \A k \in tombstoned[u] : duty'[u][k] = duty[u][k]
    BY <1>1, <1>2, Ensured
  <1>4. uploads[u].state \notin Terminal /\ w.row.state # "none" BY <1>1 DEF StateMoves, Terminal
  <1>5. uploads[u].state = "finalizing" => w.row.state \in {"finalizing"} \cup Terminal
    BY <1>1 DEF StateMoves, Terminal
  <1>6. uploads[u].state = "finalizing" => w.row.reason # "upload_deadline_elapsed"
    BY DEF Legal, LegalFor
  <1>7. /\ candidates[u] \subseteq w.cands
        /\ uploads[u].horizon <= w.row.horizon
        /\ uploads[u].state # "none" =>
             w.row.id = uploads[u].id /\ w.row.declared = uploads[u].declared
    BY DEF Legal, LegalFor
  <1> QED BY <1>2, <1>3, <1>4, <1>5, <1>6, <1>7 DEF Monotone

\* A legal write leaves its upload in a consistent phase.
LEMMA LegalPhase ==
  ASSUME Inv, NEW u \in Uploads, NEW w, Legal(u, w), Apply(u, w), UNCHANGED objects
  PROVE  Phase(u)'
  <1>1. IsWrite(w) /\ <<uploads[u].state, w.row.state>> \in StateMoves
    BY DEF Legal, LegalFor
  <1>2. uploads[u].state \notin Terminal /\ w.row.state # "none" BY <1>1 DEF StateMoves, Terminal
  <1>3. tombstoned[u] = {} BY <1>2 DEF Inv, Phase, PhaseFor
  <1>4. /\ uploads'[u] = w.row /\ candidates'[u] = w.cands
        /\ tombstoned'[u] = DOMAIN w.tombs
        /\ duty'[u] = ensureTombstones(u, w.tombs)
    BY <1>1, <1>3, Applied
  <1>5. w.row.state \in Terminal => duty'[u][Staging].notBefore = w.row.horizon
    <2> SUFFICES ASSUME w.row.state \in Terminal
                 PROVE  duty'[u][Staging].notBefore = w.row.horizon
      OBVIOUS
    <2>1. Staging \in DOMAIN w.tombs /\ w.tombs[Staging] = w.row.horizon
      BY DEF Legal, LegalFor
    <2> QED BY <1>1, <1>3, <1>4, <2>1, Ensured
  <1>6. w.row.state = "ready" => w.row.final \notin DOMAIN w.tombs
    <2>1. w.row.state = "ready" => w.row.final \in Images
      BY <1>1 DEF Legal, LegalFor, IsWrite
    <2> QED BY <2>1, StoreAssumption DEF Legal, LegalFor, Terminal
  <1>7. /\ w.row.state = "pending" => w.cands = {}
        /\ w.row.state \notin Terminal => DOMAIN w.tombs = {}
        /\ w.row.state # "ready" => w.row.final = Null
        /\ w.row.state \in Terminal => DOMAIN w.tombs = {Staging} \cup (w.cands \ {w.row.final})
        /\ w.row.state = "ready" => w.row.final \in w.cands /\ objects'[u][w.row.final] = w.row.final
        /\ w.row.reason = "upload_deadline_elapsed" => w.row.state = "expired"
    BY DEF Legal, LegalFor
  <1> HIDE DEF Legal
  <1> QED BY <1>2, <1>4, <1>5, <1>6, <1>7 DEF Phase, PhaseFor

\* The tables after a legal write have their types.
LEMMA LegalTypes ==
  ASSUME Inv, NEW u \in Uploads, NEW w, Legal(u, w), Apply(u, w)
  PROVE  TablesOK'
  <1>1. /\ w.row \in UploadRow /\ w.cands \in SUBSET Images
        /\ DOMAIN w.tombs \subseteq Keys /\ IsWrite(w) /\ w.row.id \in Requests
    BY DEF Legal, LegalFor, IsWrite
  <1>2. /\ uploads \in [Uploads -> UploadRow]
        /\ candidates \in [Uploads -> SUBSET Images]
        /\ tombstoned \in [Uploads -> SUBSET Keys]
        /\ duty \in [Uploads -> [Keys -> DutyRow]]
        /\ \A v \in Uploads : uploads[v].state # "none" => uploads[v].id \in Requests
    BY DEF Inv, Registers, StoreTypeOK
  <1>3. ensureTombstones(u, w.tombs) \in [Keys -> DutyRow] BY <1>1, Ensured
  <1>4. uploads' \in [Uploads -> UploadRow] /\ candidates' \in [Uploads -> SUBSET Images]
    BY <1>1, <1>2 DEF Apply
  <1>5. tombstoned' \in [Uploads -> SUBSET Keys] BY <1>1, <1>2 DEF Apply
  <1>6. duty' \in [Uploads -> [Keys -> DutyRow]] BY <1>2, <1>3 DEF Apply
  <1>7. \A v \in Uploads : uploads'[v].state # "none" => uploads'[v].id \in Requests
    BY <1>1, <1>2, Applied
  <1> QED BY <1>4, <1>5, <1>6, <1>7 DEF TablesOK

-----------------------------------------------------------------------------
(* What a step may do to the database.                                     *)

\* The commit of a transaction is acknowledged, or leaves it in doubt.
Commits(u, w) ==
  /\ ~Locked(u)
  /\ \/ Apply(u, w) /\ UNCHANGED doubt
     \/ doubt' = [doubt EXCEPT ![u] = w] /\ UNCHANGED tables

\* A transaction in doubt ends.
Ends(u) ==
  /\ Locked(u)
  /\ Apply(u, doubt[u]) \/ UNCHANGED tables
  /\ doubt' = [doubt EXCEPT ![u] = Null]

\* A sweep writes the columns of a duty that it may write.
Reserves(u, k) ==
  \E row \in DutyRow : row.notBefore = duty[u][k].notBefore /\ SetDuty(u, k, row)

DbEffect ==
  \/ UNCHANGED db
  \/ \E u \in Uploads, k \in Keys : Reserves(u, k)
  \/ \E u \in Uploads : Ends(u)
  \/ \E u \in Uploads : \E w : Legal(u, w) /\ Commits(u, w)

DbAfter ==
  /\ TablesOK'
  /\ DOMAIN doubt' = Uploads
  /\ \A v \in Uploads : Phase(v)' /\ DoubtLegal(v)' /\ Monotone(v)

\* A step that leaves the four tables alone.
LEMMA TablesUnchanged ==
  ASSUME Inv, UNCHANGED tables, UNCHANGED objects
  PROVE  TablesOK' /\ \A v \in Uploads : Phase(v)' /\ Monotone(v)
  <1>1. TablesOK' BY DEF Inv, Registers, StoreTypeOK, TablesOK, tables
  <1>2. ASSUME NEW v \in Uploads PROVE Phase(v)' /\ Monotone(v)
    <2>1. Phase(v)' BY DEF Inv, Phase, tables
    <2>2. Monotone(v) BY Unwritten DEF tables
    <2> QED BY <2>1, <2>2
  <1> QED BY <1>1, <1>2

\* A legal write that is applied.
LEMMA LegalApplied ==
  ASSUME Inv, NEW u \in Uploads, NEW w, Legal(u, w), Apply(u, w), UNCHANGED objects
  PROVE  /\ TablesOK'
         /\ \A v \in Uploads : Phase(v)' /\ Monotone(v)
  <1>1. IsWrite(w) BY DEF Legal, LegalFor
  <1>2. ASSUME NEW v \in Uploads, v # u
        PROVE  /\ uploads'[v] = uploads[v] /\ candidates'[v] = candidates[v]
               /\ tombstoned'[v] = tombstoned[v] /\ duty'[v] = duty[v]
    BY <1>1, <1>2, Applied
  <1>3. ASSUME NEW v \in Uploads, v # u PROVE Phase(v)' /\ Monotone(v)
    <2>1. Phase(v)' BY <1>2, <1>3 DEF Inv, Phase
    <2>2. Monotone(v) BY <1>2, <1>3, Unwritten
    <2> QED BY <2>1, <2>2
  <1>4. Phase(u)' /\ Monotone(u) BY LegalPhase, LegalMoves
  <1>5. TablesOK' BY LegalTypes
  <1> QED BY <1>3, <1>4, <1>5

\* The commit of a legal transaction, acknowledged or not.
LEMMA CommitKeeps ==
  ASSUME Inv, NEW u \in Uploads, NEW w, Legal(u, w), Commits(u, w), UNCHANGED objects
  PROVE  DbAfter
  <1>0. DOMAIN doubt = Uploads BY DEF Inv, Registers, StoreTypeOK
  <1>1. CASE Apply(u, w) /\ UNCHANGED doubt
    <2>1. ASSUME NEW v \in Uploads PROVE DoubtLegal(v)'
      <3>1. CASE v = u BY <1>1, <3>1 DEF Commits, DoubtLegal, Locked
      <3>2. CASE v # u
        <4>1. DoubtLegal(v) BY DEF Inv
        <4>2. uploads'[v] = uploads[v] /\ candidates'[v] = candidates[v]
          BY <1>1, <3>2, Applied DEF Legal, LegalFor
        <4> QED BY <1>1, <4>1, <4>2 DEF DoubtLegal, Locked, Legal
      <3> QED BY <3>1, <3>2
    <2> QED BY <1>0, <1>1, <2>1, LegalApplied DEF DbAfter
  <1>2. CASE doubt' = [doubt EXCEPT ![u] = w] /\ UNCHANGED tables
    <2>1. ASSUME NEW v \in Uploads PROVE DoubtLegal(v)'
      <3>1. CASE v = u
        <4>1. doubt'[v] = w BY <1>0, <1>2, <3>1
        <4> QED BY <1>2, <3>1, <4>1 DEF DoubtLegal, Legal, tables
      <3>2. CASE v # u
        <4>1. DoubtLegal(v) BY DEF Inv
        <4>2. doubt'[v] = doubt[v] BY <1>0, <1>2, <3>2
        <4> QED BY <1>2, <4>1, <4>2 DEF DoubtLegal, Locked, Legal, tables
      <3> QED BY <3>1, <3>2
    <2> QED BY <1>0, <1>2, <2>1, TablesUnchanged DEF DbAfter
  <1> QED BY <1>1, <1>2 DEF Commits

\* A transaction in doubt is applied, at whatever time, or rolled back.
LEMMA EndKeeps ==
  ASSUME Inv, NEW u \in Uploads, Ends(u), UNCHANGED objects
  PROVE  DbAfter
  <1>0. DOMAIN doubt = Uploads BY DEF Inv, Registers, StoreTypeOK
  <1>1. Legal(u, doubt[u]) BY DEF Inv, DoubtLegal, Ends
  <1>2. \A v \in Uploads : doubt'[v] = IF v = u THEN Null ELSE doubt[v]
    BY <1>0 DEF Ends
  <1>3. CASE Apply(u, doubt[u])
    <2>1. ASSUME NEW v \in Uploads PROVE DoubtLegal(v)'
      <3>1. CASE v = u BY <1>2, <3>1 DEF DoubtLegal, Locked
      <3>2. CASE v # u
        <4>1. DoubtLegal(v) BY DEF Inv
        <4>2. uploads'[v] = uploads[v] /\ candidates'[v] = candidates[v]
          BY <1>1, <1>3, <3>2, Applied DEF Legal, LegalFor
        <4>3. doubt'[v] = doubt[v] BY <1>2, <3>2
        <4> QED BY <4>1, <4>2, <4>3 DEF DoubtLegal, Locked, Legal
      <3> QED BY <3>1, <3>2
    <2>2. TablesOK' /\ \A v \in Uploads : Phase(v)' /\ Monotone(v)
      BY <1>1, <1>3, LegalApplied
    <2> QED BY <1>0, <2>1, <2>2 DEF DbAfter, Ends
  <1>4. CASE UNCHANGED tables
    <2>1. ASSUME NEW v \in Uploads PROVE DoubtLegal(v)'
      <3>1. CASE v = u BY <1>2, <3>1 DEF DoubtLegal, Locked
      <3>2. CASE v # u
        <4>1. DoubtLegal(v) BY DEF Inv
        <4>2. doubt'[v] = doubt[v] BY <1>2, <3>2
        <4> QED BY <1>4, <4>1, <4>2 DEF DoubtLegal, Locked, Legal, tables
      <3> QED BY <3>1, <3>2
    <2> QED BY <1>0, <1>4, <2>1, TablesUnchanged DEF DbAfter, Ends
  <1> QED BY <1>3, <1>4 DEF Ends

\* A reservation, or its result.
LEMMA ReserveKeeps ==
  ASSUME Inv, NEW u \in Uploads, NEW k \in Keys, Reserves(u, k), UNCHANGED objects
  PROVE  DbAfter
  <1>1. PICK row \in DutyRow : row.notBefore = duty[u][k].notBefore /\ SetDuty(u, k, row)
    BY DEF Reserves
  <1>2. /\ duty \in [Uploads -> [Keys -> DutyRow]]
        /\ duty' = [duty EXCEPT ![u][k] = row]
        /\ UNCHANGED <<uploads, candidates, tombstoned, doubt>>
    BY <1>1 DEF Inv, Registers, StoreTypeOK, SetDuty
  <1>3. duty' \in [Uploads -> [Keys -> DutyRow]] BY <1>2
  <1>4. \A v \in Uploads, l \in Keys : duty'[v][l].notBefore = duty[v][l].notBefore
    <2> SUFFICES ASSUME NEW v \in Uploads, NEW l \in Keys
                 PROVE  duty'[v][l].notBefore = duty[v][l].notBefore
      OBVIOUS
    <2>1. CASE v = u /\ l = k BY <1>1, <1>2, <2>1
    <2>2. CASE ~(v = u /\ l = k) BY <1>2, <2>2
    <2> QED BY <2>1, <2>2
  <1>5. TablesOK' BY <1>2, <1>3 DEF Inv, Registers, StoreTypeOK, TablesOK
  <1>6. ASSUME NEW v \in Uploads PROVE Phase(v)' /\ DoubtLegal(v)' /\ Monotone(v)
    <2>1. Staging \in Keys BY DEF Keys
    <2>2. duty'[v][Staging].notBefore = duty[v][Staging].notBefore BY <1>4, <2>1
    <2>3. Phase(v) /\ DoubtLegal(v) BY DEF Inv
    <2>4. Phase(v)' BY <1>2, <2>2, <2>3 DEF Phase, PhaseFor
    <2>5. DoubtLegal(v)' BY <1>2, <2>3 DEF DoubtLegal, Locked, Legal
    <2>6. Monotone(v) BY <1>2, <1>4, Unwritten
    <2> QED BY <2>4, <2>5, <2>6
  <1>7. DOMAIN doubt' = Uploads BY <1>2 DEF Inv, Registers, StoreTypeOK
  <1> QED BY <1>5, <1>6, <1>7 DEF DbAfter

\* Every step's effect on the database keeps it consistent.
LEMMA DbEffectKeeps ==
  ASSUME Inv, DbEffect, UNCHANGED objects
  PROVE  DbAfter
  <1>1. CASE UNCHANGED db
    <2>1. UNCHANGED <<tables, doubt>> BY <1>1 DEF db
    <2>2. ASSUME NEW v \in Uploads PROVE DoubtLegal(v)'
      <3>1. DoubtLegal(v) BY DEF Inv
      <3> QED BY <2>1, <3>1 DEF DoubtLegal, Locked, Legal, tables
    <2>3. DOMAIN doubt' = Uploads BY <2>1 DEF Inv, Registers, StoreTypeOK
    <2> QED BY <2>1, <2>2, <2>3, TablesUnchanged DEF DbAfter
  <1> QED BY <1>1, CommitKeeps, EndKeeps, ReserveKeeps DEF DbEffect

-----------------------------------------------------------------------------
(* The writes of the service are legal.                                    *)

\* A write of one upload row, with its candidates, that is not terminal.
LEMMA RowLegal ==
  ASSUME Inv, NEW u \in Uploads, NEW row \in UploadRow, NEW cands \in SUBSET Images,
         uploads[u].state \in {"pending", "finalizing"},
         row.state \in {uploads[u].state, "finalizing"},
         row.id = uploads[u].id, row.declared = uploads[u].declared,
         row.final = uploads[u].final, row.reason = uploads[u].reason,
         uploads[u].horizon <= row.horizon,
         candidates[u] \subseteq cands,
         row.state = "pending" => cands = {}
  PROVE  Legal(u, WriteOf(u, row, cands, {}))
  <1> DEFINE w == WriteOf(u, row, cands, {})
  <1>1. w.row = row /\ w.cands = cands /\ DOMAIN w.tombs = {} BY DEF WriteOf
  <1>2. IsWrite(w)
    <2>1. DOMAIN w.tombs \subseteq Keys /\ \A k \in DOMAIN w.tombs : w.tombs[k] \in Time
      BY <1>1
    <2> HIDE DEF w
    <2> QED BY <1>1, <2>1 DEF IsWrite
  <1> HIDE DEF w
  <1>3. uploads[u].final = Null /\ row.reason # "upload_deadline_elapsed" /\ row.id \in Requests
    BY DEF Inv, Registers, Phase, PhaseFor
  <1>4. <<uploads[u].state, row.state>> \in StateMoves BY DEF StateMoves
  <1>5. row.state \notin Terminal BY DEF Terminal
  <1>6. row.state # "ready" BY <1>5 DEF Terminal
  <1>7. Legal(u, w) BY <1>1, <1>2, <1>3, <1>4, <1>5, <1>6 DEF Legal, LegalFor
  <1> QED BY <1>7 DEF w

\* The same for a write that leaves the candidates alone.
LEMMA WriteRowLegal ==
  ASSUME Inv, NEW u \in Uploads, NEW row \in UploadRow,
         uploads[u].state \in {"pending", "finalizing"},
         row.state \in {uploads[u].state, "finalizing"},
         row.id = uploads[u].id, row.declared = uploads[u].declared,
         row.final = uploads[u].final, row.reason = uploads[u].reason,
         uploads[u].horizon <= row.horizon
  PROVE  Legal(u, WriteRow(u, row))
  <1>1. candidates[u] \in SUBSET Images BY DEF Inv, Registers, StoreTypeOK
  <1>2. uploads[u].state = "pending" => candidates[u] = {} BY DEF Inv, Phase, PhaseFor
  <1>3. row.state = "pending" => candidates[u] = {} BY <1>2
  <1> QED BY <1>1, <1>3, RowLegal DEF WriteRow

\* A terminal transition: its tombstones are those of terminalTombstones.
LEMMA TerminalLegal ==
  ASSUME Inv, NEW u \in Uploads, NEW row \in UploadRow,
         <<uploads[u].state, row.state>> \in StateMoves, row.state \in Terminal,
         row.id = uploads[u].id, row.declared = uploads[u].declared,
         row.horizon = uploads[u].horizon,
         row.state # "ready" => row.final = Null,
         row.state = "ready" => /\ row.final \in candidates[u]
                                /\ objects[u][row.final] = row.final,
         row.reason = "upload_deadline_elapsed" =>
           row.state = "expired" /\ uploads[u].state = "pending"
  PROVE  Legal(u, WriteOf(u, row, candidates[u], terminalTombstones(u, row.final)))
  <1> DEFINE keys == terminalTombstones(u, row.final)
             w == WriteOf(u, row, candidates[u], keys)
  <1>1. uploads[u] \in UploadRow /\ candidates[u] \in SUBSET Images /\ now \in Time
    BY DEF Inv, Registers, StoreTypeOK
  <1>2. keys = {Staging} \cup (candidates[u] \ {row.final}) /\ keys \subseteq Keys
    BY <1>1 DEF terminalTombstones, Keys
  <1>3. \A k \in keys : DeleteNotBefore(u, k) \in Time
    BY <1>1 DEF DeleteNotBefore, UploadRow
  <1>4. DeleteNotBefore(u, Staging) = row.horizon BY DEF DeleteNotBefore
  <1> HIDE DEF keys
  <1>5. /\ w.row = row /\ w.cands = candidates[u] /\ DOMAIN w.tombs = keys
        /\ \A k \in keys : w.tombs[k] = DeleteNotBefore(u, k)
    BY DEF WriteOf
  <1> HIDE DEF w
  <1>6. IsWrite(w) BY <1>1, <1>2, <1>3, <1>5 DEF IsWrite
  <1>7. Staging \in keys BY <1>2
  <1>8. w.tombs[Staging] = row.horizon BY <1>4, <1>5, <1>7
  <1>9. uploads[u].state # "none" BY DEF StateMoves, Terminal
  <1>10. row.id \in Requests BY <1>9 DEF Inv, Registers
  <1>11. uploads[u].horizon <= row.horizon BY <1>1 DEF UploadRow, Time
  <1>12. row.state # "pending" BY DEF Terminal
  <1>13. Legal(u, w)
    BY <1>2, <1>5, <1>6, <1>8, <1>9, <1>10, <1>11, <1>12 DEF Legal, LegalFor
  <1> QED BY <1>13 DEF w, keys

\* pending -> expired, by the sweep or by a late completion.
LEMMA ExpireLegal ==
  ASSUME Inv, NEW u \in Uploads, uploads[u].state = "pending"
  PROVE  Legal(u, transitionPendingExpiredLocked(u))
  <1> DEFINE row == [uploads[u] EXCEPT !.state = "expired", !.reason = "upload_deadline_elapsed"]
  <1>1. uploads[u] \in UploadRow /\ candidates[u] = {} /\ uploads[u].final = Null
    BY DEF Inv, Registers, StoreTypeOK, Phase, PhaseFor
  <1>2. row \in UploadRow BY <1>1 DEF UploadRow, States, ExpiryReasons
  <1>3. /\ row.state = "expired" /\ row.final = Null
        /\ row.id = uploads[u].id /\ row.declared = uploads[u].declared
        /\ row.horizon = uploads[u].horizon
    BY <1>1 DEF UploadRow
  <1>4. terminalTombstones(u, row.final) = {Staging} BY <1>1 DEF terminalTombstones
  <1>5. transitionPendingExpiredLocked(u) = WriteOf(u, row, candidates[u], {Staging})
    BY DEF transitionPendingExpiredLocked
  <1> HIDE DEF row
  <1>6. <<uploads[u].state, row.state>> \in StateMoves /\ row.state \in Terminal /\ row.state # "ready"
    BY <1>3 DEF StateMoves, Terminal
  <1> QED BY <1>2, <1>3, <1>4, <1>5, <1>6, TerminalLegal

-----------------------------------------------------------------------------
(* The database steps of the finalizer.                                    *)

\* A worker that found its claim active has its upload's row in finalizing.
LEMMA ActiveRow ==
  ASSUME Inv, NEW f \in Finalizers, fin[f].pc # "idle"
  PROVE  /\ fin[f].upload \in Uploads
         /\ Row(f) \in UploadRow
         /\ Active(f) => uploads[fin[f].upload].state = "finalizing"
  <1>1. fin[f].upload \in Uploads BY DEF Inv, Registers, GoodFin, FinSet
  <1>2. uploads[fin[f].upload] \in UploadRow BY <1>1 DEF Inv, Registers, StoreTypeOK
  <1> QED BY <1>1, <1>2 DEF Active, OwnsClaim, Row

\* The times the finalizer computes.
LEMMA FinTimes ==
  ASSUME Inv
  PROVE  now + Lease \in Time /\ \A d \in RetryDelays : now + d \in Time
  <1>1. now \in Nat BY DEF Inv, Registers, StoreTypeOK, Time
  <1> QED BY <1>1, FinalizerAssumption DEF Time

\* claimNextFinalizing writes the claim of the row it found.
LEMMA ClaimDb ==
  ASSUME Inv, NEW f \in Finalizers, NEW u \in Uploads, NEW t \in Tokens,
         claimNextFinalizing(f, u, t)
  PROVE  DbEffect
  <1> DEFINE row == [uploads[u] EXCEPT !.claim = t, !.claimExp = now + Lease]
  <1>1. uploads[u] \in UploadRow /\ uploads[u].state = "finalizing"
    BY DEF Inv, Registers, StoreTypeOK, claimNextFinalizing, ClaimDue
  <1>2. row \in UploadRow BY <1>1, FinTimes DEF UploadRow
  <1>3. /\ row.state = "finalizing" /\ row.id = uploads[u].id
        /\ row.declared = uploads[u].declared /\ row.final = uploads[u].final
        /\ row.reason = uploads[u].reason /\ uploads[u].horizon <= row.horizon
    BY <1>1 DEF UploadRow, Time
  <1>4. Commits(u, WriteRow(u, row)) BY DEF claimNextFinalizing, Commit, Commits
  <1> HIDE DEF row
  <1>5. Legal(u, WriteRow(u, row)) BY <1>1, <1>2, <1>3, WriteRowLegal
  <1> QED BY <1>4, <1>5 DEF DbEffect

\* renewFinalizeClaim extends the lease of a claim that is active.
LEMMA RenewDb ==
  ASSUME Inv, NEW f \in Finalizers, renewFinalizeClaim(f)
  PROVE  DbEffect
  <1> DEFINE u == fin[f].upload
             row == [Row(f) EXCEPT !.claimExp = now + Lease]
  <1>0. fin[f].pc # "idle" BY DEF renewFinalizeClaim, At
  <1>1. UNCHANGED db \/ (Active(f) /\ Commits(u, WriteRow(u, row)))
    BY DEF renewFinalizeClaim, Transaction, CommitRow, Commit, Fails, Commits
  <1>2. CASE UNCHANGED db BY <1>2 DEF DbEffect
  <1>3. CASE Active(f) /\ Commits(u, WriteRow(u, row))
    <2>1. u \in Uploads /\ uploads[u] \in UploadRow /\ uploads[u].state = "finalizing"
      BY <1>0, <1>3, ActiveRow DEF Row
    <2>2. row \in UploadRow BY <2>1, FinTimes DEF UploadRow, Row
    <2>3. /\ row.state = "finalizing" /\ row.id = uploads[u].id
          /\ row.declared = uploads[u].declared /\ row.final = uploads[u].final
          /\ row.reason = uploads[u].reason /\ uploads[u].horizon <= row.horizon
      BY <2>1 DEF UploadRow, Time, Row
    <2> HIDE DEF row
    <2>4. Legal(u, WriteRow(u, row)) BY <2>1, <2>2, <2>3, WriteRowLegal
    <2> QED BY <1>3, <2>1, <2>4 DEF DbEffect
  <1> QED BY <1>1, <1>2, <1>3

\* scheduleFinalizeRetry gives the claim back and sets the time of the retry.
LEMMA RetryDb ==
  ASSUME Inv, NEW f \in Finalizers, scheduleFinalizeRetry(f)
  PROVE  DbEffect
  <1> DEFINE u == fin[f].upload
             row(d) == [Row(f) EXCEPT !.due = now + d, !.claim = Null, !.claimExp = 0]
  <1>0. fin[f].pc # "idle" BY DEF scheduleFinalizeRetry, At
  <1>1. UNCHANGED db \/ (Active(f) /\ \E d \in RetryDelays : Commits(u, WriteRow(u, row(d))))
    BY DEF scheduleFinalizeRetry, Transaction, CommitRow, Commit, Fails, Commits
  <1>2. CASE UNCHANGED db BY <1>2 DEF DbEffect
  <1>3. ASSUME Active(f), NEW d \in RetryDelays, Commits(u, WriteRow(u, row(d)))
        PROVE  DbEffect
    <2>1. u \in Uploads /\ uploads[u] \in UploadRow /\ uploads[u].state = "finalizing"
      BY <1>0, <1>3, ActiveRow DEF Row
    <2>2. row(d) \in UploadRow BY <2>1, FinTimes DEF UploadRow, Row, Time
    <2>3. /\ row(d).state = "finalizing" /\ row(d).id = uploads[u].id
          /\ row(d).declared = uploads[u].declared /\ row(d).final = uploads[u].final
          /\ row(d).reason = uploads[u].reason /\ uploads[u].horizon <= row(d).horizon
      BY <2>1 DEF UploadRow, Time, Row
    <2> HIDE DEF row
    <2>4. Legal(u, WriteRow(u, row(d))) BY <2>1, <2>2, <2>3, WriteRowLegal
    <2> QED BY <1>3, <2>1, <2>4 DEF DbEffect
  <1> QED BY <1>1, <1>2, <1>3

\* registerCandidate tracks one more image.
LEMMA RegisterDb ==
  ASSUME Inv, NEW f \in Finalizers, registerCandidate(f)
  PROVE  DbEffect
  <1> DEFINE u == fin[f].upload
             cands == candidates[u] \cup {fin[f].img}
  <1>0. fin[f].pc # "idle" /\ fin[f].img \in Images
    BY DEF registerCandidate, At, Inv, Registers, GoodFin, FinSet, HoldsImage
  <1>1. UNCHANGED db \/ (Active(f) /\ Commits(u, WriteOf(u, uploads[u], cands, {})))
    BY DEF registerCandidate, Transaction, Commit, Fails, Commits, Row
  <1>2. CASE UNCHANGED db BY <1>2 DEF DbEffect
  <1>3. CASE Active(f) /\ Commits(u, WriteOf(u, uploads[u], cands, {}))
    <2>1. u \in Uploads /\ uploads[u] \in UploadRow /\ uploads[u].state = "finalizing"
      BY <1>0, <1>3, ActiveRow DEF Row
    <2>2. cands \in SUBSET Images /\ candidates[u] \subseteq cands
      BY <1>0, <2>1 DEF Inv, Registers, StoreTypeOK
    <2>3. uploads[u].horizon <= uploads[u].horizon BY <2>1 DEF UploadRow, Time
    <2> HIDE DEF cands
    <2>4. Legal(u, WriteOf(u, uploads[u], cands, {})) BY <2>1, <2>2, <2>3, RowLegal
    <2> QED BY <1>3, <2>1, <2>4 DEF DbEffect
  <1> QED BY <1>1, <1>2, <1>3

\* A terminal transition of the finalizer on a row that is finalizing.
LEMMA TerminateDb ==
  ASSUME Inv, NEW f \in Finalizers, fin[f].upload \in Uploads,
         uploads[fin[f].upload].state = "finalizing", NEW row \in UploadRow,
         row.state \in Terminal, row.id = Row(f).id, row.declared = Row(f).declared,
         row.horizon = Row(f).horizon, row.reason # "upload_deadline_elapsed",
         row.state # "ready" => row.final = Null,
         row.state = "ready" => /\ row.final \in candidates[fin[f].upload]
                                /\ Object(f, row.final) = row.final,
         Commits(fin[f].upload, Terminate(f, row, row.final))
  PROVE  DbEffect
  <1> DEFINE u == fin[f].upload
             closed == [row EXCEPT !.due = 0, !.claim = Null, !.claimExp = 0]
  <1>1. closed \in UploadRow BY DEF UploadRow, Time
  <1>2. /\ closed.state = row.state /\ closed.id = row.id /\ closed.declared = row.declared
        /\ closed.horizon = row.horizon /\ closed.reason = row.reason /\ closed.final = row.final
    BY DEF UploadRow
  <1>3. Terminate(f, row, row.final) =
        WriteOf(u, closed, candidates[u], terminalTombstones(u, row.final))
    BY DEF Terminate
  <1> HIDE DEF closed
  <1>4. <<uploads[u].state, closed.state>> \in StateMoves /\ closed.state \in Terminal
    BY <1>2 DEF StateMoves, Terminal
  <1>5. Legal(u, WriteOf(u, closed, candidates[u], terminalTombstones(u, closed.final)))
    BY <1>1, <1>2, <1>4, TerminalLegal DEF Row, Object
  <1>6. Legal(u, Terminate(f, row, row.final)) BY <1>2, <1>3, <1>5
  <1> QED BY <1>6 DEF DbEffect

\* transitionFinalizeReady publishes an image that was found stored.
LEMMA ReadyDb ==
  ASSUME Inv, NEW f \in Finalizers, transitionFinalizeReady(f)
  PROVE  DbEffect
  <1> DEFINE u == fin[f].upload
             row == [Row(f) EXCEPT !.state = "ready", !.final = fin[f].img]
  <1>0. fin[f].pc = "ready" /\ fin[f].img \in Images
    BY DEF transitionFinalizeReady, At, Inv, Registers, GoodFin, FinSet, HoldsImage
  <1>1. UNCHANGED db \/ (/\ Active(f)
                         /\ fin[f].img \in candidates[u]
                         /\ Commits(u, Terminate(f, row, fin[f].img)))
    BY DEF transitionFinalizeReady, Transaction, Commit, Fails, Commits
  <1>2. CASE UNCHANGED db BY <1>2 DEF DbEffect
  <1>3. ASSUME Active(f), fin[f].img \in candidates[u],
               Commits(u, Terminate(f, row, fin[f].img))
        PROVE  DbEffect
    <2>1. u \in Uploads /\ Row(f) \in UploadRow /\ uploads[u].state = "finalizing"
      BY <1>0, <1>3, ActiveRow
    <2>2. Object(f, fin[f].img) = fin[f].img
      BY <1>0, <2>1 DEF Inv, FinHolds, Row, Terminal
    <2>3. Row(f).reason # "upload_deadline_elapsed"
      BY <2>1 DEF Inv, Phase, PhaseFor, Row
    <2>4. row \in UploadRow BY <1>0, <2>1 DEF UploadRow, States
    <2>5. /\ row.state = "ready" /\ row.final = fin[f].img
          /\ row.id = Row(f).id /\ row.declared = Row(f).declared
          /\ row.horizon = Row(f).horizon /\ row.reason = Row(f).reason
      BY <2>1 DEF UploadRow
    <2> HIDE DEF row
    <2>6. row.state \in Terminal BY <2>5 DEF Terminal
    <2> QED BY <1>3, <2>1, <2>2, <2>3, <2>4, <2>5, <2>6, TerminateDb
  <1> QED BY <1>1, <1>2, <1>3

\* transitionFinalizeRejected and transitionFinalizeExpiredMissing publish nothing.
LEMMA CloseDb ==
  ASSUME Inv, NEW f \in Finalizers,
         transitionFinalizeRejected(f) \/ transitionFinalizeExpiredMissing(f)
  PROVE  DbEffect
  <1> DEFINE u == fin[f].upload
             row(state, reason) == [Row(f) EXCEPT !.state = state, !.reason = reason]
             missing == "staging_missing_after_write_window"
  <1>0. fin[f].pc # "idle" BY DEF transitionFinalizeRejected, transitionFinalizeExpiredMissing, At
  <1>1. ASSUME Active(f), NEW state \in {"rejected", "expired"},
               NEW reason \in RejectReasons \cup {missing},
               Commits(u, Terminate(f, row(state, reason), Null))
        PROVE  DbEffect
    <2>1. u \in Uploads /\ Row(f) \in UploadRow /\ uploads[u].state = "finalizing"
      BY <1>0, <1>1, ActiveRow
    <2>2. Row(f).final = Null BY <2>1 DEF Inv, Phase, PhaseFor, Row
    <2>3. reason \in RejectReasons \cup ExpiryReasons /\ reason # "upload_deadline_elapsed"
      BY DEF RejectReasons, ExpiryReasons
    <2>4. row(state, reason) \in UploadRow BY <2>1, <2>3 DEF UploadRow, States
    <2>5. /\ row(state, reason).state = state /\ row(state, reason).final = Null
          /\ row(state, reason).id = Row(f).id /\ row(state, reason).declared = Row(f).declared
          /\ row(state, reason).horizon = Row(f).horizon /\ row(state, reason).reason = reason
      BY <2>1, <2>2 DEF UploadRow
    <2> HIDE DEF row
    <2>6. state \in Terminal /\ state # "ready" BY DEF Terminal
    <2> QED BY <1>1, <2>1, <2>3, <2>4, <2>5, <2>6, TerminateDb
  <1>2. CASE UNCHANGED db BY <1>2 DEF DbEffect
  <1>3. CASE transitionFinalizeRejected(f)
    <2>1. fin[f].reason \in RejectReasons
      BY <1>3 DEF transitionFinalizeRejected, At, Inv, Registers, GoodFin, FinSet
    <2>2. \/ UNCHANGED db
          \/ Active(f) /\ Commits(u, Terminate(f, row("rejected", fin[f].reason), Null))
      BY <1>3 DEF transitionFinalizeRejected, Transaction, Commit, Fails, Commits
    <2> HIDE DEF row
    <2> QED BY <1>1, <1>2, <2>1, <2>2
  <1>4. CASE transitionFinalizeExpiredMissing(f)
    <2>1. \/ UNCHANGED db
          \/ Active(f) /\ Commits(u, Terminate(f, row("expired", missing), Null))
      BY <1>4 DEF transitionFinalizeExpiredMissing, Transaction, Commit, Fails, Commits
    <2> HIDE DEF row
    <2> QED BY <1>1, <1>2, <2>1
  <1> QED BY <1>3, <1>4

\* The steps of the finalizer that write nothing to the database.
LEMMA FinReadsDb ==
  ASSUME NEW f \in Finalizers,
         \/ confirmFinalizeClaim(f) \/ loadTrackedCandidates(f) \/ confirmFinalizeRenewal(f)
         \/ getCandidate(f) \/ prepareMissingObservation(f) \/ captureStaging(f)
         \/ candidateTracked(f) \/ putCandidateObject(f) \/ verifyCandidate(f)
         \/ confirmTerminal(f) \/ CrashFinalizer(f)
  PROVE  UNCHANGED db
  <1>1. CASE confirmFinalizeClaim(f) BY <1>1 DEF confirmFinalizeClaim, Fails
  <1>2. CASE loadTrackedCandidates(f) BY <1>2 DEF loadTrackedCandidates, Fails
  <1>3. CASE confirmFinalizeRenewal(f) BY <1>3 DEF confirmFinalizeRenewal, Fails
  <1>4. CASE getCandidate(f) BY <1>4 DEF getCandidate
  <1>5. CASE prepareMissingObservation(f)
    BY <1>5 DEF prepareMissingObservation, Transaction, Fails
  <1>6. CASE captureStaging(f) BY <1>6 DEF captureStaging
  <1>7. CASE candidateTracked(f) BY <1>7 DEF candidateTracked, Fails
  <1>8. CASE putCandidateObject(f) BY <1>8 DEF putCandidateObject
  <1>9. CASE verifyCandidate(f) BY <1>9 DEF verifyCandidate
  <1>10. CASE confirmTerminal(f) BY <1>10 DEF confirmTerminal, Fails
  <1>11. CASE CrashFinalizer(f) BY <1>11 DEF CrashFinalizer
  <1> QED BY <1>1, <1>2, <1>3, <1>4, <1>5, <1>6, <1>7, <1>8, <1>9, <1>10, <1>11

\* Every step of processNext writes to the database what is legal.
LEMMA FinalizerDb ==
  ASSUME Inv, NEW f \in Finalizers, FinalizerStep(f) \/ CrashFinalizer(f)
  PROVE  DbEffect
  <1>1. CASE UNCHANGED db BY <1>1 DEF DbEffect
  <1> QED BY <1>1, ClaimDb, RenewDb, RetryDb, RegisterDb, ReadyDb, CloseDb, FinReadsDb
          DEF FinalizerStep

-----------------------------------------------------------------------------
(* The database steps of the maintenance loop.                             *)

\* expireNextPendingUpload expires one pending row with its tombstone.
LEMMA ExpirySweepDb ==
  ASSUME Inv, NEW j \in Janitors, expireNextPendingUpload(j)
  PROVE  DbEffect
  <1>1. CASE UNCHANGED db BY <1>1 DEF DbEffect
  <1>2. CASE ~UNCHANGED db
    <2>1. PICK u \in Uploads : /\ ExpiryDue(u)
                               /\ Commits(u, transitionPendingExpiredLocked(u))
      BY <1>2 DEF expireNextPendingUpload, Commit, Fails, Commits, ExpiryDue
    <2>2. uploads[u].state = "pending" BY <2>1 DEF ExpiryDue
    <2> QED BY <2>1, <2>2, ExpireLegal DEF DbEffect
  <1> QED BY <1>1, <1>2

\* reserveNextCleanup writes the reservation of one duty.
LEMMA ReserveDb ==
  ASSUME Inv, NEW j \in Janitors, reserveNextCleanup(j)
  PROVE  DbEffect
  <1>1. CASE UNCHANGED db BY <1>1 DEF DbEffect
  <1>2. CASE ~UNCHANGED db
    <2> DEFINE row(u, k, t) == [duty[u][k] EXCEPT !.token = t, !.expires = now + ReservationLease]
    <2>1. PICK u \in Uploads, k \in Keys, t \in Tokens : SetDuty(u, k, row(u, k, t))
      BY <1>2 DEF reserveNextCleanup, CommitDuty, Fails
    <2>2. duty[u][k] \in DutyRow /\ now \in Nat BY DEF Inv, Registers, StoreTypeOK, Time
    <2>3. now + ReservationLease \in Time BY <2>2, MaintenanceAssumption DEF Time
    <2>4. row(u, k, t) \in DutyRow BY <2>2, <2>3 DEF DutyRow
    <2>5. row(u, k, t).notBefore = duty[u][k].notBefore BY <2>2 DEF DutyRow
    <2> HIDE DEF row
    <2>6. Reserves(u, k) BY <2>1, <2>4, <2>5 DEF Reserves
    <2> QED BY <2>6 DEF DbEffect
  <1> QED BY <1>1, <1>2

\* applyCleanupResult gives the reservation back and sets the next attempt.
LEMMA ResultDb ==
  ASSUME Inv, NEW j \in Janitors, applyCleanupResult(j)
  PROVE  DbEffect
  <1>1. CASE UNCHANGED db BY <1>1 DEF DbEffect
  <1>2. CASE ~UNCHANGED db
    <2> DEFINE u == jan[j].upload
               k == jan[j].key
               delays == IF jan[j].deleted THEN {ProtectiveInterval} ELSE CleanupDelays
               row(d) == [duty[u][k] EXCEPT !.next = now + d, !.token = Null, !.expires = 0]
    <2>1. PICK d \in delays : SetDuty(u, k, row(d))
      BY <1>2 DEF applyCleanupResult, CommitDuty, Fails
    <2>2. u \in Uploads /\ k \in Keys
      BY DEF applyCleanupResult, JanAt, Inv, Registers, GoodJan, JanSet
    <2>3. duty[u][k] \in DutyRow /\ now \in Nat BY <2>2 DEF Inv, Registers, StoreTypeOK, Time
    <2>4. d \in Nat BY MaintenanceAssumption
    <2>5. now + d \in Time BY <2>3, <2>4 DEF Time
    <2>6. row(d) \in DutyRow BY <2>3, <2>5 DEF DutyRow, Time
    <2>7. row(d).notBefore = duty[u][k].notBefore BY <2>3 DEF DutyRow
    <2> HIDE DEF row
    <2>8. Reserves(u, k) BY <2>1, <2>6, <2>7 DEF Reserves
    <2> QED BY <2>2, <2>8 DEF DbEffect
  <1> QED BY <1>1, <1>2

\* Every step of the maintenance loop writes to the database what is legal.
LEMMA JanitorDb ==
  ASSUME Inv, NEW j \in Janitors, JanitorStep(j) \/ CrashJanitor(j)
  PROVE  DbEffect
  <1>0. CASE UNCHANGED db BY <1>0 DEF DbEffect
  <1>1. CASE runMaintenanceLoop(j) BY <1>0, <1>1 DEF runMaintenanceLoop, storeVars
  <1>2. CASE confirmPendingExpired(j) BY <1>0, <1>2 DEF confirmPendingExpired, Fails
  <1>3. CASE confirmCleanupReservation(j) BY <1>0, <1>3 DEF confirmCleanupReservation, Fails
  <1>4. CASE deleteS3Object(j) BY <1>0, <1>4 DEF deleteS3Object
  <1>5. CASE CrashJanitor(j) BY <1>0, <1>5 DEF CrashJanitor
  <1> QED BY <1>1, <1>2, <1>3, <1>4, <1>5, ExpirySweepDb, ReserveDb, ResultDb DEF JanitorStep

-----------------------------------------------------------------------------
(* The database steps of the requests.                                     *)

\* What a handler's registers hold.
LEMMA ReqHolds ==
  ASSUME Inv, NEW q \in Requests, reqs[q].pc # "idle"
  PROVE  /\ reqs[q].upload \in Uploads
         /\ uploads[reqs[q].upload] \in UploadRow
         /\ reqs[q].expires \in Time /\ reqs[q].decl \in Declarations \cup {Null}
         /\ now \in Time
         /\ now + UploadWindow \in Time
  <1>1. reqs[q].upload \in Uploads /\ reqs[q] \in ReqRow /\ now \in Time
    BY DEF Inv, Registers, StoreTypeOK, GoodReq, ReqSet
  <1>2. uploads[reqs[q].upload] \in UploadRow BY <1>1 DEF Inv, Registers, StoreTypeOK
  <1>3. reqs[q].expires \in Time /\ reqs[q].decl \in Declarations \cup {Null}
    BY <1>1 DEF ReqRow
  <1>4. now + UploadWindow \in Time BY <1>1, StoreAssumption DEF Time
  <1> QED BY <1>1, <1>2, <1>3, <1>4

\* createOrReplayUpload inserts the row of an idempotency key that has none.
LEMMA CreateDb ==
  ASSUME Inv, NEW q \in Requests, createOrReplayUpload(q)
  PROVE  DbEffect
  <1> DEFINE u == reqs[q].upload
             row == [NoUpload EXCEPT !.state = "pending", !.id = reqs[q].id,
                                     !.declared = reqs[q].decl,
                                     !.deadline = now + UploadWindow,
                                     !.horizon = reqs[q].expires]
  <1>0. reqs[q].pc = "insert" BY DEF createOrReplayUpload, ReqAt
  <1>1. UNCHANGED db \/ (uploads[u].state = "none" /\ Commits(u, WriteRow(u, row)))
    BY DEF createOrReplayUpload, Transaction, Commit, Fails, Commits
  <1>2. CASE UNCHANGED db BY <1>2 DEF DbEffect
  <1>3. ASSUME uploads[u].state = "none", Commits(u, WriteRow(u, row)) PROVE DbEffect
    <2>1. /\ u \in Uploads /\ uploads[u] \in UploadRow /\ reqs[q].expires \in Time
          /\ reqs[q].decl \in Declarations \cup {Null} /\ now + UploadWindow \in Time
      BY <1>0, ReqHolds
    <2>2. reqs[q].id \in Requests BY <1>0 DEF Inv, Registers, GoodReq, ReqSet
    <2>3. row \in UploadRow
      BY <2>1, <2>2 DEF NoUpload, UploadRow, States, Time
    <2>4. /\ row.state = "pending" /\ row.id \in Requests /\ row.final = Null
          /\ row.reason = Null /\ row.horizon = reqs[q].expires
      BY <2>2 DEF NoUpload
    <2> HIDE DEF row
    <2>5. candidates[u] = {} /\ uploads[u].horizon = 0
      BY <1>3, <2>1 DEF Inv, Phase, PhaseFor
    <2>6. uploads[u].horizon <= row.horizon BY <2>1, <2>4, <2>5 DEF Time
    <2>7. /\ WriteRow(u, row).row = row /\ WriteRow(u, row).cands = {}
          /\ DOMAIN WriteRow(u, row).tombs = {}
      BY <2>5 DEF WriteRow, WriteOf
    <2>8. IsWrite(WriteRow(u, row)) BY <2>3, <2>7 DEF IsWrite
    <2>9. <<uploads[u].state, row.state>> \in StateMoves /\ row.state \notin Terminal /\ row.state # "ready"
      BY <1>3, <2>4 DEF StateMoves, Terminal
    <2>10. row.reason # "upload_deadline_elapsed" BY <2>4, ReasonAssumption DEF ExpiryReasons
    <2>11. Legal(u, WriteRow(u, row))
      BY <1>3, <2>4, <2>5, <2>6, <2>7, <2>8, <2>9, <2>10 DEF Legal, LegalFor
    <2> QED BY <1>3, <2>1, <2>11 DEF DbEffect
  <1> QED BY <1>1, <1>2, <1>3

\* authorizeReplay moves the write horizon forward.
LEMMA ReplayDb ==
  ASSUME Inv, NEW q \in Requests, authorizeReplay(q)
  PROVE  DbEffect
  <1> DEFINE u == reqs[q].upload
             horizon == IF reqs[q].expires > uploads[u].horizon
                        THEN reqs[q].expires ELSE uploads[u].horizon
             row == [uploads[u] EXCEPT !.horizon = horizon]
  <1>0. reqs[q].pc = "authorize" BY DEF authorizeReplay, ReqAt
  <1>1. UNCHANGED db \/ (uploadAcceptsWrites(uploads[u]) /\ Commits(u, WriteRow(u, row)))
    BY DEF authorizeReplay, Transaction, Commit, Fails, Commits
  <1>2. CASE UNCHANGED db BY <1>2 DEF DbEffect
  <1>3. ASSUME uploadAcceptsWrites(uploads[u]), Commits(u, WriteRow(u, row)) PROVE DbEffect
    <2>1. u \in Uploads /\ uploads[u] \in UploadRow /\ reqs[q].expires \in Time
      BY <1>0, ReqHolds
    <2>2. horizon \in Time /\ uploads[u].horizon <= horizon BY <2>1 DEF UploadRow, Time
    <2>3. uploads[u].state \in {"pending", "finalizing"} BY <1>3 DEF uploadAcceptsWrites
    <2> HIDE DEF horizon
    <2>4. row \in UploadRow BY <2>1, <2>2 DEF UploadRow
    <2>5. /\ row.state = uploads[u].state /\ row.id = uploads[u].id
          /\ row.declared = uploads[u].declared /\ row.final = uploads[u].final
          /\ row.reason = uploads[u].reason /\ row.horizon = horizon
      BY <2>1 DEF UploadRow
    <2> HIDE DEF row
    <2>6. Legal(u, WriteRow(u, row)) BY <2>1, <2>2, <2>3, <2>4, <2>5, WriteRowLegal
    <2> QED BY <1>3, <2>1, <2>6 DEF DbEffect
  <1> QED BY <1>1, <1>2, <1>3

\* completeUploadAttempt moves a pending row to finalizing, hurries one that is
\* finalizing, or expires one whose deadline has passed.
LEMMA CompleteDb ==
  ASSUME Inv, NEW q \in Requests, completeUploadAttempt(q)
  PROVE  DbEffect
  <1> DEFINE u == reqs[q].upload
             started == [uploads[u] EXCEPT !.state = "finalizing", !.due = now]
             due == IF now < uploads[u].due THEN now ELSE uploads[u].due
             hurried == [uploads[u] EXCEPT !.due = due]
  <1>0. reqs[q].pc = "complete" BY DEF completeUploadAttempt, ReqAt
  <1>1. \/ UNCHANGED db
        \/ uploads[u].state = "pending" /\ Commits(u, WriteRow(u, started))
        \/ uploads[u].state = "pending" /\ Commits(u, transitionPendingExpiredLocked(u))
        \/ uploads[u].state = "finalizing" /\ Commits(u, WriteRow(u, hurried))
    BY DEF completeUploadAttempt, Transaction, Commit, Fails, Commits, PendingExpirable
  <1>2. u \in Uploads /\ uploads[u] \in UploadRow /\ now \in Time BY <1>0, ReqHolds
  <1>3. uploads[u].horizon <= uploads[u].horizon BY <1>2 DEF UploadRow, Time
  <1>4. CASE UNCHANGED db BY <1>4 DEF DbEffect
  <1>5. ASSUME uploads[u].state = "pending", Commits(u, WriteRow(u, started)) PROVE DbEffect
    <2>1. started \in UploadRow BY <1>2 DEF UploadRow, States
    <2>2. /\ started.state = "finalizing" /\ started.id = uploads[u].id
          /\ started.declared = uploads[u].declared /\ started.final = uploads[u].final
          /\ started.reason = uploads[u].reason /\ started.horizon = uploads[u].horizon
      BY <1>2 DEF UploadRow
    <2> HIDE DEF started
    <2>3. Legal(u, WriteRow(u, started)) BY <1>2, <1>3, <1>5, <2>1, <2>2, WriteRowLegal
    <2> QED BY <1>2, <1>5, <2>3 DEF DbEffect
  <1>6. ASSUME uploads[u].state = "pending", Commits(u, transitionPendingExpiredLocked(u))
        PROVE  DbEffect
    BY <1>2, <1>6, ExpireLegal DEF DbEffect
  <1>7. ASSUME uploads[u].state = "finalizing", Commits(u, WriteRow(u, hurried)) PROVE DbEffect
    <2>0. due \in Time BY <1>2 DEF UploadRow
    <2> HIDE DEF due
    <2>1. hurried \in UploadRow BY <1>2, <2>0 DEF UploadRow
    <2>2. /\ hurried.state = uploads[u].state /\ hurried.id = uploads[u].id
          /\ hurried.declared = uploads[u].declared /\ hurried.final = uploads[u].final
          /\ hurried.reason = uploads[u].reason /\ hurried.horizon = uploads[u].horizon
      BY <1>2 DEF UploadRow
    <2> HIDE DEF hurried
    <2>3. Legal(u, WriteRow(u, hurried)) BY <1>2, <1>3, <1>7, <2>1, <2>2, WriteRowLegal
    <2> QED BY <1>2, <1>7, <2>3 DEF DbEffect
  <1> QED BY <1>1, <1>4, <1>5, <1>6, <1>7

\* Every step of the two POST handlers writes to the database what is legal.
LEMMA RequestDb ==
  ASSUME Inv, NEW q \in Requests,
         \/ RequestStep(q)
         \/ CrashRequest(q)
         \/ \E u \in Uploads : ClientCalls(q, u)
  PROVE  DbEffect
  <1>0. CASE UNCHANGED db BY <1>0 DEF DbEffect
  <1>1. CASE presignReplay(q) BY <1>0, <1>1 DEF presignReplay, storeVars
  <1>2. CASE recoverUnknownUploadCommit(q) BY <1>0, <1>2 DEF recoverUnknownUploadCommit, Fails
  <1>3. CASE recoverCompletionOutcome(q) BY <1>0, <1>3 DEF recoverCompletionOutcome, Fails
  <1>4. CASE CrashRequest(q) BY <1>0, <1>4 DEF CrashRequest
  <1>5. CASE \E v \in Uploads : ClientCalls(q, v)
    BY <1>0, <1>5 DEF ClientCalls, presignCreate, startComplete, storeVars
  <1> QED BY <1>1, <1>2, <1>3, <1>4, <1>5, CreateDb, ReplayDb, CompleteDb DEF RequestStep
=============================================================================
