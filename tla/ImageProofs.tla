---------------------------- MODULE ImageProofs ----------------------------
(***************************************************************************)
(* Proofs about ImagePolicy, for any limits on sizes, axes and pixels and  *)
(* objects of any size: the verdict on an image does not depend on how it  *)
(* was delivered, and only the validated bytes are published.              *)
(***************************************************************************)
EXTENDS ImagePolicy, WellFoundedInduction, TLAPS

-----------------------------------------------------------------------------
(* Reading.                                                                *)

\* What a read of an object of n bytes that did not fail tells: that there is
\* too much of it, or all of it.
Tells(r, n) ==
  /\ n > MaxUploadSize => r.length > MaxUploadSize \/ r.bytes > MaxUploadSize
  /\ n <= MaxUploadSize => r.bytes = n /\ r.whole = TRUE /\ r.length \in {-1, n}

\* captureS3Object returns without an error only when it has seen the whole
\* object or enough to know that it is too large.
LEMMA CaptureTells ==
  ASSUME NEW n \in Nat, NEW d \in Delivery(n), ~CaptureFails(n, d)
  PROVE  /\ Tells(captureS3Object(n, d), n)
         /\ captureS3Object(n, d).bytes \in Nat
         /\ captureS3Object(n, d).length \in Int
<1>1. MaxUploadSize \in Nat
      BY ImageAssumption
<1>2. /\ d.header \in BOOLEAN /\ d.broken \in BOOLEAN /\ d.sent \in 0..n
      /\ ~d.header /\ ~d.broken => d.sent = n
      BY DEF Delivery
<1>3. Received(d) \in Nat /\ Received(d) <= n
      BY <1>1, <1>2 DEF Received, Smaller
<1>4. CASE d.header /\ n > MaxUploadSize
  <2>1. captureS3Object(n, d) = [length |-> n, bytes |-> 0, whole |-> FALSE]
        BY <1>4 DEF captureS3Object
  <2>2. QED BY <1>1, <1>4, <2>1 DEF Tells
<1>5. CASE ~(d.header /\ n > MaxUploadSize)
  <2>1. /\ captureS3Object(n, d).bytes = Received(d)
        /\ captureS3Object(n, d).length = IF d.header THEN n ELSE -1
        /\ captureS3Object(n, d).whole = (Received(d) = n)
        BY <1>5 DEF captureS3Object
  <2>2. \/ Received(d) > MaxUploadSize
        \/ ~d.broken /\ (d.header => Received(d) = n)
        BY <1>1, <1>3, <1>5 DEF CaptureFails
  <2>3. ~d.broken /\ ~d.header /\ n > MaxUploadSize => Received(d) > MaxUploadSize
        BY <1>1, <1>2 DEF Received, Smaller
  <2>4. ~d.broken /\ ~d.header /\ n <= MaxUploadSize => Received(d) = n
        BY <1>1, <1>2 DEF Received, Smaller
  <2>5. n > MaxUploadSize => Received(d) > MaxUploadSize
        BY <1>1, <1>2, <1>3, <1>5, <2>2, <2>3
  <2>6. n <= MaxUploadSize => Received(d) = n
        BY <1>1, <1>2, <1>3, <2>2, <2>4
  <2>7. captureS3Object(n, d).length \in {-1, n}
        BY <2>1
  <2>8. n <= MaxUploadSize => captureS3Object(n, d).whole = TRUE
        BY <2>1, <2>6
  <2>9. QED BY <1>1, <1>3, <2>1, <2>5, <2>6, <2>7, <2>8 DEF Tells
<1>6. QED BY <1>4, <1>5

-----------------------------------------------------------------------------
(* Validation.                                                             *)

\* The position of a check whose condition holds and that no such check
\* precedes is one of the ten.
LEMMA FirstFailing ==
  ASSUME NEW T, T \subseteq 1..10, T # {}
  PROVE  Min(T) \in T
<1>1. IsWellFoundedOn(OpToRel(<, Nat), Nat)
      BY NatLessThanWellFounded
<1>2. T \subseteq Nat
      OBVIOUS
<1>3. PICK m \in T : \A n \in T : ~(<<n, m>> \in OpToRel(<, Nat))
      BY <1>1, <1>2, WFMin
<1>4. \A n \in T : <<n, m>> \in Nat \X Nat
      BY <1>2
<1>5. \A n \in T : n < m => <<n, m>> \in OpToRel(<, Nat)
      BY <1>4 DEF OpToRel
<1>6. \A n \in T : m <= n
  <2>1. \A n \in T : ~(n < m)
        BY <1>3, <1>5
  <2>2. m \in Nat /\ \A n \in T : n \in Nat
        BY <1>2
  <2>3. QED BY <2>1, <2>2
<1>7. QED BY <1>3, <1>6 DEF Min

\* Only the two formats that are served have a content type.
LEMMA FormatTypes ==
  ASSUME NEW format \in {"jpeg", "png", "other", "none"}
  PROVE  /\ contentTypeForImageFormat("jpeg") = "image/jpeg"
         /\ contentTypeForImageFormat("png") = "image/png"
         /\ format \in {"other", "none"} => contentTypeForImageFormat(format) = None
         /\ None \notin {"image/jpeg", "image/png"}
BY Zenon DEF None, contentTypeForImageFormat

\* The conditions of the ten checks.
LEMMA Conditions ==
  /\ DOMAIN Checks = 1..10
  /\ Checks[1][1] <=> (read.length > MaxUploadSize)
  /\ Checks[2][1] <=> (read.bytes > MaxUploadSize)
  /\ Checks[3][1] <=> (read.length >= 0 /\ read.length # read.bytes)
  /\ Checks[4][1] <=> (read.bytes # declared.size)
  /\ Checks[5][1] <=> (contentTypeForImageFormat(picture.format) = None)
  /\ Checks[6][1] <=> (contentTypeForImageFormat(picture.format) # declared.type)
  /\ Checks[7][1] <=> ({picture.width, picture.height} \ (1..MaxAxis) # {})
  /\ Checks[8][1] <=> PixelLimitExceeded
  /\ Checks[9][1] <=> (Decoded = "malformed")
  /\ Checks[10][1] <=> (Decoded = "skewed")
<1>1. Checks[1][1] = (read.length > MaxUploadSize)
      BY SMT DEF Checks
<1>2. Checks[2][1] = (read.bytes > MaxUploadSize)
      BY SMT DEF Checks
<1>3. Checks[3][1] = (read.length >= 0 /\ read.length # read.bytes)
      BY SMT DEF Checks
<1>4. Checks[4][1] = (read.bytes # declared.size)
      BY SMT DEF Checks
<1>5. Checks[5][1] = (contentTypeForImageFormat(picture.format) = None)
      BY SMT DEF Checks
<1>6. Checks[6][1] = (contentTypeForImageFormat(picture.format) # declared.type)
      BY SMT DEF Checks
<1>7. Checks[7][1] = ({picture.width, picture.height} \ (1..MaxAxis) # {})
      BY SMT DEF Checks
<1>8. Checks[8][1] = PixelLimitExceeded
      BY SMT DEF Checks
<1>9. Checks[9][1] = (Decoded = "malformed")
      BY SMT DEF Checks
<1>10. Checks[10][1] = (Decoded = "skewed")
      BY SMT DEF Checks
<1>11. DOMAIN Checks = 1..10
      BY SMT DEF Checks
<1>12. QED
      BY <1>1, <1>2, <1>3, <1>4, <1>5, <1>6, <1>7, <1>8, <1>9, <1>10, <1>11, Zenon

\* What the ten checks lead to.
LEMMA Outcomes ==
  /\ Checks[1][2] = InvalidInput("object_too_large", "staging_read")
  /\ Checks[2][2] = InvalidInput("object_too_large", "staging_read")
  /\ Checks[3][2] = Misread
  /\ Checks[4][2] = InvalidInput("declared_size_mismatch", "staging_read")
  /\ Checks[5][2] = InvalidInput("invalid_image_encoding", "decode_config")
  /\ Checks[6][2] = InvalidInput("declared_content_type_mismatch", "decode_config")
  /\ Checks[7][2] = InvalidInput("dimensions_limit_exceeded", "decode_config")
  /\ Checks[8][2] = InvalidInput("pixel_limit_exceeded", "decode_config")
  /\ Checks[9][2] = InvalidInput("malformed_image", "decode")
  /\ Checks[10][2] = Reject("internal_invariant", "decoder_invariant_mismatch", "decode")
BY SMT DEF Checks

\* The rejections that validateImageBytes and the comparison may come to.
Rejections ==
  {v \in [class : {"invalid_input", "internal_invariant"},
          reason : InputReasons \cup InvariantReasons, phase : StorablePhases] :
     [class |-> v.class, reason |-> v.reason] \in StorableRejections}

\* A rejection is neither an acceptance nor a failed read.
LEMMA RejectionsDiffer ==
  ASSUME NEW v \in Rejections
  PROVE  v # Accepted /\ v # Misread
<1>1. v.class \in {"invalid_input", "internal_invariant"}
      BY DEF Rejections
<1>2. Accepted.class = None /\ Misread.class = None
      BY DEF Accepted, Misread
<1>3. v.class # None
      BY <1>1, Zenon DEF None
<1>4. QED BY <1>2, <1>3, Zenon

\* A failed read is not an acceptance.
LEMMA MisreadDiffers == Misread # Accepted
<1>1. Accepted.reason = None /\ Misread.reason = "errStagingRead"
      BY DEF Accepted, Misread
<1>2. QED BY <1>1, Zenon DEF None

\* What a check leads to is a failed read or a rejection that can be stored,
\* and no rejection of the staging object is laid to the candidate.
LEMMA OutcomesStorable ==
  ASSUME NEW i \in 1..10
  PROVE  \/ Checks[i][2] = Misread
         \/ Checks[i][2] \in Rejections /\ Checks[i][2].phase # "candidate_verify"
<1> DEFINE Storable(v) == v \in Rejections /\ v.phase # "candidate_verify"
<1>1. \A reason \in InputReasons, phase \in {"staging_read", "decode_config", "decode"} :
        Storable(InvalidInput(reason, phase))
      BY DEF InvalidInput, Reject, Rejections, StorableRejections, StorablePhases
<1>2. Storable(Reject("internal_invariant", "decoder_invariant_mismatch", "decode"))
      BY DEF Reject, Rejections, StorableRejections, StorablePhases, InvariantReasons
<1>3. \A reason \in {"object_too_large", "dimensions_limit_exceeded",
                     "pixel_limit_exceeded", "declared_size_mismatch",
                     "invalid_image_encoding", "declared_content_type_mismatch",
                     "malformed_image"} : reason \in InputReasons
      BY DEF InputReasons
<1> HIDE DEF Storable
<1>4. Checks[i][2] = Misread \/ Storable(Checks[i][2])
      BY <1>1, <1>2, <1>3, Outcomes
<1>5. QED BY <1>4 DEF Storable

\* validateImageBytes accepts exactly the good images, given a read that tells
\* what there is; otherwise it says what can be stored, or asks for a retry.
LEMMA ValidateDecides ==
  ASSUME declared \in Declaration, size \in Sizes, picture \in Picture,
         Tells(read, size), read.bytes \in Nat, read.length \in Int
  PROVE  \/ validateImageBytes = Accepted /\ Good
         \/ validateImageBytes = Misread
         \/ /\ validateImageBytes \in Rejections /\ ~Good
            /\ validateImageBytes.phase # "candidate_verify"
<1> DEFINE failing == {i \in DOMAIN Checks : Checks[i][1]}
<1>1. failing \subseteq 1..10
      BY Conditions
<1>2. /\ {MaxUploadSize, MaxAxis, MaxPixels} \subseteq Nat \ {0}
      /\ size \in Nat
      BY ImageAssumption DEF Sizes
<1>3. /\ declared.size \in 1..MaxUploadSize
      /\ declared.type \in {"image/jpeg", "image/png"}
      BY DEF Declaration
<1>4. /\ picture.format \in {"jpeg", "png", "other", "none"}
      /\ picture.width \in Nat /\ picture.height \in Nat
      /\ picture.body \in {"sound", "malformed", "skewed"}
      BY <1>2, ImageAssumption DEF Picture, Axes
<1>5. /\ contentTypeForImageFormat("jpeg") = "image/jpeg"
      /\ contentTypeForImageFormat("png") = "image/png"
      /\ picture.format \in {"other", "none"} =>
           contentTypeForImageFormat(picture.format) = None
      /\ None \notin {"image/jpeg", "image/png"}
      BY <1>4, FormatTypes
<1>6. CASE failing = {}
  <2>1. \A i \in 1..10 : ~Checks[i][1]
        BY <1>6, Conditions
  <2>2. /\ read.length <= MaxUploadSize /\ read.bytes <= MaxUploadSize
        /\ read.bytes = declared.size
        BY <1>2, <1>3, <2>1, Conditions
  <2>3. size <= MaxUploadSize /\ size = declared.size /\ read.whole = TRUE
        BY <1>2, <2>2 DEF Tells
  <2>4. contentTypeForImageFormat(picture.format) = declared.type
        BY <2>1, Conditions
  <2>5. picture.format = IF declared.type = "image/jpeg" THEN "jpeg" ELSE "png"
        BY <1>3, <1>4, <1>5, <2>4
  <2>6. picture.width \in 1..MaxAxis /\ picture.height \in 1..MaxAxis
        BY <2>1, Conditions
  <2>7. picture.width * picture.height <= MaxPixels
    <3>1. ~PixelLimitExceeded
          BY <2>1, Conditions
    <3>2. picture.width * picture.height \in Nat /\ MaxPixels \in Nat
          BY <1>2, <1>4
    <3>3. QED BY <3>1, <3>2 DEF PixelLimitExceeded
  <2>8. picture.body = "sound"
    <3>1. Decoded # "malformed" /\ Decoded # "skewed"
          BY <2>1, Conditions
    <3>2. QED BY <1>4, <2>3, <3>1 DEF Decoded
  <2>9. Good
        BY <1>3, <2>3, <2>5, <2>6, <2>7, <2>8 DEF Good
  <2>10. validateImageBytes = Accepted
        BY <1>6 DEF validateImageBytes
  <2>11. QED BY <2>9, <2>10
<1>7. CASE failing # {}
  <2> DEFINE first == Min(failing)
  <2>1. first \in failing
        BY <1>1, <1>7, FirstFailing
  <2>2. validateImageBytes = Checks[first][2]
        BY <1>7, Zenon DEF validateImageBytes
  <2>3. first \in 1..10 /\ Checks[first][1]
        BY <1>1, <2>1
  <2> HIDE DEF first
  <2>4. ~Good \/ Checks[first][2] = Misread
    <3> SUFFICES ASSUME Good PROVE FALSE
        OBVIOUS
    <3>1. /\ size = declared.size /\ size <= MaxUploadSize
          /\ picture.format = IF declared.type = "image/jpeg" THEN "jpeg" ELSE "png"
          /\ picture.width \in 1..MaxAxis /\ picture.height \in 1..MaxAxis
          /\ picture.width * picture.height <= MaxPixels
          /\ picture.body = "sound"
          BY <1>2 DEF Good
    <3>2. read.bytes = size /\ read.whole = TRUE /\ read.length \in {-1, size}
          BY <3>1 DEF Tells
    <3>3. ~Checks[1][1] /\ ~Checks[2][1] /\ ~Checks[3][1] /\ ~Checks[4][1]
          BY <1>2, <3>1, <3>2, Conditions
    <3>4. contentTypeForImageFormat(picture.format) = declared.type
          BY <1>3, <1>5, <3>1
    <3>5. ~Checks[5][1] /\ ~Checks[6][1]
          BY <1>3, <1>5, <3>4, Conditions
    <3>6. ~Checks[7][1]
          BY <3>1, Conditions
    <3>7. ~Checks[8][1]
      <4>1. picture.width * picture.height \in Nat /\ MaxPixels \in Nat
            BY <1>2, <1>4
      <4>2. QED BY <3>1, <4>1, Conditions DEF PixelLimitExceeded
    <3>8. ~Checks[9][1] /\ ~Checks[10][1]
      <4>1. Decoded = "sound"
            BY <3>1, <3>2 DEF Decoded
      <4>2. QED BY <4>1, Conditions
    <3>9. QED BY <2>3, <3>3, <3>5, <3>6, <3>7, <3>8
  <2>5. QED BY <2>2, <2>3, <2>4, OutcomesStorable
<1>8. QED BY <1>6, <1>7

-----------------------------------------------------------------------------
(* The inductive invariant: what is known at each point of a pass.         *)

ImageTypeOK ==
  declared \in Declaration /\ size \in Sizes /\ picture \in Picture

\* The snapshot tells what there is in an object of n bytes.
ReadOf(n) == Tells(read, n) /\ read.bytes \in Nat /\ read.length \in Int

\* The candidate holds the validated image or something else.
StoredOK == stored.size \in Nat /\ (stored.same => stored.size = size)

Pass ==
  /\ pc = "validate" => ReadOf(size)
  /\ pc \in {"verify", "compare", "ready"} => Good /\ StoredOK
  /\ pc = "compare" => ReadOf(stored.size)
  /\ pc = "ready" => stored.same
  /\ pc = "rejected" =>
       /\ verdict \in Rejections
       /\ verdict.phase # "candidate_verify" => ~Good
       /\ verdict.phase = "candidate_verify" => ~stored.same

ImageInv == ImageTypeOK /\ Pass

\* A read of an object fails, or what was read tells what there is.
LEMMA CaptureReads ==
  ASSUME NEW n \in Nat, NEW done, Capture(n, done)
  PROVE  /\ \/ pc' = "retry"
            \/ /\ pc' = done
               /\ Tells(read', n) /\ read'.bytes \in Nat /\ read'.length \in Int
         /\ UNCHANGED <<declared, size, picture, verdict>>
<1>1. PICK d \in Delivery(n) :
        \/ CaptureFails(n, d) /\ pc' = "retry" /\ UNCHANGED read
        \/ ~CaptureFails(n, d) /\ pc' = done /\ read' = captureS3Object(n, d)
      BY DEF Capture
<1>2. ASSUME ~CaptureFails(n, d), read' = captureS3Object(n, d)
      PROVE  Tells(read', n) /\ read'.bytes \in Nat /\ read'.length \in Int
      BY <1>2, CaptureTells
<1>3. UNCHANGED <<declared, size, picture, verdict>>
      BY DEF Capture
<1>4. QED BY <1>1, <1>2, <1>3

\* A staging object is captured, validated, stored and compared: what is known
\* before a step suffices for what must be known after it.
LEMMA NextImage == ImageInv /\ [Next]_vars => ImageInv'
<1> SUFFICES ASSUME ImageInv, [Next]_vars PROVE ImageInv'
    OBVIOUS
<1>1. ImageTypeOK /\ Pass
      BY DEF ImageInv
<1>2. MaxUploadSize \in Nat /\ Slack \in Nat
      BY ImageAssumption
<1>3. size \in Nat
      BY <1>1, <1>2 DEF ImageTypeOK, Sizes
<1>4. /\ UNCHANGED <<declared, size, picture>>
      /\ ImageTypeOK' /\ (Good' <=> Good)
  <2>1. declared' = declared /\ size' = size /\ picture' = picture
        BY DEF Next, vars, CaptureStaging, Validate, ReadCandidate, CompareCandidate, Retry,
               Capture
  <2>2. Good' <=> Good
        BY <2>1 DEF Good
  <2>3. QED BY <1>1, <2>1, <2>2 DEF ImageTypeOK
<1>5. CASE CaptureStaging
  <2>1. Capture(size, "validate")
        BY <1>5 DEF CaptureStaging
  <2>2. \/ pc' = "retry"
        \/ /\ pc' = "validate"
           /\ Tells(read', size) /\ read'.bytes \in Nat /\ read'.length \in Int
        BY <1>3, <2>1, CaptureReads
  <2>3. Pass'
        BY <1>4, <2>2 DEF Pass, ReadOf
  <2>4. QED BY <1>4, <2>3 DEF ImageInv
<1>6. CASE Validate
  <2>1. ReadOf(size)
        BY <1>1, <1>6 DEF Validate, Pass
  <2>2. \/ validateImageBytes = Accepted /\ Good
        \/ validateImageBytes = Misread
        \/ /\ validateImageBytes \in Rejections /\ ~Good
           /\ validateImageBytes.phase # "candidate_verify"
        BY <1>1, <2>1, ValidateDecides DEF ImageTypeOK, ReadOf
  <2>3. verdict' = validateImageBytes
        BY <1>6 DEF Validate
  <2>4. CASE verdict' = Accepted /\ Good
    <3>1. pc' = "verify"
          BY <1>6, <2>4, MisreadDiffers DEF Validate
    <3>2. stored' \in {[size |-> size, same |-> TRUE]} \cup [size : Sizes, same : {FALSE}]
          BY <1>6, <2>4 DEF Validate
    <3>3. StoredOK'
      <4>1. CASE stored' = [size |-> size, same |-> TRUE]
            BY <1>3, <1>4, <4>1 DEF StoredOK
      <4>2. CASE stored' \in [size : Sizes, same : {FALSE}]
        <5>1. stored'.size \in Sizes /\ stored'.same = FALSE
              BY <4>2
        <5>2. stored'.size \in Nat
              BY <1>2, <5>1 DEF Sizes
        <5>3. ~stored'.same
              BY <5>1
        <5>4. QED BY <5>2, <5>3 DEF StoredOK
      <4>3. QED BY <3>2, <4>1, <4>2
    <3>4. QED BY <1>4, <2>4, <3>1, <3>3 DEF ImageInv, Pass
  <2>5. CASE verdict' = Misread
    <3>1. pc' = "retry"
          BY <1>6, <2>5, MisreadDiffers DEF Validate
    <3>2. QED BY <1>4, <3>1 DEF ImageInv, Pass
  <2>6. CASE /\ verdict' \in Rejections /\ ~Good
             /\ verdict'.phase # "candidate_verify"
    <3>1. verdict' # Accepted /\ verdict' # Misread
          BY <2>6, RejectionsDiffer
    <3>2. pc' = "rejected"
          BY <1>6, <3>1 DEF Validate
    <3>3. QED BY <1>4, <2>6, <3>2 DEF ImageInv, Pass
  <2>7. QED BY <2>2, <2>3, <2>4, <2>5, <2>6
<1>7. CASE ReadCandidate
  <2>1. Good /\ StoredOK /\ Capture(stored.size, "compare") /\ stored' = stored
        BY <1>1, <1>7 DEF ReadCandidate, Pass
  <2>2. stored.size \in Nat
        BY <2>1 DEF StoredOK
  <2>3. \/ pc' = "retry"
        \/ /\ pc' = "compare"
           /\ Tells(read', stored.size) /\ read'.bytes \in Nat /\ read'.length \in Int
        BY <2>1, <2>2, CaptureReads
  <2>4. StoredOK'
        BY <1>4, <2>1 DEF StoredOK
  <2>5. Pass'
        BY <1>4, <2>1, <2>3, <2>4 DEF Pass, ReadOf
  <2>6. QED BY <1>4, <2>5 DEF ImageInv
<1>8. CASE CompareCandidate
  <2>1. /\ Good /\ StoredOK /\ ReadOf(stored.size)
        /\ stored' = stored
        BY <1>1, <1>8 DEF CompareCandidate, Pass
  <2>2. StoredOK'
        BY <1>4, <2>1 DEF StoredOK
  <2>3. CASE candidateMatchesSnapshot
    <3>1. pc' = "ready" /\ stored.same
          BY <1>8, <2>3 DEF CompareCandidate, candidateMatchesSnapshot
    <3>2. stored'.same
          BY <2>1, <3>1
    <3>3. QED BY <1>4, <2>1, <2>2, <3>1, <3>2 DEF ImageInv, Pass
  <2>4. CASE ~candidateMatchesSnapshot
    <3>1. /\ pc' = "rejected"
          /\ verdict' = Reject("internal_invariant", "candidate_integrity_mismatch",
                               "candidate_verify")
          BY <1>8, <2>4 DEF CompareCandidate
    <3>2. ~stored.same
      <4>1. SUFFICES ASSUME stored.same PROVE candidateMatchesSnapshot
            BY <2>4
      <4>2. stored.size = size /\ size <= MaxUploadSize
            BY <1>2, <2>1, <4>1 DEF StoredOK, Good
      <4>3. read.bytes = size /\ read.whole = TRUE
            BY <2>1, <4>2 DEF ReadOf, Tells
      <4>4. QED BY <4>1, <4>3 DEF candidateMatchesSnapshot
    <3>3. verdict' \in Rejections /\ verdict'.phase = "candidate_verify"
          BY <3>1 DEF Reject, Rejections, StorableRejections, StorablePhases,
                      InvariantReasons
    <3>4. ~stored'.same
          BY <2>1, <3>2
    <3>5. QED BY <1>4, <3>1, <3>3, <3>4 DEF ImageInv, Pass
  <2>5. QED BY <2>3, <2>4
<1>9. CASE Retry
  BY <1>4, <1>9 DEF Retry, ImageInv, Pass
<1>10. CASE UNCHANGED vars
  <2>1. pc' = pc /\ read' = read /\ stored' = stored /\ verdict' = verdict
        BY <1>10 DEF vars
  <2>2. QED BY <1>1, <1>4, <2>1 DEF ImageInv, Pass, ReadOf, Tells, StoredOK
<1>11. QED BY <1>5, <1>6, <1>7, <1>8, <1>9, <1>10 DEF Next

-----------------------------------------------------------------------------
(* Theorems.                                                               *)

\* A pass knows of the object what it needs at each of its points, however the
\* reads were delivered and however often it started over.
THEOREM ImageInvariant == Spec => []ImageInv
<1>1. Init => ImageInv
  <2> SUFFICES ASSUME Init PROVE ImageInv
      OBVIOUS
  <2>1. pc = "capture"
        BY DEF Init
  <2>2. ImageTypeOK
        BY DEF Init, ImageTypeOK
  <2>3. QED BY <2>1, <2>2 DEF ImageInv, Pass
<1>2. QED BY <1>1, NextImage, PTL DEF Spec

\* For any limits, a read that broke off, ended early or came without a length
\* never gets a good image rejected or a bad one tracked.
THEOREM VerdictsAreOnObjects == Spec => []VerdictOnObject
<1>1. ImageInv => VerdictOnObject
      BY DEF ImageInv, Pass, VerdictOnObject
<1>2. QED BY <1>1, ImageInvariant, PTL

\* For any limits, an upload becomes ready only on the validated bytes, and an
\* intact candidate is never given up.
THEOREM PublishedIsIntact == Spec => []PublishedIntact
<1>1. ImageInv => PublishedIntact
      BY DEF ImageInv, Pass, PublishedIntact
<1>2. QED BY <1>1, ImageInvariant, PTL

\* Every rejection passes the CHECK constraints and has a public code.
THEOREM RejectionsArePresentable == Spec => []RejectionsPresentable
<1>1. ASSUME NEW v \in Rejections
      PROVE  /\ [class |-> v.class, reason |-> v.reason] \in StorableRejections
             /\ v.phase \in StorablePhases
             /\ publicFailureCode(v.class, v.reason) # None
  <2>1. /\ [class |-> v.class, reason |-> v.reason] \in StorableRejections
        /\ v.phase \in StorablePhases
        BY DEF Rejections
  <2>2. \/ v.class = "invalid_input" /\ v.reason \in InputReasons
        \/ v.class = "internal_invariant" /\ v.reason \in InvariantReasons
        BY <2>1 DEF StorableRejections
  <2>3. publicFailureCode(v.class, v.reason) # None
        BY <2>2, Zenon DEF publicFailureCode, InputReasons, None
  <2>4. QED BY <2>1, <2>3
<1>2. ImageInv => RejectionsPresentable
      BY <1>1, Zenon DEF ImageInv, Pass, RejectionsPresentable
<1>3. QED BY <1>2, ImageInvariant, PTL
=============================================================================
