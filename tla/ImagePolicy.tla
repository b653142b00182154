---------------------------- MODULE ImagePolicy ----------------------------
(***************************************************************************)
(* What one pass of the finalizer makes of the bytes it reads: the bounded *)
(* read of an S3 object, the validation of the staging object, and the     *)
(* comparison of the stored candidate with the validated image.  An object *)
(* is described by its size and by what the decoders find in it; a read    *)
(* may come without a Content-Length header, may break off, and may end    *)
(* early.                                                                  *)
(***************************************************************************)
EXTENDS Integers, Sequences, FiniteSetsExt, FailureCodes

CONSTANTS
  MaxUploadSize,  \* maxUploadSizeBytes (10 MiB)
  MaxAxis,        \* maxImageAxis (8192)
  MaxPixels,      \* maxImagePixels (8388608)
  Slack           \* bound: how far sizes and axes go beyond the limits

ASSUME ImageAssumption ==
  /\ {MaxUploadSize, MaxAxis, MaxPixels, Slack} \subseteq Nat \ {0}
  /\ MaxAxis < MaxPixels /\ MaxPixels < MaxAxis * MaxAxis

Sizes == 0..(MaxUploadSize + Slack)
Axes == 0..(MaxAxis + Slack)

\* What image.DecodeConfig finds (format "none": nothing it knows), and how
\* image.Decode ends: with the same image, with an error, or with another
\* format or other bounds than DecodeConfig said.
Picture ==
  [format : {"jpeg", "png", "other"}, width : Axes, height : Axes,
   body : {"sound", "malformed", "skewed"}]
    \cup [format : {"none"}, width : {0}, height : {0}, body : {"malformed"}]

Declaration == [size : 1..MaxUploadSize, type : {"image/jpeg", "image/png"}]

VARIABLES
  declared,  \* declared_size and declared_content_type
  size,      \* of the staging object
  picture,   \* in the staging object
  stored,    \* the object under the candidate's key: its size, and whether it
             \* holds the bytes of the validated image
  pc,
  read,      \* the snapshot of the last read
  verdict    \* the rejection, if any

vars == <<declared, size, picture, stored, pc, read, verdict>>

\* A snapshot: ContentLength (-1 when there is no header), the number of bytes,
\* and whether they are the whole object.
Snapshot == [length : -1..(MaxUploadSize + Slack), bytes : Sizes, whole : BOOLEAN]
NoSnapshot == [length |-> -1, bytes |-> 0, whole |-> FALSE]

Accepted == [class |-> None, reason |-> None, phase |-> None]
Misread == [class |-> None, reason |-> "errStagingRead", phase |-> None]

Init ==
  /\ declared \in Declaration
  /\ size \in Sizes
  /\ picture \in Picture
  /\ stored = [size |-> 0, same |-> FALSE]
  /\ pc = "capture"
  /\ read = NoSnapshot
  /\ verdict = Accepted

-----------------------------------------------------------------------------
(* Reading.                                                                *)

Smaller(m, n) == IF m < n THEN m ELSE n

\* The GET answers with or without the length, the body delivers "sent" bytes
\* and breaks off or ends.  A body without a length is chunked: it cannot end
\* early without an error.
Delivery(n) ==
  {d \in [header : BOOLEAN, sent : 0..n, broken : BOOLEAN] :
     ~d.header /\ ~d.broken => d.sent = n}

\* The number of bytes io.LimitReader lets through.
Received(d) == Smaller(d.sent, MaxUploadSize + 1)

\* captureS3Object returns an error: the body breaks off within the limit, or
\* it is shorter than announced.
CaptureFails(n, d) ==
  /\ ~(d.header /\ n > MaxUploadSize)
  /\ Received(d) <= MaxUploadSize
  /\ d.broken \/ (d.header /\ Received(d) # n)

captureS3Object(n, d) ==
  IF d.header /\ n > MaxUploadSize
  THEN [length |-> n, bytes |-> 0, whole |-> FALSE]
  ELSE [length |-> IF d.header THEN n ELSE -1,
        bytes |-> Received(d), whole |-> Received(d) = n]

\* A read of an object of n bytes: "done" with the snapshot, or a retry.
Capture(n, done) ==
  /\ \E d \in Delivery(n) :
       \/ CaptureFails(n, d) /\ pc' = "retry" /\ UNCHANGED read
       \/ ~CaptureFails(n, d) /\ pc' = done /\ read' = captureS3Object(n, d)
  /\ UNCHANGED <<declared, size, picture, verdict>>

CaptureStaging == pc = "capture" /\ Capture(size, "validate") /\ UNCHANGED stored

-----------------------------------------------------------------------------
(* Validation.                                                             *)

contentTypeForImageFormat(format) ==
  CASE format = "jpeg" -> "image/jpeg" [] format = "png" -> "image/png" [] OTHER -> None

\* Faulty variant: the limit itself counts as too many.
PixelLimitExceededAtLimit == picture.width * picture.height >= MaxPixels

PixelLimitExceeded == picture.width * picture.height > MaxPixels

\* The decoders see the bytes that were read.
Decoded == IF read.whole THEN picture.body ELSE "malformed"

Reject(class, reason, phase) == [class |-> class, reason |-> reason, phase |-> phase]
InvalidInput(reason, phase) == Reject("invalid_input", reason, phase)

\* The checks of validateImageBytes in their order, each with what it leads to.
Checks ==
  << <<read.length > MaxUploadSize, InvalidInput("object_too_large", "staging_read")>>,
     <<read.bytes > MaxUploadSize, InvalidInput("object_too_large", "staging_read")>>,
     <<read.length >= 0 /\ read.length # read.bytes, Misread>>,
     <<read.bytes # declared.size, InvalidInput("declared_size_mismatch", "staging_read")>>,
     <<contentTypeForImageFormat(picture.format) = None,
       InvalidInput("invalid_image_encoding", "decode_config")>>,
     <<contentTypeForImageFormat(picture.format) # declared.type,
       InvalidInput("declared_content_type_mismatch", "decode_config")>>,
     <<{picture.width, picture.height} \ (1..MaxAxis) # {},
       InvalidInput("dimensions_limit_exceeded", "decode_config")>>,
     <<PixelLimitExceeded, InvalidInput("pixel_limit_exceeded", "decode_config")>>,
     <<Decoded = "malformed", InvalidInput("malformed_image", "decode")>>,
     <<Decoded = "skewed",
       Reject("internal_invariant", "decoder_invariant_mismatch", "decode")>> >>

validateImageBytes ==
  LET failing == {i \in DOMAIN Checks : Checks[i][1]}
  IN IF failing = {} THEN Accepted ELSE Checks[Min(failing)][2]

\* An accepted image is tracked and PUT under its key; what is stored there may
\* be that image or, after a fault of the storage, something else.
Validate ==
  /\ pc = "validate"
  /\ verdict' = validateImageBytes
  /\ pc' = CASE verdict' = Misread -> "retry"
             [] verdict' = Accepted -> "verify"
             [] OTHER -> "rejected"
  /\ stored' \in IF verdict' = Accepted
                 THEN {[size |-> size, same |-> TRUE]} \cup [size : Sizes, same : {FALSE}]
                 ELSE {stored}
  /\ UNCHANGED <<declared, size, picture, read>>

-----------------------------------------------------------------------------
(* Verification of the stored candidate.                                   *)

ReadCandidate == pc = "verify" /\ Capture(stored.size, "compare") /\ UNCHANGED stored

\* Faulty variant: only the sizes are compared.
candidateMatchesSize == read.bytes = size

\* Same number of bytes and same digest.
candidateMatchesSnapshot ==
  read.bytes = size /\ read.whole /\ stored.same

CompareCandidate ==
  /\ pc = "compare"
  /\ IF candidateMatchesSnapshot
     THEN pc' = "ready" /\ UNCHANGED verdict
     ELSE /\ pc' = "rejected"
          /\ verdict' = Reject("internal_invariant", "candidate_integrity_mismatch",
                               "candidate_verify")
  /\ UNCHANGED <<declared, size, picture, stored, read>>

\* A retry starts over with a new read.
Retry ==
  /\ pc = "retry"
  /\ pc' = "capture" /\ read' = NoSnapshot /\ verdict' = Accepted
  /\ stored' = [size |-> 0, same |-> FALSE]
  /\ UNCHANGED <<declared, size, picture>>

Next == CaptureStaging \/ Validate \/ ReadCandidate \/ CompareCandidate \/ Retry

Spec == Init /\ [][Next]_vars

-----------------------------------------------------------------------------
(* Properties.                                                             *)

\* What may be published: the bytes are as declared and the row that tracks
\* them satisfies the CHECK constraints of upload_candidates.
Good ==
  /\ size = declared.size
  /\ declared.type \in {"image/jpeg", "image/png"}
  /\ picture.format = IF declared.type = "image/jpeg" THEN "jpeg" ELSE "png"
  /\ size \in 1..MaxUploadSize
  /\ picture.width \in 1..MaxAxis /\ picture.height \in 1..MaxAxis
  /\ picture.width * picture.height <= MaxPixels
  /\ picture.body = "sound"

\* The verdict on the staging object is about the object, not about the way it
\* was delivered: a read that breaks off, ends early or has no length never
\* makes a good image rejected (a rejection is final) nor a bad one tracked.
VerdictOnObject ==
  /\ pc = "verify" => Good
  /\ pc = "rejected" /\ verdict.phase # "candidate_verify" => ~Good

\* An upload becomes ready exactly on the validated bytes: a damaged candidate
\* is not published, and an intact one is never rejected because it was read
\* badly.
PublishedIntact ==
  /\ pc = "ready" => Good /\ stored.same
  /\ pc = "rejected" /\ verdict.phase = "candidate_verify" => ~stored.same

\* Every rejection can be stored (rejection_class, _reason and _phase pass
\* their CHECK constraints) and can be shown: it has a public code.
RejectionsPresentable ==
  pc = "rejected" =>
    /\ [class |-> verdict.class, reason |-> verdict.reason] \in StorableRejections
    /\ verdict.phase \in StorablePhases
    /\ publicFailureCode(verdict.class, verdict.reason) # None
=============================================================================
