---------------------------- MODULE FailureCodes ----------------------------
(***************************************************************************)
(* Why an upload is rejected: the classes, reasons and phases the database *)
(* admits, and the code a client is shown for them.                        *)
(***************************************************************************)

\* The empty string: no code, no error, no content type.
None == ""

InputReasons ==
  {"object_too_large", "dimensions_limit_exceeded", "pixel_limit_exceeded",
   "declared_size_mismatch", "invalid_image_encoding",
   "declared_content_type_mismatch", "malformed_image"}
InvariantReasons == {"decoder_invariant_mismatch", "candidate_integrity_mismatch"}

\* uploads_rejection_reason_check and uploads_rejection_phase_check.
StorableRejections ==
  ([class : {"invalid_input"}, reason : InputReasons] \cup
   [class : {"internal_invariant"}, reason : InvariantReasons])
StorablePhases == {"staging_read", "decode_config", "decode", "candidate_verify"}

\* Faulty variant: one of the size limits is forgotten.
publicFailureCodeNoPixels(class, reason) ==
  CASE class = "invalid_input" /\ reason \in {"object_too_large", "dimensions_limit_exceeded"} ->
         "image_too_large"
    [] class = "invalid_input" /\ reason \in
         {"declared_size_mismatch", "invalid_image_encoding",
          "declared_content_type_mismatch", "malformed_image"} -> "invalid_image"
    [] class = "internal_invariant" /\ reason \in InvariantReasons ->
         "upload_processing_failed"
    [] OTHER -> None

publicFailureCode(class, reason) ==
  CASE class = "invalid_input" /\ reason \in
         {"object_too_large", "dimensions_limit_exceeded", "pixel_limit_exceeded"} ->
         "image_too_large"
    [] class = "invalid_input" /\ reason \in
         {"declared_size_mismatch", "invalid_image_encoding",
          "declared_content_type_mismatch", "malformed_image"} -> "invalid_image"
    [] class = "internal_invariant" /\ reason \in InvariantReasons ->
         "upload_processing_failed"
    [] OTHER -> None
=============================================================================
