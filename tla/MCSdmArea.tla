----------------------------- MODULE MCSdmArea -----------------------------
(* Small instances of SdmArea: a tosser that creates beside a reader that  *)
(* deletes and marks, and two tossers.                                     *)
EXTENDS SdmArea
=============================================================================
