------------------------- MODULE MCEvidenceUploads -------------------------
(* Slots and files for TLC.                                                  *)
EXTENDS EvidenceUploads

CONSTANTS front, good, bad, odd, doc
=============================================================================
