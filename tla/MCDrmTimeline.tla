--------------------------- MODULE MCDrmTimeline ---------------------------
(* TLC instances of DrmTimeline; the constants are in the configurations.  *)
EXTENDS DrmTimeline
=============================================================================
