------------------------------ MODULE MCVkrRing ------------------------------
(* VkrRing for TLC.  The configurations differ in the driver they allow.     *)
EXTENDS VkrRing
=============================================================================
