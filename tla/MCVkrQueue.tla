----------------------------- MODULE MCVkrQueue -----------------------------
(* TLC instances of VkrQueue; the constants are in the configurations.     *)
EXTENDS VkrQueue
=============================================================================
