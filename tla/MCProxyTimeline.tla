-------------------------- MODULE MCProxyTimeline --------------------------
(* TLC instances of ProxyTimeline.  Ring 0 wraps its seqnos, ring 1 is     *)
(* there to be disturbed by what happens on ring 0.                        *)
EXTENDS ProxyTimeline

MCMaxFences == [r \in Rings |-> IF r = 0 THEN 6 ELSE 1]
=============================================================================
