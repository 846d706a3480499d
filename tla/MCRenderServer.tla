--------------------------- MODULE MCRenderServer ---------------------------
(* RenderServer with a small instance: see MCRenderServer.cfg. *)
EXTENDS RenderServer
=============================================================================
