-------------------------- MODULE MCGotchaHandlers --------------------------
(* GotchaHandlers on small sets of connections, gotchas and files. The run *)
(* checks liveness, so it uses no symmetry.                                *)
EXTENDS GotchaHandlers
=============================================================================
