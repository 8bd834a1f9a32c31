------------------------- MODULE MCDaemonLifecycle -------------------------
(* Two processes are a daemon and its successor or rival; one client makes  *)
(* a proxied call.                                                          *)
EXTENDS DaemonLifecycle

CONSTANTS p1, p2, c1

MCTwo == {p1, p2}
MCClients == {c1}

=============================================================================
