--------------------------- MODULE MCSessionEngine ---------------------------
(***************************************************************************)
(* SessionEngine with two clients: one whose packets may arrive at any     *)
(* time, so that its sessions go stale, start over and go stale again, and *)
(* one with a single packet, that shares the line queue, the exporter and  *)
(* the passes over all sessions with it.                                   *)
(***************************************************************************)
EXTENDS SessionEngine, TLC

CONSTANTS busy, quiet

MCClients == {busy, quiet}
MCTraffic == (busy :> Time) @@ (quiet :> {2})
=============================================================================
