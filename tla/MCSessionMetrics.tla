--------------------------- MODULE MCSessionMetrics ---------------------------
(***************************************************************************)
(* SessionMetrics with a stream from a server, one to a server and one     *)
(* both ends of which are servers, on a circle of six sequence numbers and *)
(* one of ten timestamps.                                                  *)
(***************************************************************************)
EXTENDS SessionMetrics, TLC

CONSTANTS down, up, both

MCSsrcs == {down, up, both}
MCServers == (down :> {"src"}) @@ (up :> {"dst"}) @@ (both :> {"src", "dst"})
MCSizes == (down :> BOOLEAN) @@ (up :> {FALSE}) @@ (both :> {FALSE})
MCIndex == (down :> 4 .. 8) @@ (up :> {6}) @@ (both :> {5, 7})
=============================================================================
