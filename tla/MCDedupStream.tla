--------------------------- MODULE MCDedupStream ---------------------------
(***************************************************************************)
(* DedupStream on a small circle: twelve sequence numbers, a window of     *)
(* four and a stream of sixteen packets, so that the newest packet wraps   *)
(* around the circle and late packets fall on both sides of the window's   *)
(* edge and of the wrap.                                                   *)
(***************************************************************************)
EXTENDS DedupStream

MCIndex == 0 .. 15
=============================================================================
