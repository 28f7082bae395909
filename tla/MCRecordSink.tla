---------------------------- MODULE MCRecordSink ----------------------------
(***************************************************************************)
(* RecordSink with two sources and few sequence numbers on a circle of     *)
(* six, chosen so that records are newer, late, too late, repeated and     *)
(* exactly half a circle away.                                             *)
(***************************************************************************)
EXTENDS RecordSink

MCSeqNums == {0, 2, 5}
=============================================================================
