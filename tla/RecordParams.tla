---------------------------- MODULE RecordParams ----------------------------
(***************************************************************************)
(* The parameters of the record sink, which its owner shares.              *)
(***************************************************************************)
EXTENDS DedupWindow

CONSTANTS
  Ssrcs,               \* RTP synchronisation sources
  SeqNums,             \* the sequence numbers that occur on the wire
  BatchSize,           \* size trigger of a batch
  RecordCapacity,      \* slots of the record channel
  BatchQueueCapacity,  \* slots of the session queue
  OverflowChecks,      \* TRUE in a debug build: -i16::MIN panics
  CsvMayFail           \* TRUE if File::create may fail

ASSUME RecordAssumption ==
  /\ SeqNums \subseteq SeqNum
  /\ BatchSize \in Nat \ {0}
  /\ RecordCapacity \in Nat \ {0}
  /\ BatchQueueCapacity \in Nat \ {0}
  /\ {OverflowChecks, CsvMayFail} \subseteq BOOLEAN
=============================================================================
