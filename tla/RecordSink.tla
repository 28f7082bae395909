----------------------------- MODULE RecordSink -----------------------------
(***************************************************************************)
(* The record sink of channels/record.rs: capture cores push RTP records   *)
(* into a bounded channel; one records thread removes retransmissions,     *)
(* writes the surviving records to the CSV file, collects them in batches  *)
(* and pushes the batches into the bounded queue of a session worker.  On  *)
(* shutdown it flushes the partial batch and sends an empty batch, the     *)
(* sentinel that stops the session worker.                                 *)
(*                                                                         *)
(* Time is abstract: the 5 s timeout may fire whenever the channel is      *)
(* empty.  The other ends of the two queues, the capture cores, the owning *)
(* platform and the session worker, do what the code of platforms/teams    *)
(* lets them do and no more.                                               *)
(***************************************************************************)
EXTENDS RecordParams, Sequences

CONSTANT MaxRecords  \* bound on the records offered, for model checking

VARIABLES
  owner,              \* the record_tx side: "open", "shutdown" or "dropped"
  offered,            \* records handed to try_send so far (history)
  recordCh,           \* the record channel, oldest message first
  thread,             \* control state of the records thread
  dedup_map,          \* SSRC -> (max_seq, window), for the SSRCs seen
  pending,            \* the batch being collected
  seq,                \* number of the last batch flushed
  batchQ,             \* the session queue, oldest batch first
  sessionUp,          \* the session worker still receives
  csv,                \* the rows handed to the CSV writer, oldest first
  batches,            \* every batch flushed (history)
  csv_records, duplicate_records, record_drops, batch_drops  \* RecordStats

inbound == <<owner, offered, record_drops>>
worker == <<thread, dedup_map, pending, seq, csv, batches,
            csv_records, duplicate_records, batch_drops>>
vars == <<inbound, recordCh, worker, batchQ, sessionUp>>

\* n numbers the records in the order the cores offer them.
Record == [n : Nat, ssrc : Ssrcs, seq : SeqNums]
Packet(r) == [type |-> "Record", record |-> r]
Shutdown == [type |-> "Shutdown"]
Message == [type : {"Record"}, record : Record] \cup {Shutdown}
Batch == [records : Seq(Record), seq : Nat]
Sentinel == [records |-> <<>>, seq |-> 0]
\* A flushed batch: its records, whether the queue took it, and how many rows
\* the CSV writer had been handed by then.
Flushed == [records : Seq(Record), queued : BOOLEAN, upto : Nat]

Init ==
  /\ owner = "open" /\ offered = 0 /\ recordCh = <<>>
  /\ thread = "opening"
  /\ dedup_map = [s \in {} |-> NewEntry(0)]
  /\ pending = <<>> /\ seq = 0
  /\ batchQ = <<>> /\ sessionUp = TRUE
  /\ csv = <<>> /\ batches = <<>>
  /\ csv_records = 0 /\ duplicate_records = 0
  /\ record_drops = 0 /\ batch_drops = 0

-----------------------------------------------------------------------------
(* The record channel's senders.                                           *)

\* A thread that ended or panicked has dropped its end of both channels.
Alive == thread \in {"opening", "running", "closing"}
RecordRoom == Alive /\ Len(recordCh) < RecordCapacity

\* Mutant: a refused record is not counted.
TrySendRecordUncounted(s, q) ==
  /\ offered < MaxRecords
  /\ offered' = offered + 1
  /\ recordCh' = IF RecordRoom
                 THEN Append(recordCh, Packet([n |-> offered, ssrc |-> s, seq |-> q]))
                 ELSE recordCh
  /\ UNCHANGED <<owner, record_drops, worker, batchQ, sessionUp>>

\* A capture core offers a record; a refused one is counted, never awaited.
TrySendRecord(s, q) ==
  /\ offered < MaxRecords
  /\ offered' = offered + 1
  /\ IF RecordRoom
     THEN /\ recordCh' = Append(recordCh, Packet([n |-> offered, ssrc |-> s, seq |-> q]))
          /\ UNCHANGED record_drops
     ELSE /\ record_drops' = record_drops + 1
          /\ UNCHANGED recordCh
  /\ UNCHANGED <<owner, worker, batchQ, sessionUp>>

\* The platform's blocking send: it waits for a slot, or finds no receiver.
SendShutdown ==
  /\ owner = "open"
  /\ Alive => RecordRoom
  /\ owner' = "shutdown"
  /\ recordCh' = IF Alive THEN Append(recordCh, Shutdown) ELSE recordCh
  /\ UNCHANGED <<offered, record_drops, worker, batchQ, sessionUp>>

\* The last sender goes away without a Shutdown.
DropSender ==
  /\ owner = "open"
  /\ owner' = "dropped"
  /\ UNCHANGED <<offered, record_drops, recordCh, worker, batchQ, sessionUp>>

-----------------------------------------------------------------------------
(* The records thread.                                                     *)

\* Unwinding drops the receiver with all that is queued, and pending.
Panic ==
  /\ thread' = "panicked"
  /\ recordCh' = <<>> /\ pending' = <<>>
  /\ UNCHANGED <<inbound, dedup_map, seq, csv, batches, batchQ, sessionUp,
                 csv_records, duplicate_records, batch_drops>>

OpenCsv ==
  /\ thread = "opening"
  /\ \/ /\ thread' = "running"
        /\ UNCHANGED <<inbound, recordCh, dedup_map, pending, seq, csv, batches,
                       batchQ, sessionUp, csv_records, duplicate_records, batch_drops>>
     \/ CsvMayFail /\ Panic

\* Mutant: a batch the queue refuses stays pending, and is flushed again.
KeepingFlushBatch(p) ==
  IF p = <<>>
  THEN UNCHANGED <<seq, batchQ, batches, batch_drops>> /\ pending' = p
  ELSE LET queued == sessionUp /\ Len(batchQ) < BatchQueueCapacity
       IN  /\ seq' = seq + 1
           /\ pending' = IF queued THEN <<>> ELSE p
           /\ batches' = Append(batches, [records |-> p, queued |-> queued, upto |-> Len(csv')])
           /\ batchQ' = IF queued THEN Append(batchQ, [records |-> p, seq |-> seq + 1])
                                  ELSE batchQ
           /\ batch_drops' = IF queued THEN batch_drops ELSE batch_drops + 1

\* Mutant: no early return for an empty batch.
EagerFlushBatch(p) ==
  LET queued == sessionUp /\ Len(batchQ) < BatchQueueCapacity
  IN  /\ seq' = seq + 1 /\ pending' = <<>>
      /\ batches' = Append(batches, [records |-> p, queued |-> queued, upto |-> Len(csv')])
      /\ batchQ' = IF queued THEN Append(batchQ, [records |-> p, seq |-> seq + 1])
                             ELSE batchQ
      /\ batch_drops' = IF queued THEN batch_drops ELSE batch_drops + 1

\* Mutant: only the batches that the queue took are numbered.
GapFreeFlushBatch(p) ==
  /\ pending' = <<>>
  /\ IF p = <<>>
     THEN UNCHANGED <<seq, batchQ, batches, batch_drops>>
     ELSE LET queued == sessionUp /\ Len(batchQ) < BatchQueueCapacity
          IN  /\ batches' = Append(batches, [records |-> p, queued |-> queued, upto |-> Len(csv')])
              /\ IF queued
                 THEN /\ batchQ' = Append(batchQ, [records |-> p, seq |-> seq + 1])
                      /\ seq' = seq + 1
                      /\ UNCHANGED batch_drops
                 ELSE /\ batch_drops' = batch_drops + 1
                      /\ UNCHANGED <<batchQ, seq>>

\* flush_batch on pending = p: number the batch and try to queue it; a batch
\* the queue refuses is lost and counted.
FlushBatch(p) ==
  /\ pending' = <<>>
  /\ IF p = <<>>
     THEN UNCHANGED <<seq, batchQ, batches, batch_drops>>
     ELSE LET queued == sessionUp /\ Len(batchQ) < BatchQueueCapacity
          IN  /\ seq' = seq + 1
              /\ batches' = Append(batches, [records |-> p, queued |-> queued, upto |-> Len(csv')])
              /\ IF queued
                 THEN /\ batchQ' = Append(batchQ, [records |-> p, seq |-> seq + 1])
                      /\ UNCHANGED batch_drops
                 ELSE /\ batch_drops' = batch_drops + 1
                      /\ UNCHANGED batchQ

\* The dedup_map after a record that is not a duplicate.
Remember(r) ==
  [s \in DOMAIN dedup_map \cup {r.ssrc} |->
     IF s # r.ssrc THEN dedup_map[s]
     ELSE IF s \in DOMAIN dedup_map THEN Admit(dedup_map[s], r.seq)
     ELSE NewEntry(r.seq)]

Known(r) == r.ssrc \in DOMAIN dedup_map
Overflows(r) == OverflowChecks /\ Known(r) /\ NegationOverflows(dedup_map[r.ssrc], r.seq)
Duplicate(r) == Known(r) /\ IsDuplicate(dedup_map[r.ssrc], r.seq)

\* A record that survives: CSV row (a write error is ignored), pending, size
\* trigger.
AcceptRecord(r) ==
  LET p == Append(pending, r)
  IN  /\ dedup_map' = Remember(r)
      /\ csv' = Append(csv, r)
      /\ csv_records' = csv_records + 1
      /\ IF Len(p) >= BatchSize
         THEN FlushBatch(p)
         ELSE pending' = p /\ UNCHANGED <<seq, batchQ, batches, batch_drops>>
      /\ UNCHANGED duplicate_records

SkipDuplicate ==
  /\ duplicate_records' = duplicate_records + 1
  /\ UNCHANGED <<dedup_map, csv, csv_records, pending, seq, batchQ, batches, batch_drops>>

HandleRecord ==
  /\ thread = "running" /\ recordCh # <<>> /\ Head(recordCh).type = "Record"
  /\ LET r == Head(recordCh).record
     IN  IF Overflows(r)
         THEN Panic
         ELSE /\ recordCh' = Tail(recordCh)
              /\ IF Duplicate(r) THEN SkipDuplicate ELSE AcceptRecord(r)
              /\ UNCHANGED <<inbound, thread, sessionUp>>

\* Mutant: the timeout flushes full batches only.
TimeoutFullOnly ==
  /\ thread = "running" /\ recordCh = <<>> /\ owner # "dropped"
  /\ Len(pending) >= BatchSize
  /\ UNCHANGED <<inbound, recordCh, thread, dedup_map, csv, csv_records,
                 duplicate_records, sessionUp>>
  /\ FlushBatch(pending)

\* recv_timeout found no message for 5 s while a sender exists.
Timeout ==
  /\ thread = "running" /\ recordCh = <<>> /\ owner # "dropped"
  /\ UNCHANGED <<inbound, recordCh, thread, dedup_map, csv, csv_records,
                 duplicate_records, sessionUp>>
  /\ FlushBatch(pending)

\* Mutant: the thread does not leave its loop.
HandleShutdownNoBreak ==
  /\ thread = "running"
  /\ \/ recordCh # <<>> /\ Head(recordCh) = Shutdown /\ recordCh' = Tail(recordCh)
     \/ recordCh = <<>> /\ owner = "dropped" /\ UNCHANGED recordCh
  /\ UNCHANGED <<inbound, thread, dedup_map, csv, csv_records,
                 duplicate_records, sessionUp>>
  /\ FlushBatch(pending)

\* Shutdown, or an empty channel without a sender: flush what is pending.
HandleShutdown ==
  /\ thread = "running"
  /\ \/ recordCh # <<>> /\ Head(recordCh) = Shutdown /\ recordCh' = Tail(recordCh)
     \/ recordCh = <<>> /\ owner = "dropped" /\ UNCHANGED recordCh
  /\ thread' = "closing"
  /\ UNCHANGED <<inbound, dedup_map, csv, csv_records, duplicate_records,
                 sessionUp>>
  /\ FlushBatch(pending)

\* Then wait for a slot for the sentinel, unless nobody receives, and exit.
SendSentinel ==
  /\ thread = "closing"
  /\ sessionUp => Len(batchQ) < BatchQueueCapacity
  /\ batchQ' = IF sessionUp THEN Append(batchQ, Sentinel) ELSE batchQ
  /\ thread' = "done"
  /\ recordCh' = <<>>
  /\ UNCHANGED <<inbound, dedup_map, pending, seq, csv, batches, csv_records,
                 duplicate_records, batch_drops, sessionUp>>

-----------------------------------------------------------------------------
(* The session worker's end of the queue.                                  *)

\* It takes a batch; an empty one stops it.
TakeBatch ==
  /\ sessionUp /\ batchQ # <<>>
  /\ sessionUp' = (Head(batchQ).records # <<>>)
  /\ batchQ' = Tail(batchQ)
  /\ UNCHANGED <<inbound, recordCh, worker>>

\* It stops too when the queue is empty and its sender is gone.
QueueDisconnected ==
  /\ sessionUp /\ batchQ = <<>> /\ ~Alive
  /\ sessionUp' = FALSE
  /\ UNCHANGED <<inbound, recordCh, worker, batchQ>>

\* Everything has stopped.
Finished ==
  /\ owner # "open" /\ ~Alive /\ ~sessionUp
  /\ UNCHANGED vars

\* No core offers a record once the platform has stopped: main waits for the
\* cores before it calls shutdown, as TeamsPlatform shows.
OfferRecord(s, q) == owner = "open" /\ TrySendRecord(s, q)

Producer ==
  \/ \E s \in Ssrcs, q \in SeqNums : OfferRecord(s, q)
  \/ SendShutdown
  \/ DropSender

RecordsThread == OpenCsv \/ HandleRecord \/ Timeout \/ HandleShutdown \/ SendSentinel

Session == TakeBatch \/ QueueDisconnected

Next == Producer \/ RecordsThread \/ Session \/ Finished

Spec == Init /\ [][Next]_vars

\* The two threads run; nothing makes records arrive or the platform stop.
FairSpec == Spec /\ WF_vars(RecordsThread) /\ WF_vars(Session)

-----------------------------------------------------------------------------
(* Every variable holds a value of its type; the queues respect their      *)
(* capacities, and pending stays below the size trigger.                   *)
TypeOK ==
  /\ owner \in {"open", "shutdown", "dropped"}
  /\ thread \in {"opening", "running", "closing", "done", "panicked"}
  /\ sessionUp \in BOOLEAN
  /\ recordCh \in Seq(Message) /\ Len(recordCh) <= RecordCapacity
  /\ batchQ \in Seq(Batch) /\ Len(batchQ) <= BatchQueueCapacity
  /\ DOMAIN dedup_map \subseteq Ssrcs
  /\ dedup_map \in [DOMAIN dedup_map -> Entry]
  /\ pending \in Seq(Record) /\ Len(pending) < BatchSize
  /\ csv \in Seq(Record) /\ batches \in Seq(Flushed)
  /\ {offered, seq, csv_records, duplicate_records,
      record_drops, batch_drops} \subseteq Nat

-----------------------------------------------------------------------------
(* Safety.                                                                 *)

\* The records waiting in the channel.
Waiting ==
  IF recordCh # <<>> /\ recordCh[Len(recordCh)] = Shutdown
  THEN Len(recordCh) - 1
  ELSE Len(recordCh)

(* Unless the thread panicked, every record a core offered is counted in   *)
(* exactly one of record_drops, csv_records and duplicate_records, or      *)
(* waits in the channel; and csv_records counts the rows handed out.       *)
InboundAccounting ==
  /\ thread # "panicked" =>
       offered = record_drops + Waiting + csv_records + duplicate_records
  /\ csv_records = Len(csv)

\* Rows that had been handed to the CSV writer when batch k was flushed.
Upto(k) == IF k = 0 THEN 0 ELSE batches[k].upto

(* Batches partition the rows in order: each row is in exactly one batch   *)
(* or in pending, whether or not the session queue took the batch; seq     *)
(* numbers the batches without a gap.                                      *)
RowsBatchedOnce ==
  /\ seq = Len(batches)
  /\ \A k \in 1 .. seq :
       /\ Upto(k - 1) < Upto(k) /\ Upto(k) <= Upto(k - 1) + BatchSize
       /\ batches[k].records = SubSeq(csv, Upto(k - 1) + 1, Upto(k))
  /\ thread # "panicked" => pending = SubSeq(csv, Upto(seq) + 1, Len(csv))

(* What waits in the session queue are batches the sink counted as queued, *)
(* under their own numbers and in their order, before at most one sentinel.*)
QueueKeepsBatches ==
  \A i \in DOMAIN batchQ :
    \/ batchQ[i] = Sentinel /\ i = Len(batchQ)
    \/ /\ batchQ[i].seq \in 1 .. seq
       /\ batches[batchQ[i].seq].queued
       /\ batchQ[i].records = batches[batchQ[i].seq].records
       /\ \A j \in 1 .. i - 1 : batchQ[j].seq < batchQ[i].seq

(* An empty batch means shutdown and nothing else: the session worker      *)
(* never stops before the records thread, and a thread that ended has left *)
(* its sentinel behind every batch.                                        *)
SentinelUnambiguous ==
  /\ \A i \in DOMAIN batchQ :
       batchQ[i].records = <<>> => thread = "done" /\ i = Len(batchQ)
  /\ Alive => sessionUp
  /\ thread = "done" /\ sessionUp => batchQ # <<>> /\ batchQ[Len(batchQ)] = Sentinel
  /\ ~sessionUp => batchQ = <<>>

(* dedup_map remembers rows and only rows: every bit it holds stands for a *)
(* row of that SSRC, and the last row of every SSRC is remembered, so its  *)
(* retransmission is recognised.                                           *)
DedupMatchesRows ==
  /\ \A i \in DOMAIN csv : csv[i].ssrc \in DOMAIN dedup_map
  /\ \A s \in DOMAIN dedup_map :
       LET rows == {i \in DOMAIN csv : csv[i].ssrc = s}
           e == dedup_map[s]
       IN  /\ \A o \in e.window : \E i \in rows : csv[i].seq = (e.max_seq - o) % SeqMod
           /\ \A i \in rows : (\A j \in rows : j <= i)
                => \E o \in e.window : csv[i].seq = (e.max_seq - o) % SeqMod

-----------------------------------------------------------------------------
(* Liveness, under the fairness of the two threads.                        *)

\* No record is offered any more.
RecordsStop == <>[][\A s \in Ssrcs, q \in SeqNums : ~TrySendRecord(s, q)]_vars

(* Once records stop coming, a partial batch does not wait for ever: every *)
(* row gets into a batch that is offered to the session queue, unless the  *)
(* thread panics.  While they come it may: every message, a duplicate too, *)
(* starts the wait of recv_timeout anew.                                   *)
PendingHandedOver ==
  RecordsStop => \A n \in 1 .. MaxRecords :
    (Len(csv) >= n) ~> (Upto(seq) >= n \/ thread = "panicked")

(* Whatever ends the records thread (shutdown, no sender left, a panic),   *)
(* the session worker gets to its own end; and when the platform stops,    *)
(* both end, however full the two queues are.                              *)
BothThreadsStop == (owner # "open" \/ ~Alive) ~> (~Alive /\ ~sessionUp)

-----------------------------------------------------------------------------
(* What comments and documents say, and the code does not do.              *)

(* record.rs: a sequence number that is too old is dropped "to be safe";   *)
(* the records thread survives it.                                         *)
OldRecordsAreHarmless == thread # "panicked"

(* AddingNewPlatform.md: the order of shutdown drops nothing; the partial  *)
(* batch flushed on Shutdown reaches the session queue.                    *)
NothingDroppedOnShutdown ==
  [][thread = "running" /\ thread' = "closing" => batch_drops' = batch_drops]_vars
=============================================================================
