--------------------------- MODULE RecordSinkProof ---------------------------
(***************************************************************************)
(* Theorems about the record sink, for every capacity, batch size, window  *)
(* and number of records.                                                  *)
(***************************************************************************)
EXTENDS RecordSink, DedupWindowProof, SequenceTheorems

(* A bounded sequence stays within its bound when an element is added to   *)
(* one that is not full, and when its head is taken.                       *)
LEMMA AppendWithin ==
  ASSUME NEW S, NEW n \in Nat, NEW s \in Seq(S), Len(s) < n, NEW e \in S
  PROVE  Append(s, e) \in Seq(S) /\ Len(Append(s, e)) <= n
<1>1. Append(s, e) \in Seq(S) /\ Len(Append(s, e)) = Len(s) + 1 /\ Len(s) \in Nat
  BY AppendProperties, LenProperties
<1> QED
  BY <1>1, SMT

LEMMA TailWithin ==
  ASSUME NEW S, NEW n \in Nat, NEW s \in Seq(S), Len(s) <= n, s # <<>>
  PROVE  Tail(s) \in Seq(S) /\ Len(Tail(s)) <= n
<1>1. Tail(s) \in Seq(S) /\ Len(Tail(s)) = Len(s) - 1 /\ Len(s) \in Nat
  BY HeadTailProperties, LenProperties
<1> QED
  BY <1>1, SMT

(* FlushBatch empties pending and keeps its variables well typed.          *)
LEMMA FlushType ==
  ASSUME TypeOK, NEW p \in Seq(Record), csv' \in Seq(Record), FlushBatch(p)
  PROVE  /\ pending' = <<>>
         /\ {seq', batch_drops'} \subseteq Nat
         /\ batches' \in Seq(Flushed)
         /\ batchQ' \in Seq(Batch) /\ Len(batchQ') <= BatchQueueCapacity
<1>1. CASE p = <<>>
  BY <1>1 DEF FlushBatch, TypeOK
<1>2. CASE p # <<>>
  <2> DEFINE queued == sessionUp /\ Len(batchQ) < BatchQueueCapacity
             b == [records |-> p, seq |-> seq + 1]
             h == [records |-> p, queued |-> queued, upto |-> Len(csv')]
  <2>1. seq' = seq + 1 /\ pending' = <<>> /\ batches' = Append(batches, h)
    BY <1>2 DEF FlushBatch
  <2>2. \/ queued /\ batchQ' = Append(batchQ, b) /\ batch_drops' = batch_drops
        \/ batchQ' = batchQ /\ batch_drops' = batch_drops + 1
    BY <1>2 DEF FlushBatch
  <2>3. seq \in Nat /\ batch_drops \in Nat /\ Len(csv') \in Nat
    BY LenProperties DEF TypeOK
  <2>4. b \in Batch
    BY <2>3, SMT DEF Batch
  <2>5. queued \in BOOLEAN
    BY DEF TypeOK
  <2>6. h \in Flushed
    BY <2>3, <2>5 DEF Flushed
  <2>7. batchQ' \in Seq(Batch) /\ Len(batchQ') <= BatchQueueCapacity
    <3>1. batchQ \in Seq(Batch) /\ Len(batchQ) <= BatchQueueCapacity
      BY DEF TypeOK
    <3>2. \/ Len(batchQ) < BatchQueueCapacity /\ batchQ' = Append(batchQ, b)
          \/ batchQ' = batchQ
      BY <2>2
    <3>3. BatchQueueCapacity \in Nat
      BY RecordAssumption
    <3> HIDE DEF b
    <3>4. CASE batchQ' = batchQ
      BY <3>1, <3>4
    <3>5. CASE Len(batchQ) < BatchQueueCapacity /\ batchQ' = Append(batchQ, b)
      <4>1. /\ Append(batchQ, b) \in Seq(Batch)
            /\ Len(Append(batchQ, b)) <= BatchQueueCapacity
        BY <2>4, <3>1, <3>3, <3>5, AppendWithin
      <4> QED
        BY <3>5, <4>1
    <3> QED
      BY <3>2, <3>4, <3>5
  <2>8. batches' \in Seq(Flushed)
    <3> HIDE DEF h
    <3> QED
      BY <2>1, <2>6, SMT DEF TypeOK
  <2> QED
    BY <2>1, <2>2, <2>3, <2>7, <2>8, SMT
<1> QED
  BY <1>1, <1>2

(* Remembering a record that is no duplicate keeps dedup_map well typed.   *)
LEMMA RememberType ==
  ASSUME TypeOK, NEW r \in Record, ~Duplicate(r)
  PROVE  /\ DOMAIN Remember(r) \subseteq Ssrcs
         /\ Remember(r) \in [DOMAIN Remember(r) -> Entry]
<1>1. r.ssrc \in Ssrcs /\ r.seq \in SeqNum
  BY RecordAssumption DEF Record
<1>2. NewEntry(r.seq) \in Entry
  BY <1>1, NewEntryType
<1>3. \A s \in DOMAIN dedup_map : dedup_map[s] \in Entry
  BY DEF TypeOK
<1>4. r.ssrc \in DOMAIN dedup_map => Admit(dedup_map[r.ssrc], r.seq) \in Entry
  BY <1>1, <1>3, AdmitType DEF Duplicate, Known
<1>5. DOMAIN dedup_map \subseteq Ssrcs
  BY DEF TypeOK
<1> QED
  BY <1>1, <1>2, <1>3, <1>4, <1>5 DEF Remember

-----------------------------------------------------------------------------

(* The initial state is well typed.                                        *)
LEMMA InitType == Init => TypeOK
BY RecordAssumption DEF Init, TypeOK, Message, Batch, Record, Flushed

(* Every step keeps the state well typed.                                  *)
LEMMA NextType == TypeOK /\ [Next]_vars => TypeOK'
<1> SUFFICES ASSUME TypeOK, [Next]_vars PROVE TypeOK'
  OBVIOUS
<1>1. ASSUME NEW s \in Ssrcs, NEW q \in SeqNums, OfferRecord(s, q) PROVE TypeOK'
  <2> DEFINE m == Packet([n |-> offered, ssrc |-> s, seq |-> q])
  <2>1. m \in Message
    BY DEF TypeOK, Packet, Message, Record
  <2>2. recordCh' \in Seq(Message) /\ Len(recordCh') <= RecordCapacity
    <3>1. \/ recordCh' = Append(recordCh, m) /\ Len(recordCh) < RecordCapacity
          \/ recordCh' = recordCh
      BY <1>1 DEF OfferRecord, TrySendRecord, RecordRoom
    <3>2. recordCh \in Seq(Message) /\ Len(recordCh) <= RecordCapacity
      BY DEF TypeOK
    <3>3. RecordCapacity \in Nat
      BY RecordAssumption
    <3> HIDE DEF m
    <3>4. CASE recordCh' = recordCh
      BY <3>2, <3>4
    <3>5. CASE recordCh' = Append(recordCh, m) /\ Len(recordCh) < RecordCapacity
      <4>1. Append(recordCh, m) \in Seq(Message) /\ Len(Append(recordCh, m)) <= RecordCapacity
        BY <2>1, <3>2, <3>3, <3>5, AppendWithin
      <4> QED
        BY <3>5, <4>1
    <3> QED
      BY <3>1, <3>4, <3>5
  <2>3. offered' \in Nat /\ record_drops' \in Nat
    <3>1. offered' = offered + 1 /\ (record_drops' = record_drops + 1 \/ record_drops' = record_drops)
      BY <1>1 DEF OfferRecord, TrySendRecord
    <3>2. offered \in Nat /\ record_drops \in Nat
      BY DEF TypeOK
    <3> QED
      BY <3>1, <3>2, SMT
  <2>4. UNCHANGED <<owner, worker, batchQ, sessionUp>>
    BY <1>1 DEF OfferRecord, TrySendRecord
  <2> QED
    BY <2>2, <2>3, <2>4 DEF TypeOK, worker
<1>2. ASSUME SendShutdown PROVE TypeOK'
  <2>1. Shutdown \in Message
    BY DEF Message
  <2>2. recordCh' \in Seq(Message) /\ Len(recordCh') <= RecordCapacity
    <3>1. recordCh \in Seq(Message) /\ Len(recordCh) <= RecordCapacity /\ RecordCapacity \in Nat
      BY RecordAssumption DEF TypeOK
    <3>2. CASE ~Alive
      BY <1>2, <3>1, <3>2 DEF SendShutdown
    <3>3. CASE Alive
      <4>1. recordCh' = Append(recordCh, Shutdown) /\ Len(recordCh) < RecordCapacity
        BY <1>2, <3>3 DEF SendShutdown, RecordRoom
      <4>2. /\ Append(recordCh, Shutdown) \in Seq(Message)
            /\ Len(Append(recordCh, Shutdown)) <= RecordCapacity
        BY <2>1, <3>1, <4>1, AppendWithin
      <4> QED
        BY <4>1, <4>2
    <3> QED
      BY <3>2, <3>3
  <2> QED
    BY <1>2, <2>2 DEF SendShutdown, TypeOK, worker
<1>3. ASSUME DropSender PROVE TypeOK'
  BY <1>3 DEF DropSender, TypeOK, worker
<1>4. ASSUME Panic PROVE TypeOK'
  <2>1. recordCh' \in Seq(Message) /\ Len(recordCh') <= RecordCapacity
    BY <1>4, RecordAssumption, SMT DEF Panic
  <2>2. pending' \in Seq(Record) /\ Len(pending') < BatchSize
    BY <1>4, RecordAssumption, SMT DEF Panic
  <2> QED
    BY <1>4, <2>1, <2>2 DEF Panic, TypeOK, inbound
<1>5. ASSUME OpenCsv PROVE TypeOK'
  BY <1>4, <1>5 DEF OpenCsv, TypeOK, inbound
<1>6. ASSUME HandleRecord PROVE TypeOK'
  <2> DEFINE r == Head(recordCh).record
  <2>1. r \in Record /\ Tail(recordCh) \in Seq(Message) /\ Len(Tail(recordCh)) <= RecordCapacity
    <3>1. recordCh \in Seq(Message) /\ recordCh # <<>> /\ Head(recordCh).type = "Record"
      BY <1>6 DEF HandleRecord, TypeOK
    <3>2. Head(recordCh) \in Message
      BY <3>1, HeadTailProperties
    <3>3. r \in Record
      BY <3>1, <3>2 DEF Message, Shutdown
    <3>4. Len(recordCh) <= RecordCapacity /\ RecordCapacity \in Nat
      BY RecordAssumption DEF TypeOK
    <3> QED
      BY <3>1, <3>3, <3>4, TailWithin
  <2>2. CASE Overflows(r)
    BY <1>4, <1>6, <2>2 DEF HandleRecord
  <2>3. CASE ~Overflows(r) /\ Duplicate(r)
    <3>1. recordCh' = Tail(recordCh) /\ SkipDuplicate /\ UNCHANGED <<inbound, thread, sessionUp>>
      BY <1>6, <2>3 DEF HandleRecord
    <3>2. duplicate_records' \in Nat
      BY <3>1, SMT DEF SkipDuplicate, TypeOK
    <3> QED
      BY <2>1, <3>1, <3>2 DEF SkipDuplicate, TypeOK, inbound
  <2>4. CASE ~Overflows(r) /\ ~Duplicate(r)
    <3> DEFINE p == Append(pending, r)
    <3>1. recordCh' = Tail(recordCh) /\ AcceptRecord(r) /\ UNCHANGED <<inbound, thread, sessionUp>>
      BY <1>6, <2>4 DEF HandleRecord
    <3>2. csv' \in Seq(Record)
      BY <2>1, <3>1, SMT DEF AcceptRecord, TypeOK
    <3>3. p \in Seq(Record)
      BY <2>1, SMT DEF TypeOK
    <3>4. csv_records' \in Nat
      <4>1. csv_records' = csv_records + 1
        BY <3>1 DEF AcceptRecord
      <4>2. csv_records \in Nat
        BY DEF TypeOK
      <4> QED
        BY <4>1, <4>2, SMT
    <3>5. DOMAIN dedup_map' \subseteq Ssrcs /\ dedup_map' \in [DOMAIN dedup_map' -> Entry]
      BY <2>1, <2>4, <3>1, RememberType DEF AcceptRecord
    <3>6. /\ pending' \in Seq(Record) /\ Len(pending') < BatchSize
          /\ {seq', batch_drops'} \subseteq Nat /\ batches' \in Seq(Flushed)
          /\ batchQ' \in Seq(Batch) /\ Len(batchQ') <= BatchQueueCapacity
      <4>1. CASE Len(p) >= BatchSize
        <5>1. FlushBatch(p)
          BY <3>1, <4>1 DEF AcceptRecord
        <5>2. <<>> \in Seq(Record) /\ Len(<<>>) < BatchSize
          BY RecordAssumption, SMT
        <5> HIDE DEF p
        <5> QED
          BY <3>2, <3>3, <5>1, <5>2, FlushType
      <4>2. CASE ~(Len(p) >= BatchSize)
        <5>1. pending' = p /\ UNCHANGED <<seq, batchQ, batches, batch_drops>>
          BY <3>1, <4>2 DEF AcceptRecord
        <5>2. Len(p) < BatchSize
          BY <3>3, <4>2, LenProperties, RecordAssumption, SMT
        <5> HIDE DEF p
        <5> QED
          BY <3>3, <5>1, <5>2 DEF TypeOK
      <4> QED
        BY <4>1, <4>2
    <3>7. UNCHANGED <<owner, offered, record_drops, thread, sessionUp, duplicate_records>>
      BY <3>1 DEF AcceptRecord, inbound
    <3> QED
      BY <2>1, <3>1, <3>2, <3>4, <3>5, <3>6, <3>7 DEF TypeOK
  <2> QED
    BY <2>2, <2>3, <2>4
<1>7. ASSUME Timeout PROVE TypeOK'
  <2>1. pending \in Seq(Record) /\ csv' \in Seq(Record) /\ FlushBatch(pending)
    BY <1>7 DEF Timeout, TypeOK
  <2>2. <<>> \in Seq(Record) /\ Len(<<>>) < BatchSize
    BY RecordAssumption, SMT
  <2> QED
    BY <1>7, <2>1, <2>2, FlushType DEF Timeout, TypeOK, inbound
<1>8. ASSUME HandleShutdown PROVE TypeOK'
  <2>1. pending \in Seq(Record) /\ csv' \in Seq(Record) /\ FlushBatch(pending)
    BY <1>8 DEF HandleShutdown, TypeOK
  <2>2. <<>> \in Seq(Record) /\ Len(<<>>) < BatchSize
    BY RecordAssumption, SMT
  <2>3. recordCh' \in Seq(Message) /\ Len(recordCh') <= RecordCapacity
    <3>1. recordCh \in Seq(Message) /\ Len(recordCh) <= RecordCapacity
      BY DEF TypeOK
    <3>2. recordCh' = recordCh \/ (recordCh # <<>> /\ recordCh' = Tail(recordCh))
      BY <1>8 DEF HandleShutdown
    <3>3. RecordCapacity \in Nat
      BY RecordAssumption
    <3> QED
      BY <3>1, <3>2, <3>3, TailWithin
  <2> QED
    BY <1>8, <2>1, <2>2, <2>3, FlushType DEF HandleShutdown, TypeOK, inbound
<1>9. ASSUME SendSentinel PROVE TypeOK'
  <2>1. Sentinel \in Batch
    BY DEF Sentinel, Batch
  <2>2. batchQ' \in Seq(Batch) /\ Len(batchQ') <= BatchQueueCapacity
    <3>1. batchQ \in Seq(Batch) /\ Len(batchQ) <= BatchQueueCapacity /\ BatchQueueCapacity \in Nat
      BY RecordAssumption DEF TypeOK
    <3>2. CASE ~sessionUp
      BY <1>9, <3>1, <3>2 DEF SendSentinel
    <3>3. CASE sessionUp
      <4>1. batchQ' = Append(batchQ, Sentinel) /\ Len(batchQ) < BatchQueueCapacity
        BY <1>9, <3>3 DEF SendSentinel
      <4>2. /\ Append(batchQ, Sentinel) \in Seq(Batch)
            /\ Len(Append(batchQ, Sentinel)) <= BatchQueueCapacity
        BY <2>1, <3>1, <4>1, AppendWithin
      <4> QED
        BY <4>1, <4>2
    <3> QED
      BY <3>2, <3>3
  <2>3. recordCh' \in Seq(Message) /\ Len(recordCh') <= RecordCapacity
    BY <1>9, RecordAssumption, SMT DEF SendSentinel
  <2> QED
    BY <1>9, <2>2, <2>3 DEF SendSentinel, TypeOK, inbound
<1>10. ASSUME TakeBatch PROVE TypeOK'
  <2>1. batchQ' \in Seq(Batch) /\ Len(batchQ') <= BatchQueueCapacity
    <3>1. batchQ \in Seq(Batch) /\ Len(batchQ) <= BatchQueueCapacity /\ BatchQueueCapacity \in Nat
      BY RecordAssumption DEF TypeOK
    <3>2. batchQ' = Tail(batchQ) /\ batchQ # <<>>
      BY <1>10 DEF TakeBatch
    <3> QED
      BY <3>1, <3>2, TailWithin
  <2>2. sessionUp' \in BOOLEAN /\ UNCHANGED <<inbound, recordCh, worker>>
    BY <1>10 DEF TakeBatch
  <2> QED
    BY <2>1, <2>2 DEF TypeOK, inbound, worker
<1>11. ASSUME QueueDisconnected PROVE TypeOK'
  BY <1>11 DEF QueueDisconnected, TypeOK, inbound, worker
<1>12. ASSUME UNCHANGED vars PROVE TypeOK'
  BY <1>12 DEF vars, TypeOK, inbound, worker
<1> QED
  BY <1>1, <1>2, <1>3, <1>5, <1>6, <1>7, <1>8, <1>9, <1>10, <1>11, <1>12
     DEF Next, Producer, RecordsThread, Session, Finished

(* The sink's state is always well typed: no queue exceeds its capacity,   *)
(* a partial batch never reaches the size trigger, and every window bit    *)
(* stays within the mask.                                                  *)
THEOREM TypeCorrect == Spec => []TypeOK
BY InitType, NextType, PTL DEF Spec

-----------------------------------------------------------------------------
(* Accounting.                                                             *)

\* A thread that is past its loop has emptied the channel, and one that left
\* the loop did so because its senders had finished.
LoopLeft ==
  /\ ~(thread \in {"opening", "running"}) => recordCh = <<>>
  /\ thread \in {"closing", "done"} => owner # "open"

\* No record stands behind Shutdown in the channel, so none is left there when
\* the thread stops.
ShutdownIsLast ==
  \A i \in DOMAIN recordCh :
    recordCh[i] = Shutdown => i = Len(recordCh) /\ owner = "shutdown"

AccountInv == TypeOK /\ ShutdownIsLast /\ LoopLeft /\ InboundAccounting

(* A channel that starts with a record has one more record waiting than    *)
(* its tail, and the tail ends in Shutdown only if the channel does.       *)
LEMMA WaitingTail ==
  ASSUME TypeOK, ShutdownIsLast, recordCh # <<>>, recordCh' = Tail(recordCh), owner' = owner
  PROVE  /\ Head(recordCh) # Shutdown => Waiting = Waiting' + 1
         /\ Head(recordCh) = Shutdown => recordCh' = <<>> /\ Waiting = 0 /\ owner = "shutdown"
         /\ ShutdownIsLast'
<1>1. recordCh \in Seq(Message) /\ Len(recordCh) \in Nat \ {0}
  BY SMT DEF TypeOK
<1>2. Head(recordCh) = recordCh[1]
  BY <1>1, SMT
<1>3. /\ Len(recordCh') = Len(recordCh) - 1
      /\ \A i \in 1 .. Len(recordCh) - 1 : recordCh'[i] = recordCh[i + 1]
  BY <1>1, SMT
<1>4. DOMAIN recordCh = 1 .. Len(recordCh) /\ DOMAIN recordCh' = 1 .. Len(recordCh')
  BY <1>1, <1>3, SMT
<1>5. ShutdownIsLast'
  BY <1>1, <1>3, <1>4, SMT DEF ShutdownIsLast
<1>6. CASE Head(recordCh) = Shutdown
  <2>1. Len(recordCh) = 1 /\ owner = "shutdown"
    BY <1>1, <1>2, <1>4, <1>6, SMT DEF ShutdownIsLast
  <2>2. recordCh' = <<>>
    BY <1>1, <2>1, SMT
  <2> QED
    BY <1>2, <1>5, <1>6, <2>1, <2>2, SMT DEF Waiting
<1>7. CASE Head(recordCh) # Shutdown
  <2>1. CASE Len(recordCh) = 1
    <3>1. recordCh' = <<>> /\ recordCh # <<>> /\ Len(recordCh') = 0
      BY <1>1, <2>1, SMT
    <3>2. recordCh[Len(recordCh)] # Shutdown
      BY <1>2, <1>7, <2>1
    <3>3. Waiting = Len(recordCh) /\ Waiting' = Len(recordCh')
      <4>1. Waiting = Len(recordCh)
        BY <3>2 DEF Waiting
      <4>2. Waiting' = Len(recordCh')
        BY <3>1 DEF Waiting
      <4> QED
        BY <4>1, <4>2
    <3> QED
      <4>1. Waiting = Waiting' + 1
        BY <2>1, <3>1, <3>3, SMT
      <4> QED
        BY <1>5, <1>7, <4>1
  <2>2. CASE Len(recordCh) # 1
    <3>1. recordCh' # <<>> /\ recordCh'[Len(recordCh')] = recordCh[Len(recordCh)]
      <4>1. Len(recordCh') \in 1 .. Len(recordCh) - 1 /\ Len(recordCh') + 1 = Len(recordCh)
        BY <1>1, <1>3, <2>2, SMT
      <4>2. recordCh'[Len(recordCh')] = recordCh[Len(recordCh)]
        BY <1>3, <4>1
      <4>3. Len(<<>>) = 0 /\ Len(recordCh') # 0
        BY <1>1, <4>1, SMT
      <4>4. recordCh' # <<>>
        BY <4>3
      <4> QED
        BY <4>2, <4>4
    <3>2. Waiting = Waiting' + 1
      BY <1>1, <1>3, <3>1, SMT DEF Waiting
    <3> QED
      BY <1>5, <1>7, <3>2
  <2> QED
    BY <2>1, <2>2
<1> QED
  BY <1>6, <1>7

(* Queueing a message behind others that are no Shutdown.                  *)
LEMMA WaitingAppend ==
  ASSUME TypeOK, ShutdownIsLast, owner = "open", NEW m \in Message,
         recordCh' = Append(recordCh, m)
  PROVE  /\ m # Shutdown => ShutdownIsLast' /\ Waiting' = Waiting + 1
         /\ m = Shutdown => Waiting' = Waiting /\ (owner' = "shutdown" => ShutdownIsLast')
<1>1. recordCh \in Seq(Message) /\ Len(recordCh) \in Nat
  BY SMT DEF TypeOK
<1>2. /\ Len(recordCh') = Len(recordCh) + 1
      /\ recordCh'[Len(recordCh) + 1] = m
      /\ \A i \in 1 .. Len(recordCh) : recordCh'[i] = recordCh[i]
  BY <1>1, SMT
<1>3. DOMAIN recordCh = 1 .. Len(recordCh) /\ DOMAIN recordCh' = 1 .. Len(recordCh) + 1
  BY <1>1, SMT
<1>4. \A i \in 1 .. Len(recordCh) : recordCh[i] # Shutdown
  BY <1>3 DEF ShutdownIsLast
<1>5. Waiting = Len(recordCh)
  <2>1. CASE recordCh = <<>>
    BY <2>1 DEF Waiting
  <2>2. CASE recordCh # <<>>
    <3>1. Len(recordCh) \in 1 .. Len(recordCh)
      BY <1>1, <2>2, SMT
    <3> QED
      BY <1>4, <3>1 DEF Waiting
  <2> QED
    BY <2>1, <2>2
<1>6. recordCh' # <<>>
  BY <1>1, SMT
<1>7. Waiting' = IF m = Shutdown THEN Len(recordCh) ELSE Len(recordCh) + 1
  BY <1>1, <1>2, <1>6, SMT DEF Waiting
<1>8. ASSUME NEW i \in DOMAIN recordCh', recordCh'[i] = Shutdown
      PROVE  i = Len(recordCh') /\ m = Shutdown
  <2>1. i \in 1 .. Len(recordCh) \/ i = Len(recordCh) + 1
    BY <1>1, <1>3, <1>8, SMT
  <2> QED
    BY <1>2, <1>4, <1>8, <2>1
<1> QED
  BY <1>5, <1>7, <1>8 DEF ShutdownIsLast

(* Accounting holds at the start.                                          *)
LEMMA InitAccounting == Init => AccountInv
<1> SUFFICES ASSUME Init PROVE AccountInv
  OBVIOUS
<1>1. recordCh = <<>> /\ csv = <<>>
  BY DEF Init
<1>2. DOMAIN recordCh = {} /\ Len(recordCh) = 0 /\ Len(csv) = 0
  BY <1>1, SMT
<1>3. Waiting = 0
  BY <1>1, <1>2 DEF Waiting
<1>4. InboundAccounting
  BY <1>2, <1>3, SMT DEF InboundAccounting, Init
<1> QED
  BY <1>1, <1>2, <1>4, InitType DEF AccountInv, ShutdownIsLast, LoopLeft, Init

(* The variables accounting speaks of, when the channel is left alone.     *)
LEMMA AccountingFrame ==
  ASSUME AccountInv, TypeOK', UNCHANGED <<recordCh, offered, record_drops, csv, csv_records,
                                 duplicate_records>>,
         owner' = owner \/ owner = "open",
         thread' = thread \/ (thread' \in {"opening", "running", "closing"} /\ thread # "panicked"),
         LoopLeft'
  PROVE  AccountInv'
<1>1. Waiting' = Waiting
  BY DEF Waiting
<1>2. InboundAccounting'
  BY <1>1 DEF AccountInv, InboundAccounting
<1>3. ShutdownIsLast'
  BY DEF AccountInv, ShutdownIsLast
<1> QED
  BY <1>2, <1>3 DEF AccountInv

(* Every step keeps the accounts.                                          *)
LEMMA NextAccounting == AccountInv /\ [Next]_vars => AccountInv'
<1> SUFFICES ASSUME AccountInv, [Next]_vars PROVE AccountInv'
  OBVIOUS
<1> USE DEF AccountInv
<1>0. TypeOK'
  BY NextType
<1>t. {offered, record_drops, csv_records, duplicate_records} \subseteq Nat /\ Waiting \in Int
  <2>1. recordCh \in Seq(Message)
    BY DEF TypeOK
  <2>2. Len(recordCh) \in Nat
    BY <2>1, SMT
  <2>3. Waiting \in Int
    BY <2>2, SMT DEF Waiting
  <2> QED
    BY <2>3 DEF TypeOK
<1>1. ASSUME NEW s \in Ssrcs, NEW q \in SeqNums, OfferRecord(s, q) PROVE AccountInv'
  <2> DEFINE m == Packet([n |-> offered, ssrc |-> s, seq |-> q])
  <2>1. m \in Message /\ m # Shutdown
    BY DEF TypeOK, Packet, Message, Record, Shutdown
  <2>2. owner = "open" /\ UNCHANGED <<thread, csv, csv_records, duplicate_records, owner>>
    BY <1>1 DEF OfferRecord, TrySendRecord, worker
  <2>3. CASE RecordRoom
    <3>1. recordCh' = Append(recordCh, m) /\ UNCHANGED record_drops /\ offered' = offered + 1
      BY <1>1, <2>3 DEF OfferRecord, TrySendRecord
    <3>2. ShutdownIsLast' /\ Waiting' = Waiting + 1
      <4> HIDE DEF m
      <4> QED
        BY <2>1, <2>2, <3>1, WaitingAppend
    <3>3. InboundAccounting'
      <4>1. /\ offered \in Int /\ record_drops \in Int /\ csv_records \in Int
            /\ duplicate_records \in Int /\ Waiting \in Int
        BY <1>t
      <4>2. thread # "panicked" => offered' = record_drops' + Waiting' + csv_records'
                                              + duplicate_records'
        BY <2>2, <3>1, <3>2, <4>1, SMT DEF InboundAccounting
      <4> QED
        BY <2>2, <4>2 DEF InboundAccounting
    <3>4. LoopLeft'
      BY <2>2, <2>3 DEF LoopLeft, RecordRoom, Alive
    <3> QED
      BY <1>0, <3>2, <3>3, <3>4
  <2>4. CASE ~RecordRoom
    <3>1. UNCHANGED recordCh /\ record_drops' = record_drops + 1 /\ offered' = offered + 1
      BY <1>1, <2>4 DEF OfferRecord, TrySendRecord
    <3>2. Waiting' = Waiting /\ ShutdownIsLast'
      BY <2>2, <3>1 DEF Waiting, ShutdownIsLast
    <3>3. InboundAccounting'
      <4>1. (offered = record_drops + Waiting + csv_records + duplicate_records)
             => (offered' = record_drops' + Waiting' + csv_records' + duplicate_records')
        BY <1>t, <2>2, <3>1, <3>2, SMT
      <4> QED
        BY <2>2, <4>1 DEF InboundAccounting
    <3> QED
      BY <1>0, <2>2, <3>1, <3>2, <3>3 DEF LoopLeft
  <2> QED
    BY <2>3, <2>4
<1>2. ASSUME SendShutdown PROVE AccountInv'
  <2>1. /\ owner = "open" /\ owner' = "shutdown"
        /\ UNCHANGED <<thread, csv, csv_records, duplicate_records, offered, record_drops>>
    BY <1>2 DEF SendShutdown, worker
  <2>2. CASE Alive
    <3>1. recordCh' = Append(recordCh, Shutdown) /\ Shutdown \in Message
      BY <1>2, <2>2 DEF SendShutdown, Message
    <3>2. ShutdownIsLast' /\ Waiting' = Waiting
      BY <2>1, <3>1, WaitingAppend
    <3>3. LoopLeft'
      BY <2>1, <2>2 DEF LoopLeft, Alive
    <3> QED
      BY <1>0, <2>1, <3>2, <3>3 DEF InboundAccounting
  <2>3. CASE ~Alive
    <3>1. UNCHANGED recordCh
      BY <1>2, <2>3 DEF SendShutdown
    <3>2. LoopLeft'
      BY <2>1, <3>1 DEF LoopLeft
    <3> QED
      BY <1>0, <2>1, <3>1, <3>2, AccountingFrame
  <2> QED
    BY <2>2, <2>3
<1>3. ASSUME DropSender PROVE AccountInv'
  <2>1. LoopLeft'
    BY <1>3 DEF DropSender, LoopLeft, worker
  <2> QED
    BY <1>0, <1>3, <2>1, AccountingFrame DEF DropSender, worker
<1>4. ASSUME Panic, thread \in {"opening", "running"} PROVE AccountInv'
  <2>1. recordCh' = <<>> /\ thread' = "panicked" /\ UNCHANGED <<owner, csv, csv_records>>
    BY <1>4 DEF Panic, inbound
  <2>2. ShutdownIsLast'
    <3>1. DOMAIN recordCh' = {}
      BY <2>1, SMT
    <3> QED
      BY <3>1 DEF ShutdownIsLast
  <2> QED
    BY <1>0, <2>1, <2>2 DEF InboundAccounting, LoopLeft
<1>5. ASSUME OpenCsv PROVE AccountInv'
  <2>1. CASE Panic
    BY <1>4, <1>5, <2>1 DEF OpenCsv
  <2>2. CASE ~Panic
    <3>1. /\ thread = "opening" /\ thread' = "running"
          /\ UNCHANGED <<inbound, recordCh, csv, csv_records, duplicate_records>>
      BY <1>5, <2>2 DEF OpenCsv
    <3>2. LoopLeft'
      BY <3>1 DEF LoopLeft
    <3> QED
      BY <1>0, <3>1, <3>2, AccountingFrame DEF inbound
  <2> QED
    BY <2>1, <2>2
<1>6. ASSUME HandleRecord PROVE AccountInv'
  <2> DEFINE r == Head(recordCh).record
  <2>1. thread = "running" /\ recordCh # <<>> /\ Head(recordCh) # Shutdown
    BY <1>6 DEF HandleRecord, Shutdown
  <2>2. CASE Overflows(r)
    BY <1>4, <1>6, <2>1, <2>2 DEF HandleRecord
  <2>3. CASE ~Overflows(r)
    <3>1. /\ recordCh' = Tail(recordCh) /\ UNCHANGED <<inbound, thread>>
          /\ IF Duplicate(r) THEN SkipDuplicate ELSE AcceptRecord(r)
      BY <1>6, <2>3 DEF HandleRecord
    <3>2. Waiting = Waiting' + 1 /\ ShutdownIsLast'
      BY <2>1, <3>1, WaitingTail DEF inbound
    <3>3. Waiting' \in Int
      <4>1. recordCh' \in Seq(Message)
        BY <1>0 DEF TypeOK
      <4>2. Len(recordCh') \in Nat
        BY <4>1, SMT
      <4> QED
        BY <4>2, SMT DEF Waiting
    <3>4. LoopLeft'
      BY <2>1, <3>1 DEF LoopLeft
    <3>5. CASE Duplicate(r)
      <4>1. duplicate_records' = duplicate_records + 1 /\ UNCHANGED <<csv, csv_records>>
        BY <3>1, <3>5 DEF SkipDuplicate
      <4>2. InboundAccounting'
        <5>1. offered = record_drops + Waiting + csv_records + duplicate_records
          BY <2>1 DEF InboundAccounting
        <5>2. UNCHANGED <<offered, record_drops>>
          BY <3>1 DEF inbound
        <5>3. offered' = record_drops' + Waiting' + csv_records' + duplicate_records'
          BY <1>t, <3>2, <3>3, <4>1, <5>1, <5>2, SMT
        <5> QED
          BY <4>1, <5>3 DEF InboundAccounting
      <4> QED
        BY <1>0, <3>2, <3>4, <4>2
    <3>6. CASE ~Duplicate(r)
      <4>1. /\ csv' = Append(csv, r) /\ csv_records' = csv_records + 1
            /\ UNCHANGED duplicate_records
        BY <3>1, <3>6 DEF AcceptRecord
      <4>2. Len(csv') = Len(csv) + 1
        <5>1. csv \in Seq(Record)
          BY DEF TypeOK
        <5> HIDE DEF r
        <5> QED
          BY <4>1, <5>1, SMT
      <4>3. InboundAccounting'
        BY <1>t, <2>1, <3>1, <3>2, <3>3, <4>1, <4>2, SMT DEF InboundAccounting, inbound
      <4> QED
        BY <1>0, <3>2, <3>4, <4>3
    <3> QED
      BY <3>5, <3>6
  <2> QED
    BY <2>2, <2>3
<1>7. ASSUME Timeout PROVE AccountInv'
  <2>1. LoopLeft'
    BY <1>7 DEF Timeout, LoopLeft, inbound
  <2> QED
    BY <1>0, <1>7, <2>1, AccountingFrame DEF Timeout, inbound
<1>8. ASSUME HandleShutdown PROVE AccountInv'
  <2>1. /\ thread = "running" /\ thread' = "closing"
        /\ UNCHANGED <<inbound, csv, csv_records, duplicate_records>>
    BY <1>8 DEF HandleShutdown
  <2>2. CASE recordCh # <<>>
    <3>1. Head(recordCh) = Shutdown /\ recordCh' = Tail(recordCh)
      BY <1>8, <2>2 DEF HandleShutdown
    <3>2. recordCh' = <<>> /\ Waiting = 0 /\ owner = "shutdown" /\ ShutdownIsLast'
      BY <2>1, <2>2, <3>1, WaitingTail DEF inbound
    <3>3. Waiting' = 0
      <4>1. Len(<<>>) = 0
        BY SMT
      <4> QED
        BY <3>2, <4>1 DEF Waiting
    <3>4. LoopLeft'
      BY <2>1, <3>2 DEF LoopLeft, inbound
    <3> QED
      BY <1>0, <2>1, <3>2, <3>3, <3>4 DEF InboundAccounting, inbound
  <2>3. CASE recordCh = <<>>
    <3>1. owner = "dropped" /\ UNCHANGED recordCh
      BY <1>8, <2>3 DEF HandleShutdown
    <3>2. LoopLeft'
      BY <2>1, <2>3, <3>1 DEF LoopLeft, inbound
    <3> QED
      BY <1>0, <2>1, <3>1, <3>2, AccountingFrame DEF inbound
  <2> QED
    BY <2>2, <2>3
<1>9. ASSUME SendSentinel PROVE AccountInv'
  <2>1. /\ thread = "closing" /\ thread' = "done" /\ recordCh' = <<>>
        /\ UNCHANGED <<inbound, csv, csv_records, duplicate_records>>
    BY <1>9 DEF SendSentinel
  <2>2. recordCh = <<>> /\ owner # "open"
    BY <2>1 DEF LoopLeft
  <2>3. Waiting' = Waiting /\ ShutdownIsLast'
    BY <2>1, <2>2 DEF Waiting, ShutdownIsLast, inbound
  <2> QED
    BY <1>0, <2>1, <2>2, <2>3 DEF InboundAccounting, LoopLeft, inbound
<1>10. ASSUME TakeBatch \/ QueueDisconnected \/ UNCHANGED vars PROVE AccountInv'
  <2>1. UNCHANGED <<owner, thread, recordCh, offered, record_drops, csv, csv_records,
                    duplicate_records>>
    BY <1>10 DEF TakeBatch, QueueDisconnected, vars, inbound, worker
  <2>2. LoopLeft'
    BY <2>1 DEF LoopLeft
  <2> QED
    BY <1>0, <2>1, <2>2, AccountingFrame
<1> QED
  BY <1>1, <1>2, <1>3, <1>5, <1>6, <1>7, <1>8, <1>9, <1>10
     DEF Next, Producer, RecordsThread, Session, Finished

(* No record goes missing on its way to the CSV writer: unless the records *)
(* thread panics, every record offered is counted once or still waits.     *)
THEOREM RecordsAccounted == Spec => []InboundAccounting
<1>1. AccountInv => InboundAccounting
  BY DEF AccountInv
<1> QED
  BY <1>1, InitAccounting, NextAccounting, PTL DEF Spec

-----------------------------------------------------------------------------
(* The sentinel.                                                           *)

SentinelInv == TypeOK /\ SentinelUnambiguous

(* What flush_batch does to the queue.                                     *)
LEMMA FlushQueue ==
  ASSUME NEW p, FlushBatch(p)
  PROVE  \/ batchQ' = batchQ
         \/ p # <<>> /\ batchQ' = Append(batchQ, [records |-> p, seq |-> seq + 1])
BY DEF FlushBatch

(* A batch flushed while the thread runs is never mistaken for a sentinel. *)
LEMMA FlushSentinel ==
  ASSUME SentinelInv, thread = "running", NEW p \in Seq(Record), csv' \in Seq(Record),
         FlushBatch(p), thread' \in {"running", "closing"}, UNCHANGED sessionUp
  PROVE  SentinelUnambiguous'
<1>1. batchQ \in Seq(Batch) /\ seq \in Nat /\ Alive /\ sessionUp
  BY DEF SentinelInv, SentinelUnambiguous, TypeOK, Alive
<1>2. \A i \in DOMAIN batchQ : batchQ[i].records # <<>>
  BY DEF SentinelInv, SentinelUnambiguous
<1>3. \A i \in DOMAIN batchQ' : batchQ'[i].records # <<>>
  <2>1. CASE batchQ' = batchQ
    BY <1>2, <2>1
  <2>2. CASE p # <<>> /\ batchQ' = Append(batchQ, [records |-> p, seq |-> seq + 1])
    <3> DEFINE b == [records |-> p, seq |-> seq + 1]
    <3>1. b \in Batch /\ b.records # <<>>
      BY <1>1, <2>2, SMT DEF Batch
    <3>2. batchQ' = Append(batchQ, b)
      BY <2>2
    <3> HIDE DEF b
    <3>3. ASSUME NEW i \in DOMAIN batchQ'
          PROVE  (i \in DOMAIN batchQ /\ batchQ'[i] = batchQ[i]) \/ batchQ'[i] = b
      BY <1>1, <3>1, <3>2, SMT
    <3> QED
      BY <1>2, <3>1, <3>3
  <2> QED
    BY <2>1, <2>2, FlushQueue
<1> QED
  BY <1>1, <1>3 DEF SentinelUnambiguous, Alive

(* There is no sentinel in the beginning.                                  *)
LEMMA InitSentinel == Init => SentinelInv
<1> SUFFICES ASSUME Init PROVE SentinelInv
  OBVIOUS
<1>1. batchQ = <<>> /\ sessionUp /\ thread = "opening"
  BY DEF Init
<1> QED
  BY <1>1, InitType DEF SentinelInv, SentinelUnambiguous

(* Every step keeps the sentinel unambiguous.                              *)
LEMMA NextSentinel == SentinelInv /\ [Next]_vars => SentinelInv'
<1> SUFFICES ASSUME SentinelInv, [Next]_vars PROVE SentinelInv'
  OBVIOUS
<1>0. TypeOK /\ TypeOK' /\ SentinelUnambiguous
  BY NextType DEF SentinelInv
<1>1. ASSUME UNCHANGED <<thread, sessionUp, batchQ>> PROVE SentinelInv'
  BY <1>0, <1>1 DEF SentinelInv, SentinelUnambiguous, Alive
<1>2. ASSUME Panic, Alive PROVE SentinelInv'
  <2>1. thread' = "panicked" /\ UNCHANGED <<sessionUp, batchQ>> /\ thread # "done"
    BY <1>2 DEF Panic, Alive
  <2> QED
    BY <1>0, <1>2, <2>1 DEF SentinelInv, SentinelUnambiguous, Alive
<1>3. ASSUME OpenCsv PROVE SentinelInv'
  <2>1. Alive /\ thread # "done"
    BY <1>3 DEF OpenCsv, Alive
  <2>2. Panic \/ (thread' = "running" /\ UNCHANGED <<sessionUp, batchQ>>)
    BY <1>3 DEF OpenCsv
  <2>3. CASE thread' = "running" /\ UNCHANGED <<sessionUp, batchQ>>
    BY <1>0, <2>1, <2>3 DEF SentinelInv, SentinelUnambiguous, Alive
  <2> QED
    BY <1>2, <2>1, <2>2, <2>3
<1>4. ASSUME HandleRecord PROVE SentinelInv'
  <2> DEFINE r == Head(recordCh).record
             p == Append(pending, r)
  <2>1. thread = "running" /\ Alive
    BY <1>4 DEF HandleRecord, Alive
  <2>2. CASE Overflows(r)
    BY <1>2, <1>4, <2>1, <2>2 DEF HandleRecord
  <2>3. CASE ~Overflows(r) /\ Duplicate(r)
    <3>1. UNCHANGED <<thread, sessionUp, batchQ>>
      BY <1>4, <2>3 DEF HandleRecord, SkipDuplicate
    <3> QED
      BY <1>1, <3>1
  <2>4. CASE ~Overflows(r) /\ ~Duplicate(r)
    <3>1. AcceptRecord(r) /\ UNCHANGED <<thread, sessionUp>>
      BY <1>4, <2>4 DEF HandleRecord
    <3>2. CASE Len(p) >= BatchSize
      <4>1. FlushBatch(p)
        BY <3>1, <3>2 DEF AcceptRecord
      <4>2. p \in Seq(Record)
        <5>1. pending \in Seq(Record) /\ recordCh \in Seq(Message) /\ recordCh # <<>>
          BY <1>0, <1>4 DEF TypeOK, HandleRecord
        <5>2. Head(recordCh) \in Message /\ Head(recordCh).type = "Record"
          BY <1>4, <5>1, HeadTailProperties DEF HandleRecord
        <5>3. r \in Record
          BY <5>2 DEF Message, Shutdown
        <5> HIDE DEF r
        <5> QED
          BY <5>1, <5>3, SMT
      <4>3. csv' \in Seq(Record)
        BY <1>0 DEF TypeOK
      <4> HIDE DEF p
      <4> QED
        BY <1>0, <2>1, <3>1, <4>1, <4>2, <4>3, FlushSentinel DEF SentinelInv
    <3>3. CASE ~(Len(p) >= BatchSize)
      <4>1. UNCHANGED batchQ
        BY <3>1, <3>3 DEF AcceptRecord
      <4> QED
        BY <1>1, <3>1, <4>1
    <3> QED
      BY <3>2, <3>3
  <2> QED
    BY <2>2, <2>3, <2>4
<1>5. ASSUME Timeout \/ HandleShutdown PROVE SentinelInv'
  <2>1. /\ thread = "running" /\ thread' \in {"running", "closing"}
        /\ FlushBatch(pending) /\ UNCHANGED sessionUp
    BY <1>5 DEF Timeout, HandleShutdown
  <2>2. pending \in Seq(Record) /\ csv' \in Seq(Record)
    BY <1>0 DEF TypeOK
  <2> QED
    BY <1>0, <2>1, <2>2, FlushSentinel DEF SentinelInv
<1>6. ASSUME SendSentinel PROVE SentinelInv'
  <2>1. thread = "closing" /\ thread' = "done" /\ UNCHANGED sessionUp /\ sessionUp
    BY <1>0, <1>6 DEF SendSentinel, SentinelUnambiguous, Alive
  <2>2. batchQ' = Append(batchQ, Sentinel) /\ batchQ \in Seq(Batch) /\ Sentinel \in Batch
    BY <1>0, <1>6, <2>1 DEF SendSentinel, TypeOK, Sentinel, Batch
  <2>3. \A i \in DOMAIN batchQ : batchQ[i].records # <<>>
    BY <1>0, <2>1 DEF SentinelUnambiguous
  <2>4. /\ Len(batchQ') = Len(batchQ) + 1
        /\ batchQ'[Len(batchQ')] = Sentinel
        /\ \A i \in DOMAIN batchQ' :
             i = Len(batchQ') \/ (i \in DOMAIN batchQ /\ batchQ'[i] = batchQ[i])
    BY <2>2, SMT
  <2>5. batchQ' # <<>>
    BY <2>2, SMT
  <2> QED
    BY <1>0, <2>1, <2>3, <2>4, <2>5 DEF SentinelInv, SentinelUnambiguous, Alive
<1>7. ASSUME TakeBatch PROVE SentinelInv'
  <2>1. /\ sessionUp /\ batchQ # <<>> /\ sessionUp' = (Head(batchQ).records # <<>>)
        /\ batchQ' = Tail(batchQ) /\ UNCHANGED thread
    BY <1>7 DEF TakeBatch, worker
  <2>2. batchQ \in Seq(Batch) /\ Len(batchQ) \in Nat \ {0} /\ Head(batchQ) = batchQ[1]
        /\ DOMAIN batchQ = 1 .. Len(batchQ)
    BY <1>0, <2>1, SMT DEF TypeOK
  <2>3. /\ DOMAIN batchQ' = 1 .. Len(batchQ) - 1 /\ Len(batchQ') = Len(batchQ) - 1
        /\ \A i \in 1 .. Len(batchQ) - 1 : batchQ'[i] = batchQ[i + 1] /\ i + 1 \in DOMAIN batchQ
    BY <2>1, <2>2, SMT
  <2>4. \A i \in DOMAIN batchQ' :
          batchQ'[i].records = <<>> => thread = "done" /\ i + 1 = Len(batchQ)
    BY <1>0, <2>3 DEF SentinelUnambiguous
  <2>5. CASE Head(batchQ).records = <<>>
    <3>1. thread = "done" /\ 1 = Len(batchQ)
      <4>1. 1 \in DOMAIN batchQ
        BY <2>2, SMT
      <4> QED
        BY <1>0, <2>2, <2>5, <4>1 DEF SentinelUnambiguous
    <3>2. batchQ' = <<>>
      BY <2>1, <2>2, <3>1, SMT
    <3>3. DOMAIN batchQ' = {}
      BY <3>2, SMT
    <3>4. ~sessionUp'
      BY <2>1, <2>5
    <3> QED
      BY <1>0, <2>1, <3>1, <3>2, <3>3, <3>4 DEF SentinelInv, SentinelUnambiguous, Alive
  <2>6. CASE Head(batchQ).records # <<>>
    <3>1. sessionUp'
      BY <2>1, <2>6
    <3>2. thread = "done" => batchQ' # <<>> /\ batchQ'[Len(batchQ')] = Sentinel
      <4> SUFFICES ASSUME thread = "done" PROVE batchQ' # <<>> /\ batchQ'[Len(batchQ')] = Sentinel
        OBVIOUS
      <4>1. batchQ[Len(batchQ)] = Sentinel
        BY <1>0, <2>1 DEF SentinelUnambiguous
      <4>2. Len(batchQ) # 1
        BY <2>2, <2>6, <4>1 DEF Sentinel
      <4>3. Len(batchQ') \in 1 .. Len(batchQ) - 1 /\ Len(batchQ') + 1 = Len(batchQ)
        BY <2>2, <2>3, <4>2, SMT
      <4>4. batchQ'[Len(batchQ')] = Sentinel
        BY <2>3, <4>1, <4>3
      <4>5. Len(<<>>) = 0
        BY SMT
      <4> QED
        BY <4>3, <4>4, <4>5, SMT
    <3>3. \A i \in DOMAIN batchQ' :
            batchQ'[i].records = <<>> => thread = "done" /\ i = Len(batchQ')
      <4>1. \A i \in DOMAIN batchQ' : i + 1 = Len(batchQ) => i = Len(batchQ')
        BY <2>2, <2>3, SMT
      <4> QED
        BY <2>4, <4>1
    <3> QED
      BY <1>0, <2>1, <3>1, <3>2, <3>3 DEF SentinelInv, SentinelUnambiguous, Alive
  <2> QED
    BY <2>5, <2>6
<1>8. ASSUME QueueDisconnected PROVE SentinelInv'
  <2>1. batchQ = <<>> /\ batchQ' = <<>> /\ ~sessionUp' /\ ~Alive /\ UNCHANGED thread
    BY <1>8 DEF QueueDisconnected, worker
  <2> QED
    BY <1>0, <2>1 DEF SentinelInv, SentinelUnambiguous, Alive
<1>9. ASSUME \/ \E s \in Ssrcs, q \in SeqNums : OfferRecord(s, q)
             \/ SendShutdown \/ DropSender \/ UNCHANGED vars
      PROVE  SentinelInv'
  BY <1>1, <1>9 DEF OfferRecord, TrySendRecord, SendShutdown, DropSender, vars, worker
<1> QED
  BY <1>3, <1>4, <1>5, <1>6, <1>7, <1>8, <1>9
     DEF Next, Producer, RecordsThread, Session, Finished

(* The session worker takes an empty batch for the sentinel, and it never  *)
(* errs: no flush makes an empty batch, the worker outlives the records    *)
(* thread, and the sentinel stands behind every batch.                     *)
THEOREM SentinelCorrect == Spec => []SentinelUnambiguous
<1>1. SentinelInv => SentinelUnambiguous
  BY DEF SentinelInv
<1> QED
  BY <1>1, InitSentinel, NextSentinel, PTL DEF Spec

-----------------------------------------------------------------------------
(* Batches partition the rows.                                             *)

\* The batches flushed so far cut the rows c into consecutive pieces.
BatchesCut(c) ==
  /\ seq = Len(batches)
  /\ \A k \in 1 .. seq :
       /\ Upto(k - 1) < Upto(k) /\ Upto(k) <= Upto(k - 1) + BatchSize
       /\ Upto(k) <= Len(c)
       /\ batches[k].records = SubSeq(c, Upto(k - 1) + 1, Upto(k))

\* The rows of c that no batch holds yet.
Rest(c) == SubSeq(c, Upto(seq) + 1, Len(c))

RowsInv ==
  /\ TypeOK
  /\ BatchesCut(csv)
  /\ thread # "panicked" => pending = Rest(csv)

(* Appending to a sequence leaves its pieces alone, and extends its end.   *)
LEMMA SubSeqAppend ==
  ASSUME NEW S, NEW s \in Seq(S), NEW x \in S, NEW m \in Nat, m >= 1,
         NEW n \in Nat, n <= Len(s)
  PROVE  /\ SubSeq(Append(s, x), m, n) = SubSeq(s, m, n)
         /\ m <= Len(s) + 1 =>
              Append(SubSeq(s, m, Len(s)), x) = SubSeq(Append(s, x), m, Len(s) + 1)
<1> DEFINE t == Append(s, x)
<1>1. /\ Len(s) \in Nat /\ t \in Seq(S) /\ Len(t) = Len(s) + 1 /\ t[Len(s) + 1] = x
      /\ \A i \in 1 .. Len(s) : t[i] = s[i] /\ s[i] \in S /\ t[i] \in S
  BY SMT
<1> HIDE DEF t
<1>2. \A i \in m .. n : i \in 1 .. Len(s)
  BY <1>1, SMT
<1>3. /\ SubSeq(s, m, n) \in Seq(S)
      /\ Len(SubSeq(s, m, n)) = IF m <= n THEN n - m + 1 ELSE 0
      /\ \A i \in 1 .. n - m + 1 : SubSeq(s, m, n)[i] = s[m + i - 1]
  <2>1. \A i \in m .. n : s[i] \in S
    BY <1>1, <1>2
  <2> QED
    BY <2>1, SubSeqProperties, SMT
<1>4. /\ SubSeq(t, m, n) \in Seq(S)
      /\ Len(SubSeq(t, m, n)) = IF m <= n THEN n - m + 1 ELSE 0
      /\ \A i \in 1 .. n - m + 1 : SubSeq(t, m, n)[i] = t[m + i - 1]
  <2>1. \A i \in m .. n : t[i] \in S
    BY <1>1, <1>2
  <2> QED
    BY <2>1, SubSeqProperties, SMT
<1>5. \A i \in 1 .. Len(SubSeq(s, m, n)) : SubSeq(t, m, n)[i] = SubSeq(s, m, n)[i]
  <2> TAKE i \in 1 .. Len(SubSeq(s, m, n))
  <2>1. i \in 1 .. n - m + 1 /\ m + i - 1 \in 1 .. Len(s)
    BY <1>1, <1>3, SMT
  <2> QED
    BY <1>1, <1>3, <1>4, <2>1
<1>6. SubSeq(t, m, n) = SubSeq(s, m, n)
  BY <1>3, <1>4, <1>5, SeqEqual
<1>7. ASSUME m <= Len(s) + 1
      PROVE  Append(SubSeq(s, m, Len(s)), x) = SubSeq(t, m, Len(s) + 1)
  <2> DEFINE u == SubSeq(s, m, Len(s))
             v == SubSeq(t, m, Len(s) + 1)
  <2>1. /\ u \in Seq(S) /\ Len(u) = Len(s) - m + 1
        /\ \A i \in 1 .. Len(s) - m + 1 : u[i] = s[m + i - 1]
    <3>1. \A i \in m .. Len(s) : s[i] \in S
      BY <1>1, SMT
    <3>2. Len(s) \in Int
      BY <1>1, SMT
    <3> QED
      BY <1>1, <1>7, <3>1, <3>2, SubSeqProperties, SMT
  <2>2. /\ v \in Seq(S) /\ Len(v) = Len(s) - m + 2
        /\ \A i \in 1 .. Len(s) - m + 2 : v[i] = t[m + i - 1]
    <3>1. \A i \in m .. Len(s) + 1 : t[i] \in S
      BY <1>1, SMT
    <3>2. Len(s) + 1 \in Int
      BY <1>1, SMT
    <3>3. /\ v \in Seq(S) /\ Len(v) = IF m <= Len(s) + 1 THEN (Len(s) + 1) - m + 1 ELSE 0
          /\ \A i \in 1 .. (Len(s) + 1) - m + 1 : v[i] = t[m + i - 1]
      BY <3>1, <3>2, SubSeqProperties, SMT
    <3> QED
      BY <1>1, <1>7, <3>3, SMT
  <2> HIDE DEF u, v
  <2>3. /\ Append(u, x) \in Seq(S) /\ Len(Append(u, x)) = Len(u) + 1
        /\ Append(u, x)[Len(u) + 1] = x /\ \A i \in 1 .. Len(u) : Append(u, x)[i] = u[i]
    BY <2>1, SMT
  <2>4. ASSUME NEW i \in 1 .. Len(Append(u, x)) PROVE Append(u, x)[i] = v[i]
    <3>1. CASE i \in 1 .. Len(u)
      <4>1. m + i - 1 \in 1 .. Len(s) /\ i \in 1 .. Len(s) - m + 1 /\ i \in 1 .. Len(s) - m + 2
        BY <1>1, <2>1, <3>1, SMT
      <4> QED
        BY <1>1, <2>1, <2>2, <2>3, <3>1, <4>1
    <3>2. CASE i = Len(u) + 1
      <4>1. m + i - 1 = Len(s) + 1 /\ i \in 1 .. Len(s) - m + 2
        BY <1>1, <1>7, <2>1, <3>2, SMT
      <4> QED
        BY <1>1, <2>2, <2>3, <3>2, <4>1
    <3> QED
      BY <1>1, <2>1, <2>3, <3>1, <3>2, SMT
  <2>5. Len(Append(u, x)) = Len(v)
    BY <1>1, <2>1, <2>2, <2>3, SMT
  <2>6. Append(u, x) = v
    BY <2>2, <2>3, <2>4, <2>5, SeqEqual
  <2> QED
    BY <2>6 DEF u, v
<1> QED
  BY <1>6, <1>7 DEF t

(* The cuts between batches are natural numbers.                           *)
LEMMA UptoType ==
  ASSUME TypeOK, seq = Len(batches)
  PROVE  \A k \in 0 .. seq : Upto(k) \in Nat
<1>1. batches \in Seq(Flushed)
  BY DEF TypeOK
<1>2. \A k \in 1 .. Len(batches) : batches[k] \in Flushed
  BY <1>1, ElementOfSeq
<1>3. \A k \in 1 .. seq : batches[k].upto \in Nat
  BY <1>2 DEF Flushed
<1>4. ASSUME NEW k \in 0 .. seq PROVE k = 0 \/ k \in 1 .. seq
  BY SMT DEF TypeOK
<1> QED
  BY <1>3, <1>4 DEF Upto

(* A row added behind the last cut lengthens the rest and no batch.        *)
LEMMA RowsGrow ==
  ASSUME TypeOK, BatchesCut(csv), NEW r \in Record, Upto(seq) <= Len(csv)
  PROVE  /\ BatchesCut(Append(csv, r))
         /\ Rest(Append(csv, r)) = Append(Rest(csv), r)
<1>1. csv \in Seq(Record) /\ Len(csv) \in Nat /\ Len(Append(csv, r)) = Len(csv) + 1
  BY SMT DEF TypeOK
<1>2. seq \in Nat /\ \A k \in 0 .. seq : Upto(k) \in Nat
  BY UptoType DEF TypeOK, BatchesCut
<1>3. ASSUME NEW k \in 1 .. seq
      PROVE  /\ Upto(k) <= Len(Append(csv, r))
             /\ SubSeq(Append(csv, r), Upto(k - 1) + 1, Upto(k))
                  = SubSeq(csv, Upto(k - 1) + 1, Upto(k))
  <2>1. k - 1 \in 0 .. seq /\ k \in 0 .. seq
    BY <1>2, SMT
  <2>2. Upto(k - 1) \in Nat /\ Upto(k) \in Nat /\ Upto(k) <= Len(csv)
    BY <1>2, <2>1 DEF BatchesCut
  <2>3. Upto(k - 1) + 1 \in Nat /\ Upto(k - 1) + 1 >= 1 /\ Upto(k) <= Len(Append(csv, r))
    BY <1>1, <2>2, SMT
  <2> DEFINE m == Upto(k - 1) + 1
             n == Upto(k)
  <2>4. m \in Nat /\ m >= 1 /\ n \in Nat /\ n <= Len(csv)
    BY <2>2, <2>3
  <2> HIDE DEF m, n
  <2>5. SubSeq(Append(csv, r), m, n) = SubSeq(csv, m, n)
    BY <1>1, <2>4, SubSeqAppend
  <2> QED
    BY <2>3, <2>5 DEF m, n
<1>4. Upto(seq) \in Nat /\ Upto(seq) + 1 \in Nat /\ Upto(seq) + 1 >= 1
      /\ Upto(seq) + 1 <= Len(csv) + 1 /\ Len(csv) <= Len(csv)
  <2>1. seq \in 0 .. seq
    BY <1>2, SMT
  <2>2. Upto(seq) \in Nat
    BY <1>2, <2>1
  <2> QED
    BY <1>1, <2>2, SMT
<1>5. Rest(Append(csv, r)) = Append(Rest(csv), r)
  <2> DEFINE m == Upto(seq) + 1
             n == Len(csv)
  <2>1. m \in Nat /\ m >= 1 /\ m <= Len(csv) + 1 /\ n \in Nat /\ n <= Len(csv)
    BY <1>1, <1>4
  <2> HIDE DEF m, n
  <2>2. Append(SubSeq(csv, m, Len(csv)), r) = SubSeq(Append(csv, r), m, Len(csv) + 1)
    BY <1>1, <2>1, SubSeqAppend
  <2> QED
    BY <1>1, <2>2 DEF m, Rest
<1> QED
  BY <1>3, <1>5 DEF BatchesCut

(* The last cut is within the rows, and the rest has as many rows as are   *)
(* behind it.                                                              *)
LEMMA LastCut ==
  ASSUME TypeOK, NEW c \in Seq(Record), BatchesCut(c)
  PROVE  /\ Len(c) \in Nat /\ Upto(seq) \in Nat /\ Upto(seq) <= Len(c)
         /\ Rest(c) \in Seq(Record) /\ Len(Rest(c)) = Len(c) - Upto(seq)
<1>1. seq \in Nat /\ Len(c) \in Nat
  BY SMT DEF TypeOK
<1>2. seq \in 0 .. seq
  BY <1>1, SMT
<1>3. Upto(seq) \in Nat
  BY <1>2, UptoType DEF BatchesCut
<1>4. Upto(seq) <= Len(c)
  <2>1. CASE seq = 0
    BY <1>1, <2>1, SMT DEF Upto
  <2>2. CASE seq # 0
    <3>1. seq \in 1 .. seq
      BY <1>1, <2>2, SMT
    <3> QED
      BY <3>1 DEF BatchesCut
  <2> QED
    BY <2>1, <2>2
<1>5. Rest(c) \in Seq(Record) /\ Len(Rest(c)) = Len(c) - Upto(seq)
  <2> DEFINE m == Upto(seq) + 1
             n == Len(c)
  <2>1. m \in Int /\ n \in Int /\ m = Upto(seq) + 1 /\ \A i \in m .. n : i \in 1 .. Len(c)
    BY <1>1, <1>3, SMT
  <2>2. \A i \in m .. n : c[i] \in Record
    BY <2>1, ElementOfSeq
  <2> HIDE DEF m, n
  <2>3. SubSeq(c, m, n) \in Seq(Record) /\ Len(SubSeq(c, m, n)) = IF m <= n THEN n - m + 1 ELSE 0
    BY <2>1, <2>2, SubSeqProperties
  <2>4. (IF m <= n THEN n - m + 1 ELSE 0) = Len(c) - Upto(seq)
    BY <1>1, <1>3, <1>4, <2>1, SMT DEF n
  <2> QED
    BY <2>3, <2>4 DEF m, n, Rest
<1> QED
  BY <1>1, <1>3, <1>4, <1>5

(* Flushing the rest of the rows c makes it one more batch.                *)
LEMMA RowsFlush ==
  ASSUME TypeOK, NEW c \in Seq(Record), csv' = c, BatchesCut(c), NEW p, p = Rest(c),
         Len(p) <= BatchSize, FlushBatch(p)
  PROVE  BatchesCut(csv)' /\ pending' = Rest(csv)'
<1>1. /\ Len(c) \in Nat /\ Upto(seq) \in Nat /\ Upto(seq) <= Len(c)
      /\ p \in Seq(Record) /\ Len(p) = Len(c) - Upto(seq)
  BY LastCut
<1>2. CASE p = <<>>
  <2>1. UNCHANGED <<seq, batches>> /\ pending' = <<>>
    BY <1>2 DEF FlushBatch
  <2> QED
    BY <1>2, <2>1 DEF BatchesCut, Rest, Upto
<1>3. CASE p # <<>>
  <2> DEFINE h == [records |-> p, queued |-> sessionUp /\ Len(batchQ) < BatchQueueCapacity,
                   upto |-> Len(c)]
  <2>1. seq' = seq + 1 /\ pending' = <<>> /\ batches' = Append(batches, h)
    BY <1>3 DEF FlushBatch
  <2>2. h.records = p /\ h.upto = Len(c)
    OBVIOUS
  <2>3. seq \in Nat /\ batches \in Seq(Flushed) /\ seq = Len(batches)
    BY DEF TypeOK, BatchesCut
  <2>4. h \in Flushed
    BY <1>1 DEF Flushed, TypeOK
  <2> HIDE DEF h
  <2>5. /\ Len(batches') = seq + 1 /\ batches'[seq + 1] = h
        /\ \A k \in 1 .. seq : batches'[k] = batches[k]
    BY <2>1, <2>3, <2>4, SMT
  <2>6. \A k \in 0 .. seq : Upto(k)' = Upto(k)
    <3> TAKE k \in 0 .. seq
    <3>1. k = 0 \/ k \in 1 .. seq
      BY <2>3, SMT
    <3> QED
      BY <2>5, <3>1 DEF Upto
  <2> PICK n \in Nat : n = seq
    BY <2>3
  <2>7. Upto(n + 1)' = Len(c) /\ Upto(n)' = Upto(n)
    <3>1. n + 1 # 0 /\ n \in 0 .. seq
      BY <2>3, SMT
    <3> QED
      BY <2>2, <2>5, <2>6, <3>1 DEF Upto
  <2>8. Len(p) # 0 /\ Upto(seq) < Len(c) /\ Len(c) <= Upto(seq) + BatchSize
    BY <1>1, <1>3, RecordAssumption, SMT
  <2>9. ASSUME NEW k \in 1 .. seq + 1
        PROVE  /\ Upto(k - 1)' < Upto(k)' /\ Upto(k)' <= Upto(k - 1)' + BatchSize
               /\ Upto(k)' <= Len(c)
               /\ batches'[k].records = SubSeq(c, Upto(k - 1)' + 1, Upto(k)')
    <3>1. k \in 1 .. seq \/ k = seq + 1
      BY <2>3, SMT
    <3>2. CASE k \in 1 .. seq
      <4>1. k - 1 \in 0 .. seq /\ k \in 0 .. seq
        BY <2>3, <3>2, SMT
      <4>2. Upto(k - 1)' = Upto(k - 1) /\ Upto(k)' = Upto(k) /\ batches'[k] = batches[k]
        BY <2>5, <2>6, <3>2, <4>1
      <4> QED
        BY <3>2, <4>2 DEF BatchesCut
    <3>3. CASE k = seq + 1
      <4>1. k - 1 = n /\ k = n + 1
        BY <2>3, <3>3, SMT
      <4>2. Upto(k - 1)' = Upto(seq) /\ Upto(k)' = Len(c)
        BY <2>7, <4>1
      <4>3. batches'[k].records = SubSeq(c, Upto(seq) + 1, Len(c))
        BY <2>2, <2>5, <3>3 DEF Rest
      <4>4. Len(c) <= Len(c)
        BY <1>1, SMT
      <4> QED
        BY <2>8, <4>2, <4>3, <4>4, Zenon
    <3> QED
      BY <3>1, <3>2, <3>3
  <2>10. BatchesCut(csv)'
    BY <2>1, <2>5, <2>9 DEF BatchesCut
  <2>11. Rest(csv)' = <<>>
    <3>1. Rest(csv)' = SubSeq(c, Len(c) + 1, Len(c))
      <4>1. seq' # 0 /\ batches'[seq'].upto = Len(c)
        BY <2>1, <2>2, <2>3, <2>5, SMT
      <4> QED
        BY <4>1 DEF Rest, Upto
    <3>2. Len(c) + 1 \in Int /\ Len(c) \in Int /\ Len(c) < Len(c) + 1
      BY <1>1, SMT
    <3> QED
      BY <3>1, <3>2, SubSeqEmpty
  <2> QED
    BY <2>1, <2>10, <2>11
<1> QED
  BY <1>2, <1>3

(* There are no rows and no batches in the beginning.                      *)
LEMMA InitRows == Init => RowsInv
<1> SUFFICES ASSUME Init PROVE RowsInv
  OBVIOUS
<1>1. csv = <<>> /\ batches = <<>> /\ seq = 0 /\ pending = <<>> /\ Len(<<>>) = 0
  BY SMT DEF Init
<1>2. 1 .. 0 = {} /\ SubSeq(<<>>, 1, 0) = <<>>
  BY SubSeqEmpty, SMT
<1>3. Rest(csv) = <<>>
  BY <1>1, <1>2, SMT DEF Rest, Upto
<1> QED
  BY <1>1, <1>2, <1>3, InitType DEF RowsInv, BatchesCut

(* Every step keeps the batches a partition of the rows.                   *)
LEMMA NextRows == RowsInv /\ [Next]_vars => RowsInv'
<1> SUFFICES ASSUME RowsInv, [Next]_vars PROVE RowsInv'
  OBVIOUS
<1>0. /\ TypeOK /\ TypeOK' /\ BatchesCut(csv) /\ csv \in Seq(Record)
      /\ (thread # "panicked" => pending = Rest(csv))
  BY NextType DEF RowsInv, TypeOK
<1>1. ASSUME UNCHANGED <<seq, batches, csv>>,
             thread' = "panicked" \/ (pending' = pending /\ thread # "panicked")
      PROVE  RowsInv'
  BY <1>0, <1>1 DEF RowsInv, BatchesCut, Rest, Upto
<1>2. ASSUME UNCHANGED <<thread, pending, seq, batches, csv>> PROVE RowsInv'
  BY <1>0, <1>2 DEF RowsInv, BatchesCut, Rest, Upto
<1>3. ASSUME Panic PROVE RowsInv'
  BY <1>1, <1>3 DEF Panic
<1>4. ASSUME OpenCsv PROVE RowsInv'
  BY <1>1, <1>3, <1>4 DEF OpenCsv
<1>5. ASSUME HandleRecord PROVE RowsInv'
  <2> DEFINE r == Head(recordCh).record
             p == Append(pending, r)
             c == Append(csv, r)
  <2>1. thread = "running" /\ thread # "panicked"
    BY <1>5 DEF HandleRecord
  <2>2. CASE Overflows(r)
    BY <1>3, <1>5, <2>2 DEF HandleRecord
  <2>3. CASE ~Overflows(r) /\ Duplicate(r)
    <3>1. SkipDuplicate /\ UNCHANGED thread
      BY <1>5, <2>3 DEF HandleRecord
    <3> QED
      BY <1>2, <3>1 DEF SkipDuplicate
  <2>4. CASE ~Overflows(r) /\ ~Duplicate(r)
    <3>1. AcceptRecord(r) /\ UNCHANGED thread
      BY <1>5, <2>4 DEF HandleRecord
    <3>2. r \in Record
      <4>1. recordCh \in Seq(Message) /\ recordCh # <<>> /\ Head(recordCh).type = "Record"
        BY <1>0, <1>5 DEF HandleRecord, TypeOK
      <4>2. Head(recordCh) \in Message
        BY <4>1, HeadTailProperties
      <4> QED
        BY <4>1, <4>2 DEF Message, Shutdown
    <3>3. csv' = c
      BY <3>1 DEF AcceptRecord
    <3>4. Upto(seq) <= Len(csv)
      BY <1>0, LastCut
    <3>5. BatchesCut(c) /\ p = Rest(c)
      BY <1>0, <2>1, <3>2, <3>4, RowsGrow
    <3>6. c \in Seq(Record) /\ Len(p) = Len(pending) + 1 /\ Len(pending) \in Nat
          /\ Len(pending) < BatchSize
      <4>1. pending \in Seq(Record) /\ Len(pending) < BatchSize
        BY <1>0 DEF TypeOK
      <4> HIDE DEF r
      <4> QED
        BY <1>0, <3>2, <4>1, SMT
    <3>7. CASE Len(p) >= BatchSize
      <4>1. FlushBatch(p)
        BY <3>1, <3>7 DEF AcceptRecord
      <4>2. Len(p) <= BatchSize
        BY <3>6, RecordAssumption, SMT
      <4> HIDE DEF p, c
      <4>3. BatchesCut(csv)' /\ pending' = Rest(csv)'
        BY <1>0, <3>3, <3>5, <3>6, <4>1, <4>2, RowsFlush
      <4> QED
        BY <1>0, <4>3 DEF RowsInv
    <3>8. CASE ~(Len(p) >= BatchSize)
      <4>1. pending' = p /\ UNCHANGED <<seq, batches>>
        BY <3>1, <3>8 DEF AcceptRecord
      <4> HIDE DEF p, c
      <4>2. BatchesCut(csv)' /\ pending' = Rest(csv)'
        BY <3>3, <3>5, <4>1 DEF BatchesCut, Rest, Upto
      <4> QED
        BY <1>0, <4>2 DEF RowsInv
    <3> QED
      BY <3>7, <3>8
  <2> QED
    BY <2>2, <2>3, <2>4
<1>6. ASSUME Timeout \/ HandleShutdown PROVE RowsInv'
  <2>1. FlushBatch(pending) /\ csv' = csv /\ pending = Rest(csv)
    BY <1>0, <1>6 DEF Timeout, HandleShutdown
  <2>2. Len(pending) <= BatchSize
    <3>1. pending \in Seq(Record) /\ Len(pending) < BatchSize
      BY <1>0 DEF TypeOK
    <3> QED
      BY <3>1, RecordAssumption, SMT
  <2>3. BatchesCut(csv)' /\ pending' = Rest(csv)'
    BY <1>0, <2>1, <2>2, RowsFlush
  <2> QED
    BY <1>0, <2>3 DEF RowsInv
<1>7. ASSUME SendSentinel PROVE RowsInv'
  BY <1>1, <1>7 DEF SendSentinel
<1>8. ASSUME \/ \E s \in Ssrcs, q \in SeqNums : OfferRecord(s, q)
             \/ SendShutdown \/ DropSender \/ TakeBatch \/ QueueDisconnected \/ UNCHANGED vars
      PROVE  RowsInv'
  BY <1>2, <1>8 DEF OfferRecord, TrySendRecord, SendShutdown, DropSender, TakeBatch, QueueDisconnected,
                    vars, worker
<1> QED
  BY <1>4, <1>5, <1>6, <1>7, <1>8 DEF Next, Producer, RecordsThread, Session, Finished

(* Each row handed to the CSV writer is in exactly one batch or still      *)
(* pending, in order, whether or not the session queue took the batches.   *)
THEOREM RowsPartitioned == Spec => []RowsBatchedOnce
<1>1. RowsInv => RowsBatchedOnce
  BY DEF RowsInv, RowsBatchedOnce, BatchesCut, Rest
<1> QED
  BY <1>1, InitRows, NextRows, PTL DEF Spec

-----------------------------------------------------------------------------
(* The session queue.                                                      *)

QueueInv == RowsInv /\ SentinelInv /\ QueueKeepsBatches

\* b is the batch that the sink counted as queued under its number, in a history h.
Counted(b, n, h) ==
  b.seq \in 1 .. n /\ h[b.seq].queued /\ b.records = h[b.seq].records

(* Flushing puts at most one batch behind the others, under a new number.  *)
LEMMA FlushKeepsQueue ==
  ASSUME QueueInv, thread = "running", NEW p \in Seq(Record), csv' \in Seq(Record),
         FlushBatch(p)
  PROVE  QueueKeepsBatches'
<1>1. /\ batchQ \in Seq(Batch) /\ seq \in Nat /\ seq = Len(batches) /\ batches \in Seq(Flushed)
      /\ sessionUp \in BOOLEAN /\ Len(csv') \in Nat
  BY LenProperties DEF QueueInv, RowsInv, TypeOK, BatchesCut
<1>2. \A i \in DOMAIN batchQ : batchQ[i] # Sentinel
  BY DEF QueueInv, SentinelInv, SentinelUnambiguous, Sentinel
<1>3. \A i \in DOMAIN batchQ :
        /\ Counted(batchQ[i], seq, batches)
        /\ \A j \in 1 .. i - 1 : batchQ[j].seq < batchQ[i].seq
  BY <1>2 DEF QueueInv, QueueKeepsBatches, Counted
<1>4. CASE p = <<>>
  BY <1>4 DEF FlushBatch, QueueInv, QueueKeepsBatches
<1>5. CASE p # <<>>
  <2> DEFINE queued == sessionUp /\ Len(batchQ) < BatchQueueCapacity
             h == [records |-> p, queued |-> queued, upto |-> Len(csv')]
             b == [records |-> p, seq |-> seq + 1]
  <2>1. seq' = seq + 1 /\ batches' = Append(batches, h)
    BY <1>5 DEF FlushBatch
  <2>2. (queued /\ batchQ' = Append(batchQ, b)) \/ (~queued /\ batchQ' = batchQ)
    BY <1>5 DEF FlushBatch
  <2>3. /\ h \in Flushed /\ h.records = p /\ h.queued = queued
        /\ b \in Batch /\ b.records = p /\ b.seq = seq + 1
    BY <1>1, SMT DEF Flushed, Batch
  <2> HIDE DEF h, b
  <2>4. batches'[seq + 1] = h /\ \A k \in 1 .. seq : batches'[k] = batches[k]
    BY <1>1, <2>1, <2>3, SMT
  <2>5. ASSUME NEW c, Counted(c, seq, batches) PROVE Counted(c, seq', batches') /\ c.seq < seq + 1
    <3>1. c.seq \in 1 .. seq /\ c.seq \in 1 .. seq + 1 /\ c.seq < seq + 1
      BY <1>1, <2>5, SMT DEF Counted
    <3> QED
      BY <2>1, <2>4, <2>5, <3>1 DEF Counted
  <2>6. CASE ~queued /\ batchQ' = batchQ
    BY <1>3, <2>5, <2>6 DEF QueueKeepsBatches, Counted
  <2>7. CASE queued /\ batchQ' = Append(batchQ, b)
    <3>1. Counted(b, seq', batches')
      <4>1. seq + 1 \in 1 .. seq + 1
        BY <1>1, SMT
      <4> QED
        BY <2>1, <2>3, <2>4, <2>7, <4>1 DEF Counted
    <3>2. /\ DOMAIN batchQ' = 1 .. Len(batchQ) + 1 /\ DOMAIN batchQ = 1 .. Len(batchQ)
          /\ batchQ'[Len(batchQ) + 1] = b /\ Len(batchQ) \in Nat
          /\ \A i \in 1 .. Len(batchQ) : batchQ'[i] = batchQ[i]
      BY <1>1, <2>3, <2>7, SMT
    <3>3. ASSUME NEW i \in DOMAIN batchQ'
          PROVE  /\ Counted(batchQ'[i], seq', batches')
                 /\ \A j \in 1 .. i - 1 : batchQ'[j].seq < batchQ'[i].seq
      <4>1. CASE i \in 1 .. Len(batchQ)
        <5>1. \A j \in 1 .. i - 1 : j \in 1 .. Len(batchQ)
          BY <3>2, <4>1, SMT
        <5> QED
          BY <1>3, <2>5, <3>2, <4>1, <5>1
      <4>2. CASE i = Len(batchQ) + 1
        <5>1. \A j \in 1 .. i - 1 : j \in 1 .. Len(batchQ)
          BY <3>2, <4>2, SMT
        <5> QED
          BY <1>3, <2>3, <2>5, <3>1, <3>2, <4>2, <5>1
      <4> QED
        BY <3>2, <4>1, <4>2, SMT
    <3> QED
      BY <3>3 DEF QueueKeepsBatches, Counted
  <2> QED
    BY <2>2, <2>6, <2>7
<1> QED
  BY <1>4, <1>5

(* Every step keeps the queue in order.                                    *)
LEMMA NextQueue == QueueInv /\ [Next]_vars => QueueInv'
<1> SUFFICES ASSUME QueueInv, [Next]_vars PROVE QueueKeepsBatches'
  BY NextRows, NextSentinel DEF QueueInv
<1>0. /\ TypeOK /\ TypeOK' /\ SentinelUnambiguous /\ QueueKeepsBatches
      /\ csv' \in Seq(Record) /\ pending \in Seq(Record) /\ batchQ \in Seq(Batch)
  <2>1. TypeOK /\ TypeOK' /\ SentinelUnambiguous /\ QueueKeepsBatches
    BY NextType DEF QueueInv, SentinelInv
  <2> QED
    BY <2>1 DEF TypeOK
<1>1. ASSUME UNCHANGED <<seq, batches, batchQ>> PROVE QueueKeepsBatches'
  BY <1>0, <1>1 DEF QueueKeepsBatches
<1>2. ASSUME HandleRecord PROVE QueueKeepsBatches'
  <2> DEFINE r == Head(recordCh).record
             p == Append(pending, r)
  <2>1. CASE UNCHANGED <<seq, batches, batchQ>>
    BY <1>1, <2>1
  <2>2. CASE FlushBatch(p) /\ thread = "running"
    <3>1. recordCh \in Seq(Message) /\ recordCh # <<>>
      BY <1>0, <1>2 DEF TypeOK, HandleRecord
    <3>2. Head(recordCh) \in Message /\ Head(recordCh).type = "Record"
      BY <1>2, <3>1, HeadTailProperties DEF HandleRecord
    <3>3. r \in Record
      BY <3>2 DEF Message, Shutdown
    <3> HIDE DEF r
    <3>4. p \in Seq(Record)
      BY <1>0, <3>3, SMT
    <3> HIDE DEF p
    <3> QED
      BY <1>0, <2>2, <3>4, FlushKeepsQueue
  <2> QED
    BY <1>2, <2>1, <2>2 DEF HandleRecord, Panic, SkipDuplicate, AcceptRecord
<1>3. ASSUME Timeout \/ HandleShutdown PROVE QueueKeepsBatches'
  <2>1. thread = "running" /\ FlushBatch(pending)
    BY <1>3 DEF Timeout, HandleShutdown
  <2> QED
    BY <1>0, <2>1, FlushKeepsQueue
<1>4. ASSUME SendSentinel PROVE QueueKeepsBatches'
  <2>1. thread = "closing" /\ sessionUp /\ UNCHANGED <<seq, batches>>
    BY <1>0, <1>4 DEF SendSentinel, SentinelUnambiguous, Alive
  <2>2. batchQ' = Append(batchQ, Sentinel) /\ Sentinel \in Batch
    BY <1>4, <2>1 DEF SendSentinel, Sentinel, Batch
  <2>3. \A i \in DOMAIN batchQ : batchQ[i] # Sentinel
    BY <1>0, <2>1 DEF SentinelUnambiguous, Sentinel
  <2>4. /\ DOMAIN batchQ' = 1 .. Len(batchQ) + 1 /\ DOMAIN batchQ = 1 .. Len(batchQ)
        /\ batchQ'[Len(batchQ) + 1] = Sentinel /\ Len(batchQ) \in Nat
        /\ Len(batchQ') = Len(batchQ) + 1
        /\ \A i \in 1 .. Len(batchQ) : batchQ'[i] = batchQ[i]
    BY <1>0, <2>2, SMT
  <2>5. ASSUME NEW i \in DOMAIN batchQ, NEW j \in 1 .. i - 1 PROVE j \in DOMAIN batchQ
    BY <2>4, SMT
  <2>6. \A i \in DOMAIN batchQ' : i \in DOMAIN batchQ \/ (i = Len(batchQ') /\ batchQ'[i] = Sentinel)
    BY <2>4, SMT
  <2> QED
    BY <1>0, <2>1, <2>3, <2>4, <2>5, <2>6 DEF QueueKeepsBatches
<1>5. ASSUME TakeBatch PROVE QueueKeepsBatches'
  <2>1. batchQ # <<>> /\ batchQ' = Tail(batchQ) /\ UNCHANGED <<seq, batches>>
    BY <1>5 DEF TakeBatch, worker
  <2>2. /\ DOMAIN batchQ = 1 .. Len(batchQ) /\ Len(batchQ) \in Nat
        /\ DOMAIN batchQ' = 1 .. Len(batchQ) - 1 /\ Len(batchQ') = Len(batchQ) - 1
        /\ \A i \in 1 .. Len(batchQ) - 1 : batchQ'[i] = batchQ[i + 1]
    BY <1>0, <2>1, SMT
  <2>3. ASSUME NEW i \in DOMAIN batchQ'
        PROVE  /\ i + 1 \in DOMAIN batchQ /\ (i + 1 = Len(batchQ) => i = Len(batchQ'))
               /\ \A j \in 1 .. i - 1 : j + 1 \in 1 .. (i + 1) - 1 /\ j \in DOMAIN batchQ'
    BY <2>2, SMT
  <2> QED
    BY <1>0, <2>1, <2>2, <2>3 DEF QueueKeepsBatches
<1>6. ASSUME \/ \E s \in Ssrcs, q \in SeqNums : OfferRecord(s, q)
             \/ SendShutdown \/ DropSender \/ OpenCsv \/ QueueDisconnected \/ UNCHANGED vars
      PROVE  QueueKeepsBatches'
  BY <1>1, <1>6 DEF OfferRecord, TrySendRecord, SendShutdown, DropSender, OpenCsv, Panic, QueueDisconnected,
                    vars, worker
<1> QED
  BY <1>2, <1>3, <1>4, <1>5, <1>6 DEF QueueInv, Next, Producer, RecordsThread, Session, Finished

(* The session worker is given the batches the sink counted as queued, with *)
(* the rows flushed under their number, in their order.                     *)
THEOREM QueueCorrect == Spec => []QueueKeepsBatches
<1>1. Init => RowsInv /\ SentinelInv
  BY InitRows, InitSentinel
<1>2. Init => QueueKeepsBatches
  BY SMT DEF Init, QueueKeepsBatches
<1>3. QueueInv => QueueKeepsBatches
  BY DEF QueueInv
<1>4. Init => QueueInv
  BY <1>1, <1>2 DEF QueueInv
<1> QED
  BY <1>3, <1>4, NextQueue, PTL DEF Spec

-----------------------------------------------------------------------------
(* dedup_map and the rows.                                                 *)

MapInv == TypeOK /\ DedupMatchesRows

\* Bit o of the entry e stands for sequence number q.
StandsFor(e, o, q) == q = (e.max_seq - o) % SeqMod

(* The entry of the record's SSRC after it is accepted: the record is      *)
(* remembered, and every bit stands for it or for a row of before.         *)
LEMMA RememberedEntry ==
  ASSUME MapInv, NEW r \in Record, ~Duplicate(r)
  PROVE  /\ \E o \in Remember(r)[r.ssrc].window : StandsFor(Remember(r)[r.ssrc], o, r.seq)
         /\ \A o \in Remember(r)[r.ssrc].window :
              \/ StandsFor(Remember(r)[r.ssrc], o, r.seq)
              \/ \E i \in DOMAIN csv : /\ csv[i].ssrc = r.ssrc
                                       /\ StandsFor(Remember(r)[r.ssrc], o, csv[i].seq)
<1> DEFINE s == r.ssrc
           e == Remember(r)[s]
<1>1. r.seq \in SeqNum
  BY RecordAssumption DEF Record
<1>2. CASE s \notin DOMAIN dedup_map
  <2>1. e = NewEntry(r.seq)
    BY <1>2 DEF Remember
  <2>2. e.max_seq = r.seq /\ e.window = {0}
    BY <2>1 DEF NewEntry
  <2>3. (r.seq - 0) % SeqMod = r.seq
    <3>1. r.seq \in Int /\ r.seq % SeqMod = r.seq
      BY <1>1, ModSeqNum
    <3>2. r.seq - 0 = r.seq
      BY <3>1, SMT
    <3> QED
      BY <3>1, <3>2
  <2> HIDE DEF e
  <2> QED
    BY <2>2, <2>3 DEF StandsFor, e
<1>3. CASE s \in DOMAIN dedup_map
  <2> DEFINE e0 == dedup_map[s]
  <2>1. e = Admit(e0, r.seq)
    BY <1>3 DEF Remember
  <2>2. e0 \in Entry /\ ~IsDuplicate(e0, r.seq)
    BY <1>3 DEF MapInv, TypeOK, Duplicate, Known
  <2>3. \A o \in e0.window : \E i \in DOMAIN csv : csv[i].ssrc = s /\ StandsFor(e0, o, csv[i].seq)
    BY <1>3 DEF MapInv, DedupMatchesRows, StandsFor
  <2> HIDE DEF e, e0
  <2>4. /\ \E o \in e.window : r.seq = (e.max_seq - o) % SeqMod
        /\ \A o \in e.window :
             \/ r.seq = (e.max_seq - o) % SeqMod
             \/ \E p \in e0.window : (e.max_seq - o) % SeqMod = (e0.max_seq - p) % SeqMod
    BY <1>1, <2>1, <2>2, AdmitRemembers
  <2>5. /\ \E o \in e.window : StandsFor(e, o, r.seq)
        /\ \A o \in e.window :
             \/ StandsFor(e, o, r.seq)
             \/ \E i \in DOMAIN csv : csv[i].ssrc = s /\ StandsFor(e, o, csv[i].seq)
    BY <2>3, <2>4 DEF StandsFor
  <2> QED
    BY <2>5 DEF e
<1> QED
  BY <1>2, <1>3

(* The entries of the other SSRCs stay as they are.                        *)
LEMMA OtherEntries ==
  ASSUME TypeOK, NEW r
  PROVE  /\ DOMAIN Remember(r) = DOMAIN dedup_map \cup {r.ssrc}
         /\ \A s \in DOMAIN dedup_map : s # r.ssrc => Remember(r)[s] = dedup_map[s]
BY DEF Remember

(* An accepted record becomes a row that dedup_map remembers.              *)
LEMMA AcceptMatches ==
  ASSUME MapInv, NEW r \in Record, ~Duplicate(r),
         csv' = Append(csv, r), dedup_map' = Remember(r)
  PROVE  DedupMatchesRows'
<1> DEFINE n == Len(csv) + 1
<1>1. /\ DOMAIN csv' = 1 .. n /\ DOMAIN csv = 1 .. n - 1 /\ csv'[n] = r /\ n \in Nat
      /\ n \in DOMAIN csv' /\ \A i \in DOMAIN csv : csv'[i] = csv[i] /\ i \in DOMAIN csv' /\ i # n
  <2>1. csv \in Seq(Record)
    BY DEF MapInv, TypeOK
  <2> QED
    BY <2>1, SMT
<1>2. /\ \A i \in DOMAIN csv' : i \in DOMAIN csv \/ i = n
      /\ \A i \in DOMAIN csv' : n <= i => i = n
  BY <1>1, SMT
<1> HIDE DEF n
<1>3. /\ DOMAIN dedup_map' = DOMAIN dedup_map \cup {r.ssrc}
      /\ \A s \in DOMAIN dedup_map : s # r.ssrc => dedup_map'[s] = dedup_map[s]
  BY OtherEntries DEF MapInv
<1>4. \A i \in DOMAIN csv' : csv'[i].ssrc \in DOMAIN dedup_map'
  BY <1>1, <1>2, <1>3 DEF MapInv, DedupMatchesRows
<1>5. ASSUME NEW s \in DOMAIN dedup_map', s # r.ssrc
      PROVE  LET rows == {i \in DOMAIN csv' : csv'[i].ssrc = s}
                 e == dedup_map'[s]
             IN  /\ \A o \in e.window : \E i \in rows : csv'[i].seq = (e.max_seq - o) % SeqMod
                 /\ \A i \in rows : (\A j \in rows : j <= i)
                      => \E o \in e.window : csv'[i].seq = (e.max_seq - o) % SeqMod
  <2>1. s \in DOMAIN dedup_map /\ dedup_map'[s] = dedup_map[s]
    BY <1>3, <1>5
  <2>2. {i \in DOMAIN csv' : csv'[i].ssrc = s} = {i \in DOMAIN csv : csv[i].ssrc = s}
    BY <1>1, <1>2, <1>5
  <2>3. \A i \in {j \in DOMAIN csv : csv[j].ssrc = s} : csv'[i].seq = csv[i].seq
    BY <1>1
  <2> QED
    BY <2>1, <2>2, <2>3 DEF MapInv, DedupMatchesRows
<1>6. LET rows == {i \in DOMAIN csv' : csv'[i].ssrc = r.ssrc}
          e == dedup_map'[r.ssrc]
      IN  /\ \A o \in e.window : \E i \in rows : csv'[i].seq = (e.max_seq - o) % SeqMod
          /\ \A i \in rows : (\A j \in rows : j <= i)
               => \E o \in e.window : csv'[i].seq = (e.max_seq - o) % SeqMod
  <2> DEFINE rows == {i \in DOMAIN csv' : csv'[i].ssrc = r.ssrc}
             e == dedup_map'[r.ssrc]
  <2>1. n \in rows /\ csv'[n].seq = r.seq
    BY <1>1
  <2>2. /\ \E o \in e.window : StandsFor(e, o, r.seq)
        /\ \A o \in e.window :
              \/ StandsFor(e, o, r.seq)
              \/ \E i \in DOMAIN csv : csv[i].ssrc = r.ssrc /\ StandsFor(e, o, csv[i].seq)
    BY RememberedEntry
  <2>3. \A i \in DOMAIN csv : csv[i].ssrc = r.ssrc => i \in rows /\ csv'[i].seq = csv[i].seq
    BY <1>1
  <2>4. \A i \in rows : (\A j \in rows : j <= i) => i = n
    BY <1>2, <2>1
  <2> HIDE DEF e, rows
  <2>5. \A o \in e.window : \E i \in rows : csv'[i].seq = (e.max_seq - o) % SeqMod
    BY <2>1, <2>2, <2>3 DEF StandsFor
  <2>6. \A i \in rows : (\A j \in rows : j <= i)
               => \E o \in e.window : csv'[i].seq = (e.max_seq - o) % SeqMod
    BY <2>1, <2>2, <2>4 DEF StandsFor
  <2> QED
    BY <2>5, <2>6 DEF e, rows
<1> QED
  BY <1>4, <1>5, <1>6 DEF DedupMatchesRows

(* Every step keeps dedup_map true to the rows.                            *)
LEMMA NextMap == MapInv /\ [Next]_vars => MapInv'
<1> SUFFICES ASSUME MapInv, [Next]_vars PROVE DedupMatchesRows'
  BY NextType DEF MapInv
<1>1. ASSUME UNCHANGED <<csv, dedup_map>> PROVE DedupMatchesRows'
  BY <1>1 DEF MapInv, DedupMatchesRows
<1>2. ASSUME HandleRecord PROVE DedupMatchesRows'
  <2> DEFINE r == Head(recordCh).record
  <2>1. CASE UNCHANGED <<csv, dedup_map>>
    BY <1>1, <2>1
  <2>2. CASE ~Duplicate(r) /\ AcceptRecord(r)
    <3>1. recordCh \in Seq(Message) /\ recordCh # <<>>
      BY <1>2 DEF MapInv, TypeOK, HandleRecord
    <3>2. Head(recordCh) \in Message /\ Head(recordCh).type = "Record"
      BY <1>2, <3>1, HeadTailProperties DEF HandleRecord
    <3>3. r \in Record
      BY <3>2 DEF Message, Shutdown
    <3> HIDE DEF r
    <3>4. csv' = Append(csv, r) /\ dedup_map' = Remember(r)
      BY <2>2 DEF AcceptRecord
    <3> QED
      BY <2>2, <3>3, <3>4, AcceptMatches
  <2> QED
    BY <1>2, <2>1, <2>2 DEF HandleRecord, Panic, SkipDuplicate
<1>3. ASSUME \/ \E s \in Ssrcs, q \in SeqNums : OfferRecord(s, q)
             \/ SendShutdown \/ DropSender \/ OpenCsv \/ Timeout \/ HandleShutdown
             \/ SendSentinel \/ TakeBatch \/ QueueDisconnected \/ UNCHANGED vars
      PROVE  DedupMatchesRows'
  BY <1>1, <1>3 DEF OfferRecord, TrySendRecord, SendShutdown, DropSender, OpenCsv, Panic, Timeout,
                    HandleShutdown, SendSentinel, TakeBatch, QueueDisconnected, vars, worker
<1> QED
  BY <1>2, <1>3 DEF Next, Producer, RecordsThread, Session, Finished

(* No row and no entry in the beginning.                                   *)
LEMMA InitMap == Init => MapInv
<1> SUFFICES ASSUME Init PROVE DedupMatchesRows
  BY InitType DEF MapInv
<1>1. csv = <<>> /\ DOMAIN dedup_map = {}
  BY DEF Init
<1>2. DOMAIN csv = {}
  BY <1>1, SMT
<1> QED
  BY <1>1, <1>2 DEF DedupMatchesRows

(* Every bit of every window stands for a row of its SSRC, and the last    *)
(* row of every SSRC is remembered, so that its retransmission is dropped. *)
THEOREM MapTrueToRows == Spec => []DedupMatchesRows
<1>1. MapInv => DedupMatchesRows
  BY DEF MapInv
<1> QED
  BY <1>1, InitMap, NextMap, PTL DEF Spec

\* Bit 0, which stands for max_seq itself, is always set.
NewestMarked == \A s \in DOMAIN dedup_map : 0 \in dedup_map[s].window

(* Every step keeps bit 0 of every window set.                             *)
LEMMA NextMarked == TypeOK /\ NewestMarked /\ [Next]_vars => NewestMarked'
<1> SUFFICES ASSUME TypeOK, NewestMarked, [Next]_vars PROVE NewestMarked'
  OBVIOUS
<1>1. ASSUME UNCHANGED dedup_map PROVE NewestMarked'
  BY <1>1 DEF NewestMarked
<1>2. ASSUME NEW r, AcceptRecord(r) PROVE NewestMarked'
  <2>1. dedup_map' = Remember(r)
    BY <1>2 DEF AcceptRecord
  <2>2. ASSUME NEW s \in DOMAIN Remember(r) PROVE 0 \in Remember(r)[s].window
    <3>1. CASE s # r.ssrc
      BY <2>2, <3>1 DEF Remember, NewestMarked
    <3>2. CASE s = r.ssrc /\ s \notin DOMAIN dedup_map
      <4>1. Remember(r)[s] = NewEntry(r.seq)
        BY <3>2 DEF Remember
      <4> QED
        BY <4>1 DEF NewEntry
    <3>3. CASE s = r.ssrc /\ s \in DOMAIN dedup_map
      <4>1. Remember(r)[s] = Admit(dedup_map[s], r.seq)
        BY <3>3 DEF Remember
      <4>2. dedup_map[s] \in Entry /\ 0 \in dedup_map[s].window
        BY <3>3 DEF TypeOK, NewestMarked
      <4>3. 0 \in Admit(dedup_map[s], r.seq).window
        BY <4>2 DEF Admit, Shift, Entry
      <4> QED
        BY <4>1, <4>3
    <3> QED
      BY <3>1, <3>2, <3>3
  <2> QED
    BY <2>1, <2>2 DEF NewestMarked
<1> QED
  BY <1>1, <1>2
     DEF Next, Producer, RecordsThread, Session, Finished, HandleRecord, SkipDuplicate,
         OfferRecord, TrySendRecord, SendShutdown, DropSender, OpenCsv, Panic, Timeout, HandleShutdown,
         SendSentinel, TakeBatch, QueueDisconnected, vars, worker

\* A row with the SSRC and sequence number of r was handed to the CSV writer.
HasRow(r) == \E i \in DOMAIN csv : csv[i].ssrc = r.ssrc /\ csv[i].seq = r.seq

(* A record counted as duplicate is a copy of a row, or it is at least     *)
(* Window sequence numbers behind the newest row of its SSRC: suppression  *)
(* never loses a record that is neither late nor seen.                     *)
DropsOnlyCopies ==
  [][duplicate_records' # duplicate_records =>
       LET r == Head(recordCh).record
       IN  HasRow(r) \/ Diff(r.seq, dedup_map[r.ssrc].max_seq) <= -Window]_vars

(* The thread that drops a record has its row, or cannot tell any more.    *)
THEOREM DuplicatesAreCopies == Spec => DropsOnlyCopies
<1> DEFINE r == Head(recordCh).record
           m == dedup_map[r.ssrc].max_seq
           d == Diff(r.seq, m)
<1>1. MapInv /\ NewestMarked /\ [Next]_vars =>
        [duplicate_records' # duplicate_records => HasRow(r) \/ d <= -Window]_vars
  <2> SUFFICES ASSUME MapInv, NewestMarked, Next, duplicate_records' # duplicate_records
               PROVE  HasRow(r) \/ d <= -Window
    BY DEF vars, worker
  <2>1. HandleRecord /\ Duplicate(r)
    BY DEF Next, Producer, RecordsThread, Session, Finished, HandleRecord, AcceptRecord,
           OfferRecord, TrySendRecord, SendShutdown, DropSender, OpenCsv, Panic, Timeout, HandleShutdown,
           SendSentinel, TakeBatch, QueueDisconnected, vars, worker
  <2>2. recordCh \in Seq(Message) /\ recordCh # <<>>
    BY <2>1 DEF MapInv, TypeOK, HandleRecord
  <2>3. Head(recordCh) \in Message /\ Head(recordCh).type = "Record"
    BY <2>1, <2>2, HeadTailProperties DEF HandleRecord
  <2>4. r \in Record
    BY <2>3 DEF Message, Shutdown
  <2> HIDE DEF r
  <2>5. /\ r.seq \in SeqNum /\ r.ssrc \in DOMAIN dedup_map /\ m \in SeqNum
        /\ dedup_map[r.ssrc] \in Entry /\ IsDuplicate(dedup_map[r.ssrc], r.seq)
    BY <2>1, <2>4, RecordAssumption DEF MapInv, TypeOK, Duplicate, Known, Entry, Record
  <2>6. d \in Int /\ r.seq = (m + d) % SeqMod /\ m \in Int
    BY <2>5, DiffLeads, ModSeqNum
  <2>7. d = 0 \/ -d >= Window \/ -d \in dedup_map[r.ssrc].window
    BY <2>5 DEF IsDuplicate
  <2> HIDE DEF d, m
  <2>8. ASSUME NEW o \in dedup_map[r.ssrc].window, m - o = m + d PROVE HasRow(r)
    <3>1. \E i \in DOMAIN csv : csv[i].ssrc = r.ssrc /\ csv[i].seq = (m - o) % SeqMod
      BY <2>5 DEF MapInv, DedupMatchesRows, m
    <3> QED
      BY <2>6, <2>8, <3>1 DEF HasRow
  <2>9. CASE d = 0
    <3>1. 0 \in dedup_map[r.ssrc].window
      BY <2>5 DEF NewestMarked
    <3>2. m - 0 = m + d
      BY <2>6, <2>9, SMT
    <3> QED
      BY <2>8, <3>1, <3>2
  <2>10. CASE -d >= Window
    BY <2>6, <2>10, HalfFacts, SMT
  <2>11. CASE -d \in dedup_map[r.ssrc].window
    <3>1. m - (-d) = m + d
      BY <2>6, SMT
    <3> QED
      BY <2>8, <2>11, <3>1
  <2> QED
    BY <2>7, <2>9, <2>10, <2>11
<1>2. Init => MapInv /\ NewestMarked
  BY InitMap DEF Init, NewestMarked
<1>3. MapInv => TypeOK
  BY DEF MapInv
<1> QED
  BY <1>1, <1>2, <1>3, NextMap, NextMarked, PTL DEF Spec, DropsOnlyCopies

-----------------------------------------------------------------------------
(* Progress of the two threads.  Liveness itself needs ENABLED and         *)
(* fairness; its two halves are proved: a step of a thread uses up some of *)
(* a natural number, and a stopping sink is never without such a step.     *)

\* What is left to do: a message can become a pending record, that a batch in
\* the queue; a thread has its own states to go through.
PendingLeft == IF pending = <<>> THEN 0 ELSE 2
SessionLeft == IF sessionUp THEN 1 ELSE 0
ThreadLeft ==
  CASE thread = "opening" -> 4 [] thread = "running" -> 3 [] thread = "closing" -> 2 [] OTHER -> 0
SinkWork ==
  3 * Len(recordCh) + PendingLeft + ThreadLeft + Len(batchQ) + SessionLeft

WorkDone == SinkWork \in Nat /\ SinkWork' \in Nat /\ SinkWork' < SinkWork

(* The lengths that SinkWork adds up.                                      *)
LEMMA WorkTerms ==
  ASSUME TypeOK
  PROVE  /\ Len(recordCh) \in Nat /\ Len(batchQ) \in Nat
         /\ (recordCh # <<>> => Len(recordCh) # 0 /\ Len(Tail(recordCh)) = Len(recordCh) - 1)
         /\ (batchQ # <<>> => Len(batchQ) # 0 /\ Len(Tail(batchQ)) = Len(batchQ) - 1)
<1>1. recordCh \in Seq(Message) /\ batchQ \in Seq(Batch)
  BY DEF TypeOK
<1> QED
  BY <1>1, SMT

(* A flush turns what is pending into at most one batch in the queue.      *)
LEMMA FlushWork ==
  ASSUME TypeOK, NEW p \in Seq(Record), FlushBatch(p)
  PROVE  /\ pending' = <<>>
         /\ p = <<>> => Len(batchQ') = Len(batchQ)
         /\ Len(batchQ') = Len(batchQ) \/ Len(batchQ') = Len(batchQ) + 1
<1>1. CASE p = <<>>
  BY <1>1 DEF FlushBatch
<1>2. CASE p # <<>>
  <2>1. PICK b : pending' = <<>> /\ (batchQ' = Append(batchQ, b) \/ batchQ' = batchQ)
    BY <1>2 DEF FlushBatch
  <2>2. batchQ \in Seq(Batch)
    BY DEF TypeOK
  <2>3. batchQ' = Append(batchQ, b) => Len(batchQ') = Len(batchQ) + 1
    BY <2>2, SMT
  <2> QED
    BY <1>2, <2>1, <2>3
<1> QED
  BY <1>1, <1>2

(* A panic leaves the thread with nothing to do.                           *)
LEMMA PanicWork ==
  ASSUME TypeOK, Panic, thread \in {"opening", "running"}
  PROVE  WorkDone
<1>1. /\ recordCh' = <<>> /\ pending' = <<>> /\ thread' = "panicked"
      /\ Len(recordCh') = 0 /\ UNCHANGED <<batchQ, sessionUp>>
  BY SMT DEF Panic
<1>2. ThreadLeft \in 3 .. 4 /\ ThreadLeft' = 0
  BY <1>1 DEF ThreadLeft
<1>3. /\ PendingLeft \in {0, 2} /\ PendingLeft' = 0
      /\ SessionLeft \in 0 .. 1 /\ SessionLeft' = SessionLeft
  BY <1>1 DEF PendingLeft, SessionLeft
<1> QED
  BY <1>1, <1>2, <1>3, WorkTerms, SMT DEF WorkDone, SinkWork

(* So does every other step of a thread.  Only a timeout with nothing      *)
(* pending changes nothing; it is no step.                                 *)
LEMMA StepWork ==
  ASSUME TypeOK, TypeOK', RecordsThread \/ Session, ~UNCHANGED vars
  PROVE  WorkDone
<1>0. /\ Len(recordCh) \in Nat /\ Len(batchQ) \in Nat /\ Len(recordCh') \in Nat /\ Len(batchQ') \in Nat
      /\ (recordCh # <<>> => Len(recordCh) # 0 /\ Len(Tail(recordCh)) = Len(recordCh) - 1)
      /\ (batchQ # <<>> => Len(batchQ) # 0 /\ Len(Tail(batchQ)) = Len(batchQ) - 1)
  <2>1. Len(recordCh') \in Nat /\ Len(batchQ') \in Nat
    BY LenProperties DEF TypeOK
  <2> QED
    BY <2>1, WorkTerms
<1>1. /\ PendingLeft \in {0, 2} /\ PendingLeft' \in {0, 2}
      /\ SessionLeft \in 0 .. 1 /\ SessionLeft' \in 0 .. 1
  BY DEF PendingLeft, SessionLeft
<1>2. /\ thread = "opening" => ThreadLeft = 4
      /\ thread = "running" => ThreadLeft = 3
      /\ thread = "closing" => ThreadLeft = 2
      /\ ~Alive => ThreadLeft = 0
      /\ thread' = "running" => ThreadLeft' = 3
      /\ thread' = "closing" => ThreadLeft' = 2
      /\ thread' = "done" => ThreadLeft' = 0
      /\ thread' = thread => ThreadLeft' = ThreadLeft
      /\ ThreadLeft \in Nat
  BY DEF ThreadLeft, Alive
<1>3. CASE OpenCsv
  <2>1. CASE Panic
    BY <1>3, <2>1, PanicWork DEF OpenCsv
  <2>2. CASE ~Panic
    <3>1. /\ thread = "opening" /\ thread' = "running"
          /\ UNCHANGED <<recordCh, pending, batchQ, sessionUp>>
      BY <1>3, <2>2 DEF OpenCsv
    <3>2. UNCHANGED <<PendingLeft, SessionLeft>>
      BY <3>1 DEF PendingLeft, SessionLeft
    <3> QED
      BY <1>0, <1>1, <1>2, <3>1, <3>2, SMT DEF WorkDone, SinkWork
  <2> QED
    BY <2>1, <2>2
<1>4. CASE HandleRecord
  <2> DEFINE r == Head(recordCh).record
  <2>1. CASE Panic
    BY <1>4, <2>1, PanicWork DEF HandleRecord
  <2>2. CASE ~Panic
    <3>1. /\ thread = "running" /\ recordCh # <<>> /\ recordCh' = Tail(recordCh)
          /\ SkipDuplicate \/ AcceptRecord(r)
          /\ UNCHANGED <<thread, sessionUp>>
      BY <1>4, <2>2 DEF HandleRecord
    <3>2. Len(batchQ') = Len(batchQ) \/ (pending' = <<>> /\ Len(batchQ') = Len(batchQ) + 1)
      <4>1. CASE SkipDuplicate
        BY <4>1 DEF SkipDuplicate
      <4>2. CASE AcceptRecord(r) /\ ~UNCHANGED batchQ
        <5>1. FlushBatch(Append(pending, r))
          BY <4>2 DEF AcceptRecord
        <5>2. Append(pending, r) \in Seq(Record)
          <6>1. recordCh \in Seq(Message) /\ recordCh # <<>> /\ Head(recordCh).type = "Record"
            BY <1>4 DEF HandleRecord, TypeOK
          <6>2. Head(recordCh) \in Message
            BY <6>1, HeadTailProperties
          <6>3. r \in Record
            BY <6>1, <6>2 DEF Message, Shutdown
          <6> QED
            BY <6>3, SMT DEF TypeOK
        <5> QED
          BY <5>1, <5>2, FlushWork
      <4> QED
        BY <3>1, <4>1, <4>2
    <3>3. Len(recordCh') = Len(recordCh) - 1 /\ Len(recordCh) # 0
      BY <1>0, <3>1
    <3>4. SessionLeft' = SessionLeft /\ (pending' = <<>> => PendingLeft' = 0)
      BY <3>1 DEF PendingLeft, SessionLeft
    <3> QED
      BY <1>0, <1>1, <1>2, <3>1, <3>2, <3>3, <3>4, SMT DEF WorkDone, SinkWork
  <2> QED
    BY <2>1, <2>2
<1>5. CASE Timeout \/ HandleShutdown
  <2>1. FlushBatch(pending) /\ pending \in Seq(Record) /\ UNCHANGED sessionUp
    BY <1>5 DEF Timeout, HandleShutdown, TypeOK
  <2>2. /\ pending' = <<>> /\ (pending = <<>> => Len(batchQ') = Len(batchQ))
        /\ Len(batchQ') = Len(batchQ) \/ Len(batchQ') = Len(batchQ) + 1
    BY <2>1, FlushWork
  <2>3. /\ SessionLeft' = SessionLeft /\ PendingLeft' = 0
        /\ pending # <<>> => PendingLeft = 2
    BY <2>1, <2>2 DEF PendingLeft, SessionLeft
  <2>4. CASE HandleShutdown
    <3>1. /\ thread = "running" /\ thread' = "closing"
          /\ recordCh' = recordCh \/ (recordCh # <<>> /\ recordCh' = Tail(recordCh))
      BY <2>4 DEF HandleShutdown
    <3>2. Len(recordCh') <= Len(recordCh)
      BY <1>0, <3>1, SMT
    <3>3. PendingLeft + Len(batchQ) >= Len(batchQ')
      BY <1>0, <1>1, <2>2, <2>3, SMT
    <3> QED
      BY <1>0, <1>1, <1>2, <2>3, <3>1, <3>2, <3>3, SMT DEF WorkDone, SinkWork
  <2>5. CASE Timeout
    <3>1. UNCHANGED <<thread, recordCh>>
      BY <2>5 DEF Timeout
    <3>2. pending # <<>>
      BY <2>5 DEF Timeout, FlushBatch, vars, worker
    <3> QED
      BY <1>0, <1>1, <1>2, <2>2, <2>3, <3>1, <3>2, SMT DEF WorkDone, SinkWork
  <2> QED
    BY <1>5, <2>4, <2>5
<1>6. CASE SendSentinel
  <2>1. /\ thread = "closing" /\ thread' = "done" /\ recordCh' = <<>>
        /\ batchQ' = batchQ \/ batchQ' = Append(batchQ, Sentinel)
        /\ UNCHANGED <<pending, sessionUp>>
    BY <1>6 DEF SendSentinel
  <2>2. Len(recordCh') = 0
    BY <2>1, SMT
  <2>3. Len(batchQ') <= Len(batchQ) + 1
    <3>1. batchQ \in Seq(Batch)
      BY DEF TypeOK
    <3> QED
      BY <2>1, <3>1, SMT
  <2>4. UNCHANGED <<PendingLeft, SessionLeft>>
    BY <2>1 DEF PendingLeft, SessionLeft
  <2> QED
    BY <1>0, <1>1, <1>2, <2>1, <2>2, <2>3, <2>4, SMT DEF WorkDone, SinkWork
<1>7. CASE TakeBatch
  <2>1. batchQ # <<>> /\ batchQ' = Tail(batchQ) /\ sessionUp /\ UNCHANGED <<thread, recordCh, pending>>
    BY <1>7 DEF TakeBatch, worker
  <2>2. UNCHANGED PendingLeft /\ SessionLeft = 1
    BY <2>1 DEF PendingLeft, SessionLeft
  <2> QED
    BY <1>0, <1>1, <1>2, <2>1, <2>2, SMT DEF WorkDone, SinkWork
<1>8. CASE QueueDisconnected
  <2>1. sessionUp /\ ~sessionUp' /\ UNCHANGED <<thread, recordCh, pending, batchQ>>
    BY <1>8 DEF QueueDisconnected, worker
  <2>2. UNCHANGED PendingLeft /\ SessionLeft = 1 /\ SessionLeft' = 0
    BY <2>1 DEF PendingLeft, SessionLeft
  <2> QED
    BY <1>0, <1>1, <1>2, <2>1, <2>2, SMT DEF WorkDone, SinkWork
<1> QED
  BY <1>3, <1>4, <1>5, <1>6, <1>7, <1>8 DEF RecordsThread, Session

(* A Shutdown that is sent is one message more.                            *)
LEMMA SendWork == TypeOK /\ SendShutdown => SinkWork \in Nat /\ SinkWork' \in Nat /\ SinkWork' <= SinkWork + 3
<1> SUFFICES ASSUME TypeOK, SendShutdown
             PROVE  SinkWork \in Nat /\ SinkWork' \in Nat /\ SinkWork' <= SinkWork + 3
  OBVIOUS
<1>1. /\ Len(recordCh) \in Nat /\ Len(batchQ) \in Nat
      /\ Len(recordCh') = Len(recordCh) \/ Len(recordCh') = Len(recordCh) + 1
  <2>1. recordCh \in Seq(Message)
    BY DEF TypeOK
  <2>2. recordCh' = recordCh \/ recordCh' = Append(recordCh, Shutdown)
    BY DEF SendShutdown
  <2> QED
    BY <2>1, <2>2, WorkTerms, SMT
<1>2. /\ UNCHANGED <<batchQ, pending, thread, sessionUp>>
      /\ PendingLeft \in Nat /\ ThreadLeft \in Nat /\ SessionLeft \in Nat
  BY SMT DEF SendShutdown, worker, PendingLeft, ThreadLeft, SessionLeft
<1>3. PendingLeft' = PendingLeft /\ ThreadLeft' = ThreadLeft /\ SessionLeft' = SessionLeft
  BY <1>2 DEF PendingLeft, ThreadLeft, SessionLeft
<1>4. Len(batchQ') = Len(batchQ)
  BY <1>2
<1> QED
  BY <1>1, <1>2, <1>3, <1>4, SMT DEF SinkWork

(* Every step of the records thread and of the session worker, a panic     *)
(* included, leaves the two less to do: between two messages offered they  *)
(* take SinkWork steps at most.                                            *)
SinkProgress == [][RecordsThread \/ Session => WorkDone]_vars

(* From StepWork: no step of a thread is for nothing.                      *)
THEOREM SinkMakesProgress == Spec => SinkProgress
<1>1. TypeOK /\ TypeOK' /\ [Next]_vars => [RecordsThread \/ Session => WorkDone]_vars
  BY StepWork
<1> QED
  BY <1>1, InitType, NextType, PTL DEF Spec, SinkProgress

\* The Shutdown that was sent waits for the records thread.
ShutdownWaits ==
  owner = "shutdown" /\ thread \in {"opening", "running"} =>
    recordCh # <<>> /\ recordCh[Len(recordCh)] = Shutdown

LEMMA NextShutdownWaits == TypeOK /\ ShutdownWaits /\ [Next]_vars => ShutdownWaits'
<1> SUFFICES ASSUME TypeOK, ShutdownWaits, [Next]_vars PROVE ShutdownWaits'
  OBVIOUS
<1>1. recordCh \in Seq(Message)
  BY DEF TypeOK
<1>3. CASE SendShutdown
  <2>1. Alive => recordCh' = Append(recordCh, Shutdown) /\ thread' = thread
    BY <1>3 DEF SendShutdown, worker
  <2>2. ~Alive => thread' \notin {"opening", "running"}
    BY <1>3 DEF SendShutdown, worker, Alive
  <2>3. Append(recordCh, Shutdown) # <<>>
        /\ Append(recordCh, Shutdown)[Len(Append(recordCh, Shutdown))] = Shutdown
    BY <1>1, SMT
  <2> QED
    BY <2>1, <2>2, <2>3 DEF ShutdownWaits
<1>4. CASE HandleRecord
  <2>1. CASE Panic
    BY <2>1 DEF Panic, ShutdownWaits
  <2>2. CASE ~Panic /\ owner = "shutdown"
    <3>1. /\ recordCh # <<>> /\ Head(recordCh).type = "Record" /\ recordCh' = Tail(recordCh)
          /\ thread = "running" /\ UNCHANGED <<owner, thread>>
      BY <1>4, <2>2 DEF HandleRecord, inbound
    <3>2. recordCh[Len(recordCh)] = Shutdown
      BY <2>2, <3>1 DEF ShutdownWaits
    <3>3. Head(recordCh) # Shutdown
      BY <3>1 DEF Shutdown
    <3>4. Tail(recordCh) # <<>> /\ Tail(recordCh)[Len(Tail(recordCh))] = Shutdown
      <4>1. /\ Len(recordCh) \in Nat \ {0} /\ Head(recordCh) = recordCh[1]
            /\ Tail(recordCh) \in Seq(Message) /\ Len(Tail(recordCh)) = Len(recordCh) - 1
            /\ \A i \in 1 .. Len(recordCh) - 1 : Tail(recordCh)[i] = recordCh[i + 1]
        BY <1>1, <3>1, SMT
      <4>2. Len(recordCh) # 1
        BY <3>2, <3>3, <4>1
      <4>3. /\ Len(recordCh) - 1 \in 1 .. Len(recordCh) - 1
            /\ (Len(recordCh) - 1) + 1 = Len(recordCh)
        BY <4>1, <4>2, SMT
      <4>4. Tail(recordCh)[Len(Tail(recordCh))] = recordCh[Len(recordCh)]
        BY <4>1, <4>3
      <4>5. Len(Tail(recordCh)) # 0
        BY <4>1, <4>3, SMT
      <4>6. Len(<<>>) = 0
        BY SMT
      <4> QED
        BY <3>2, <4>4, <4>5, <4>6
    <3> QED
      BY <3>1, <3>4 DEF ShutdownWaits
  <2>3. CASE ~Panic /\ owner # "shutdown"
    BY <1>4, <2>3 DEF HandleRecord, inbound, ShutdownWaits
  <2> QED
    BY <2>1, <2>2, <2>3
<1>5. CASE \/ \E s \in Ssrcs, q \in SeqNums : OfferRecord(s, q)
           \/ DropSender \/ HandleShutdown \/ SendSentinel
  BY <1>5 DEF OfferRecord, TrySendRecord, DropSender, HandleShutdown, SendSentinel, ShutdownWaits
<1>6. CASE OpenCsv \/ Timeout \/ TakeBatch \/ QueueDisconnected \/ UNCHANGED vars
  BY <1>6 DEF OpenCsv, Panic, Timeout, TakeBatch, QueueDisconnected, vars, inbound, worker,
              ShutdownWaits
<1> QED
  BY <1>3, <1>4, <1>5, <1>6 DEF Next, Producer, RecordsThread, Session, Finished

\* What a step of the records thread waits for, and one of the session worker.
ThreadCanGoOn ==
  \/ thread = "opening"
  \/ thread = "running" /\ (recordCh # <<>> \/ owner = "dropped")
  \/ thread = "closing" /\ (sessionUp => Len(batchQ) < BatchQueueCapacity)
SessionCanGoOn == sessionUp /\ (batchQ # <<>> \/ ~Alive)

(* Once the platform has sent Shutdown, or dropped its sender, one of the  *)
(* two threads can go on until both have ended: neither waits for a        *)
(* message or for a slot that the other will not provide, not even with    *)
(* both queues full or after a panic.                                      *)
SinkEndsAfterShutdown ==
  owner # "open" => (~Alive /\ ~sessionUp) \/ ThreadCanGoOn \/ SessionCanGoOn

(* From ShutdownWaits: the Shutdown sent is still to come.                 *)
THEOREM StoppedSinkGoesOn == Spec => []SinkEndsAfterShutdown
<1>1. TypeOK /\ ShutdownWaits => SinkEndsAfterShutdown
  <2> SUFFICES ASSUME TypeOK, ShutdownWaits, owner # "open", Alive \/ sessionUp
               PROVE  ThreadCanGoOn \/ SessionCanGoOn
    BY DEF SinkEndsAfterShutdown
  <2>1. batchQ \in Seq(Batch) /\ BatchQueueCapacity \in Nat \ {0}
    BY RecordAssumption DEF TypeOK
  <2>2. batchQ = <<>> => Len(batchQ) < BatchQueueCapacity
    BY <2>1, SMT
  <2>3. CASE ~Alive
    BY <2>3 DEF SessionCanGoOn
  <2>4. CASE thread \in {"opening", "running"}
    BY <2>4 DEF ThreadCanGoOn, ShutdownWaits, TypeOK
  <2>5. CASE thread = "closing"
    BY <2>2, <2>5 DEF ThreadCanGoOn, SessionCanGoOn
  <2> QED
    BY <2>3, <2>4, <2>5 DEF Alive
<1>2. Init => ShutdownWaits
  BY DEF Init, ShutdownWaits
<1> QED
  BY <1>1, <1>2, InitType, NextType, NextShutdownWaits, PTL DEF Spec
=============================================================================
