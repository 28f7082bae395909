-------------------------- MODULE TeamsPlatformProof --------------------------
(***************************************************************************)
(* The composition implements the PCAP sink: what PcapSinkProof proves of  *)
(* that sink alone holds of it behind any number of cores, packets and     *)
(* slots.                                                                  *)
(***************************************************************************)
EXTENDS TeamsPlatform, FiniteSetTheorems, TLAPS

PcapThms == INSTANCE PcapSinkProof WITH MaxFrames <- MaxPackets

\* The PCAP side of the platform starts as the PCAP sink does.
LEMMA InitPcap == Init => PcapThms!Init
BY DEF Init, Pcap!Init, PcapThms!Init

\* A step that leaves the variables of the sink alone.
LEMMA SamePcap == UNCHANGED pcapVars => [PcapThms!Next]_(PcapThms!vars)
BY DEF pcapVars, PcapThms!vars, PcapThms!sending

\* main waits for the cores: while one is inside a call both senders are open.
CallsEnd ==
  /\ main # "capturing" => \A c \in Cores : core[c].at = "idle"
  /\ main = "capturing" => sender = "open" /\ owner = "open"

LEMMA InitCallsEnd == Init => CallsEnd
BY DEF Init, CallsEnd, Pcap!Init, Rec!Init, Idle

(* Every step keeps it.                                                    *)
LEMMA NextCallsEnd == CallsEnd /\ [Next]_vars => CallsEnd'
<1> SUFFICES ASSUME CallsEnd, [Next]_vars PROVE CallsEnd'
  OBVIOUS
<1>1. ASSUME NEW c \in Cores, Core(c) PROVE CallsEnd'
  <2>1. main = "capturing" /\ main' = main
    BY <1>1 DEF Core, Call, HandleOther, HandleRtp, SendPacket, SendRecord, CallsEnd
  <2>2. sender' = sender /\ owner' = owner
    BY <1>1 DEF Core, Call, HandleOther, HandleRtp, SendPacket, SendRecord, pcapVars, recVars,
                Pcap!TrySendPacket, Rec!TrySendRecord
  <2> QED
    BY <2>1, <2>2 DEF CallsEnd
<1>2. CASE BeginShutdown
  BY <1>2 DEF BeginShutdown, CallsEnd, Idle
<1>3. CASE MainThread
  <2>1. main # "capturing" /\ main' # "capturing" /\ core' = core
    BY <1>3 DEF MainThread, StopPcap, StopRecords, Join
  <2> QED
    BY <2>1 DEF CallsEnd
<1>4. CASE PcapThread \/ RecordsThread \/ SessionThread
  <2>1. UNCHANGED <<core, main>>
    BY <1>4 DEF PcapThread, RecordsThread, SessionThread
  <2>2. sender' = sender
    BY <1>4 DEF PcapThread, RecordsThread, SessionThread, pcapVars, Pcap!WriterThread,
                Pcap!OpenPcap, Pcap!WritePacket, Pcap!HandleShutdown, Pcap!sending
  <2>3. owner' = owner
    BY <1>4 DEF PcapThread, RecordsThread, SessionThread, recVars, Rec!RecordsThread, Rec!Session,
                Rec!OpenCsv, Rec!Panic, Rec!HandleRecord, Rec!Timeout, Rec!HandleShutdown,
                Rec!SendSentinel, Rec!TakeBatch, Rec!QueueDisconnected, Rec!inbound
  <2> QED
    BY <2>1, <2>2, <2>3 DEF CallsEnd
<1>5. CASE UNCHANGED vars
  BY <1>5 DEF vars, pcapVars, recVars, CallsEnd
<1> QED
  BY <1>1, <1>2, <1>3, <1>4, <1>5 DEF Next, Finished

\* Every step of a core, of main or of a thread is one of the sink, or none.
LEMMA NextPcap == CallsEnd /\ [Next]_vars => [PcapThms!Next]_(PcapThms!vars)
<1> SUFFICES ASSUME CallsEnd, [Next]_vars PROVE [PcapThms!Next]_(PcapThms!vars)
  OBVIOUS
<1>1. CASE UNCHANGED vars
  BY <1>1, SamePcap DEF vars, pcapVars
<1>2. ASSUME NEW c \in Cores, Core(c) PROVE [PcapThms!Next]_(PcapThms!vars)
  <2>1. CASE UNCHANGED pcapVars
    BY <2>1, SamePcap
  <2>2. CASE SendPacket(c)
    <3>1. PcapThms!OfferPacket
      BY <2>2 DEF PcapThms!OfferPacket, CallsEnd, SendPacket, Pcap!TrySendPacket, PcapThms!TrySendPacket, Pcap!PacketRoom,
                  PcapThms!PacketRoom, Pcap!Packet, PcapThms!Packet
    <3> QED BY <3>1 DEF PcapThms!Next, PcapThms!Platform
  <2> QED
    BY <1>2, <2>1, <2>2 DEF Core, Call, HandleOther, HandleRtp, SendRecord
<1>3. CASE BeginShutdown
  <2>1. PcapThms!StartStopping
    BY <1>3 DEF BeginShutdown, Pcap!StartStopping, PcapThms!StartStopping
  <2> QED BY <2>1 DEF PcapThms!Next, PcapThms!Platform
<1>4. CASE StopPcap
  <2>1. PcapThms!TrySendShutdown
    BY <1>4 DEF StopPcap, Pcap!TrySendShutdown, PcapThms!TrySendShutdown, Pcap!PacketRoom,
                PcapThms!PacketRoom, Pcap!Shutdown, PcapThms!Shutdown
  <2> QED BY <2>1 DEF PcapThms!Next, PcapThms!Platform
<1>5. CASE StopRecords \/ Join
  <2>1. UNCHANGED pcapVars
    BY <1>5 DEF StopRecords, Join
  <2> QED BY <2>1, SamePcap
<1>6. CASE PcapThread
  <2>1. PcapThms!WriterThread
    BY <1>6 DEF PcapThread, Pcap!WriterThread, PcapThms!WriterThread, Pcap!OpenPcap,
                PcapThms!OpenPcap, Pcap!WritePacket, PcapThms!WritePacket,
                Pcap!HandleShutdown, PcapThms!HandleShutdown, Pcap!Packet, PcapThms!Packet,
                Pcap!Shutdown, PcapThms!Shutdown, Pcap!sending, PcapThms!sending
  <2> QED BY <2>1 DEF PcapThms!Next
<1>7. CASE RecordsThread \/ SessionThread
  <2>1. UNCHANGED pcapVars
    BY <1>7 DEF RecordsThread, SessionThread
  <2> QED BY <2>1, SamePcap
<1> QED
  BY <1>1, <1>2, <1>3, <1>4, <1>5, <1>6, <1>7 DEF Next, MainThread, Finished

-----------------------------------------------------------------------------
(* The platform, whatever its cores and the record sink do, is a PCAP sink *)
(* on the PCAP side: it keeps the protocol of the channel and its counters.*)
THEOREM PlatformImplementsPcapSink == Spec => PcapThms!Spec
BY InitCallsEnd, NextCallsEnd, InitPcap, NextPcap, PTL DEF Spec, PcapThms!Spec

(* No frame that a core offers is lost without being counted, for every    *)
(* number of cores and packets and every capacity of the channel.          *)
THEOREM PlatformFramesAccounted == Spec => []FramesAccounted
<1>1. PcapThms!Spec => []PcapThms!FramesAccounted
  BY PcapThms!EveryFrameAccounted, PcapAssumption, PTL
<1>2. PcapThms!FramesAccounted => FramesAccounted
  BY DEF FramesAccounted, Pcap!FramesAccounted, PcapThms!FramesAccounted, Pcap!Waiting,
         PcapThms!Waiting, Pcap!Shutdown, PcapThms!Shutdown
<1> QED BY <1>1, <1>2, PlatformImplementsPcapSink, PTL

-----------------------------------------------------------------------------
(* The platform's own variables.                                           *)

\* A core is idle, or inside a call with a record.
CoreState ==
  {Idle} \cup
  {InCall(step, s, q) : step \in {"send_packet", "try_send"}, s \in Ssrcs, q \in SeqNums}

OwnType ==
  /\ core \in [Cores -> CoreState]
  /\ main \in {"capturing", "stop_pcap", "stop_records", "join_pcap", "join_records",
               "join_session", "done"}
  /\ {ip, rtp, discarded, unknown} \subseteq Nat

\* No core is inside a call once main has begun to stop the sinks.
OwnInv ==
  /\ OwnType
  /\ main # "capturing" => \A c \in Cores : core[c] = Idle
  /\ ip = rtp + discarded + unknown

(* What a core that is not idle is doing, and with which record.           *)
LEMMA CoreSteps ==
  ASSUME NEW k \in CoreState
  PROVE  /\ k.at \in {"idle", "send_packet", "try_send"} /\ (k = Idle <=> k.at = "idle")
         /\ k # Idle => k.ssrc \in Ssrcs /\ k.seq \in SeqNums
<1>1. CASE k = Idle
  BY <1>1 DEF Idle
<1>2. CASE k # Idle
  <2>1. PICK step \in {"send_packet", "try_send"}, s \in Ssrcs, q \in SeqNums : k = InCall(step, s, q)
    BY <1>2 DEF CoreState
  <2>2. k.at = step /\ k.ssrc = s /\ k.seq = q
    BY <2>1 DEF InCall
  <2> QED
    BY <1>2, <2>1, <2>2
<1> QED
  BY <1>1, <1>2

LEMMA InitOwn == Init => OwnInv
BY SMT DEF Init, OwnInv, OwnType, CoreState

(* Every step keeps it.                                                    *)
LEMMA NextOwn == OwnInv /\ [Next]_vars => OwnInv'
<1> SUFFICES ASSUME OwnInv, [Next]_vars PROVE OwnInv'
  OBVIOUS
<1>0. /\ core \in [Cores -> CoreState] /\ ip \in Nat /\ rtp \in Nat /\ discarded \in Nat
      /\ unknown \in Nat /\ ip = rtp + discarded + unknown
      /\ main \in {"capturing", "stop_pcap", "stop_records", "join_pcap", "join_records",
                   "join_session", "done"}
      /\ main # "capturing" => \A c \in Cores : core[c] = Idle
  BY DEF OwnInv, OwnType
<1>1. ASSUME NEW c \in Cores, HandleOther(c) PROVE OwnInv'
  <2>1. /\ ip' = ip + 1 /\ UNCHANGED <<core, main, rtp>>
        /\ \/ unknown' = unknown + 1 /\ discarded' = discarded
           \/ discarded' = discarded + 1 /\ unknown' = unknown
    BY <1>1 DEF HandleOther
  <2>2. /\ {ip', rtp', discarded', unknown'} \subseteq Nat /\ ip' = rtp' + discarded' + unknown'
    BY <1>0, <2>1, SMT
  <2> QED
    BY <1>0, <2>1, <2>2 DEF OwnInv, OwnType
<1>2. ASSUME NEW c \in Cores, NEW s \in Ssrcs, NEW q \in SeqNums, HandleRtp(c, s, q) PROVE OwnInv'
  <2>1. /\ ip' = ip + 1 /\ rtp' = rtp + 1 /\ UNCHANGED <<main, discarded, unknown>>
        /\ core' = [core EXCEPT ![c] = InCall("send_packet", s, q)] /\ main = "capturing"
    BY <1>2 DEF HandleRtp
  <2>2. /\ {ip', rtp', discarded', unknown'} \subseteq Nat /\ ip' = rtp' + discarded' + unknown'
    BY <1>0, <2>1, SMT
  <2>3. InCall("send_packet", s, q) \in CoreState
    BY DEF CoreState
  <2>4. core' \in [Cores -> CoreState]
    BY <1>0, <2>1, <2>3
  <2> QED
    BY <1>0, <2>1, <2>2, <2>4 DEF OwnInv, OwnType
<1>3. ASSUME NEW c \in Cores, Call(c) PROVE OwnInv'
  <2>1. core[c] \in CoreState
    BY <1>0
  <2>2. core[c] # Idle /\ core[c].ssrc \in Ssrcs /\ core[c].seq \in SeqNums
    BY <1>3, <2>1, CoreSteps DEF Call, SendPacket, SendRecord
  <2>3. /\ InCall("try_send", core[c].ssrc, core[c].seq) \in CoreState /\ Idle \in CoreState
    BY <2>2 DEF CoreState
  <2>4. \/ core' = [core EXCEPT ![c] = InCall("try_send", core[c].ssrc, core[c].seq)]
        \/ core' = [core EXCEPT ![c] = Idle]
    BY <1>3 DEF Call, SendPacket, SendRecord
  <2>5. core' \in [Cores -> CoreState]
    BY <1>0, <2>3, <2>4
  <2>6. UNCHANGED <<main, ip, rtp, discarded, unknown>> /\ main = "capturing"
    BY <1>0, <1>3, <2>2 DEF Call, SendPacket, SendRecord, counters
  <2> QED
    BY <1>0, <2>5, <2>6 DEF OwnInv, OwnType
<1>4. ASSUME BeginShutdown \/ MainThread PROVE OwnInv'
  <2>1. UNCHANGED <<core, ip, rtp, discarded, unknown>>
    BY <1>4 DEF BeginShutdown, MainThread, StopPcap, StopRecords, Join, counters
  <2>2. /\ main' \in {"capturing", "stop_pcap", "stop_records", "join_pcap", "join_records",
                      "join_session", "done"}
        /\ \A c \in Cores : core[c] = Idle
    BY <1>0, <1>4 DEF BeginShutdown, MainThread, StopPcap, StopRecords, Join
  <2> QED
    BY <1>0, <2>1, <2>2 DEF OwnInv, OwnType
<1>5. ASSUME \/ PcapThread \/ RecordsThread \/ SessionThread \/ UNCHANGED vars PROVE OwnInv'
  BY <1>0, <1>5 DEF PcapThread, RecordsThread, SessionThread, vars, counters, OwnInv, OwnType
<1> QED
  BY <1>1, <1>2, <1>3, <1>4, <1>5 DEF Next, Core, Finished

-----------------------------------------------------------------------------
(* The composition implements the record sink.                             *)

RecThms == INSTANCE RecordSinkProof WITH MaxRecords <- MaxPackets

\* The record side of the platform starts as the record sink does.
LEMMA InitRec == Init => RecThms!Init
BY DEF Init, Rec!Init, RecThms!Init, Rec!NewEntry, RecThms!NewEntry

\* A step that leaves the variables of the sink alone.
LEMMA SameRec == UNCHANGED recVars => [RecThms!Next]_(RecThms!vars)
BY DEF recVars, RecThms!vars, RecThms!inbound, RecThms!worker

\* What the records thread does with a batch is what its own module says.
LEMMA SameFlush == \A p : Rec!FlushBatch(p) => RecThms!FlushBatch(p)
BY DEF Rec!FlushBatch, RecThms!FlushBatch

LEMMA SamePanic == Rec!Panic => RecThms!Panic
BY DEF Rec!Panic, RecThms!Panic, Rec!inbound, RecThms!inbound

\* So is what it does with a record.
LEMMA SameDuplicate == \A r : Rec!Duplicate(r) <=> RecThms!Duplicate(r)
BY DEF Rec!Duplicate, RecThms!Duplicate, Rec!Known, RecThms!Known, Rec!IsDuplicate,
       RecThms!IsDuplicate, Rec!Diff, RecThms!Diff, Rec!Half, RecThms!Half

LEMMA SameOverflows == \A r : Rec!Overflows(r) <=> RecThms!Overflows(r)
BY DEF Rec!Overflows, RecThms!Overflows, Rec!Known, RecThms!Known, Rec!NegationOverflows,
       RecThms!NegationOverflows, Rec!Diff, RecThms!Diff, Rec!Half, RecThms!Half

LEMMA SameRemember == \A r : Rec!Remember(r) = RecThms!Remember(r)
BY DEF Rec!Remember, RecThms!Remember, Rec!Admit, RecThms!Admit, Rec!NewEntry, RecThms!NewEntry,
       Rec!Shift, RecThms!Shift, Rec!Offset, RecThms!Offset, Rec!Diff, RecThms!Diff,
       Rec!Half, RecThms!Half

LEMMA SameHandleRecord == Rec!HandleRecord => RecThms!HandleRecord
<1> SUFFICES ASSUME Rec!HandleRecord PROVE RecThms!HandleRecord
  OBVIOUS
<1> DEFINE r == Head(recordCh).record
<1>1. /\ thread = "running" /\ recordCh # <<>> /\ Head(recordCh).type = "Record"
      /\ IF Rec!Overflows(r)
         THEN Rec!Panic
         ELSE /\ recordCh' = Tail(recordCh)
              /\ IF Rec!Duplicate(r) THEN Rec!SkipDuplicate ELSE Rec!AcceptRecord(r)
              /\ UNCHANGED <<Rec!inbound, thread, sessionUp>>
  BY DEF Rec!HandleRecord
<1> HIDE DEF r
<1>2. Rec!SkipDuplicate => RecThms!SkipDuplicate
  BY DEF Rec!SkipDuplicate, RecThms!SkipDuplicate
<1>3. Rec!AcceptRecord(r) => RecThms!AcceptRecord(r)
  BY SameFlush, SameRemember DEF Rec!AcceptRecord, RecThms!AcceptRecord
<1>4. UNCHANGED Rec!inbound => UNCHANGED RecThms!inbound
  BY DEF Rec!inbound, RecThms!inbound
<1>5. /\ thread = "running" /\ recordCh # <<>> /\ Head(recordCh).type = "Record"
      /\ IF RecThms!Overflows(r)
         THEN RecThms!Panic
         ELSE /\ recordCh' = Tail(recordCh)
              /\ IF RecThms!Duplicate(r) THEN RecThms!SkipDuplicate ELSE RecThms!AcceptRecord(r)
              /\ UNCHANGED <<RecThms!inbound, thread, sessionUp>>
  BY <1>1, <1>2, <1>3, <1>4, SamePanic, SameDuplicate, SameOverflows
<1> QED
  BY <1>5 DEF RecThms!HandleRecord, r

LEMMA SameThreads ==
  /\ RecordsThread => RecThms!RecordsThread
  /\ SessionThread => RecThms!Session
<1> USE DEF Rec!Alive, RecThms!Alive, Rec!Shutdown, RecThms!Shutdown, Rec!inbound, RecThms!inbound,
            Rec!worker, RecThms!worker
<1>1. ASSUME RecordsThread PROVE RecThms!RecordsThread
  <2>1. Rec!OpenCsv => RecThms!OpenCsv
    BY SamePanic DEF Rec!OpenCsv, RecThms!OpenCsv
  <2>2. Rec!Timeout => RecThms!Timeout
    BY SameFlush DEF Rec!Timeout, RecThms!Timeout
  <2>3. Rec!HandleShutdown => RecThms!HandleShutdown
    BY SameFlush DEF Rec!HandleShutdown, RecThms!HandleShutdown
  <2>4. Rec!SendSentinel => RecThms!SendSentinel
    BY DEF Rec!SendSentinel, RecThms!SendSentinel, Rec!Sentinel, RecThms!Sentinel
  <2> QED
    BY <1>1, <2>1, <2>2, <2>3, <2>4, SameHandleRecord
       DEF RecordsThread, Rec!RecordsThread, RecThms!RecordsThread
<1>2. ASSUME SessionThread PROVE RecThms!Session
  <2>1. Rec!TakeBatch => RecThms!TakeBatch
    BY DEF Rec!TakeBatch, RecThms!TakeBatch
  <2>2. Rec!QueueDisconnected => RecThms!QueueDisconnected
    BY DEF Rec!QueueDisconnected, RecThms!QueueDisconnected
  <2> QED
    BY <1>2, <2>1, <2>2 DEF SessionThread, Rec!Session, RecThms!Session
<1> QED
  BY <1>1, <1>2

\* Every step of a core, of main or of a thread is one of the sink, or none.
LEMMA NextRec == OwnInv /\ CallsEnd /\ [Next]_vars => [RecThms!Next]_(RecThms!vars)
<1> SUFFICES ASSUME OwnInv, CallsEnd, [Next]_vars PROVE [RecThms!Next]_(RecThms!vars)
  OBVIOUS
<1> USE DEF Rec!Alive, RecThms!Alive, Rec!Shutdown, RecThms!Shutdown, Rec!inbound, RecThms!inbound,
            Rec!worker, RecThms!worker, Rec!RecordRoom, RecThms!RecordRoom
<1>1. CASE UNCHANGED recVars
  BY <1>1, SameRec
<1>2. ASSUME NEW c \in Cores, SendRecord(c) PROVE RecThms!Next
  <2>1. Rec!TrySendRecord(core[c].ssrc, core[c].seq) /\ core[c].at = "try_send"
    BY <1>2 DEF SendRecord
  <2>2. core[c] \in CoreState
    BY DEF OwnInv, OwnType
  <2>3. core[c].ssrc \in Ssrcs /\ core[c].seq \in SeqNums
    BY <2>1, <2>2, CoreSteps
  <2>4. RecThms!OfferRecord(core[c].ssrc, core[c].seq)
    BY <2>1 DEF RecThms!OfferRecord, CallsEnd, Rec!TrySendRecord, RecThms!TrySendRecord, Rec!Packet, RecThms!Packet
  <2> QED
    BY <2>3, <2>4 DEF RecThms!Next, RecThms!Producer
<1>3. CASE StopRecords
  <2>1. RecThms!SendShutdown
    BY <1>3 DEF StopRecords, Rec!SendShutdown, RecThms!SendShutdown
  <2> QED
    BY <2>1 DEF RecThms!Next, RecThms!Producer
<1>4. CASE RecordsThread \/ SessionThread
  BY <1>4, SameThreads DEF RecThms!Next
<1> QED
  BY <1>1, <1>2, <1>3, <1>4
     DEF Next, Core, Call, HandleOther, HandleRtp, SendPacket, BeginShutdown, MainThread, StopPcap,
         Join, PcapThread, Finished, vars

(* The platform is a record sink on the record side: its cores offer       *)
(* records only before main sends Shutdown, and the worker threads run as  *)
(* alone.                                                                  *)
THEOREM PlatformImplementsRecordSink == Spec => RecThms!Spec
BY InitCallsEnd, NextCallsEnd, InitOwn, NextOwn, InitRec, NextRec, PTL DEF Spec, RecThms!Spec

-----------------------------------------------------------------------------
(* The calls in progress.                                                  *)

\* The cores that have still to offer a frame, and those that have still to
\* offer a record.
Busy == {c \in Cores : core[c].at # "idle"}
Packing == {c \in Cores : core[c].at = "send_packet"}

\* An RTP packet counted is one offered to each sink, or in a core's hands.
CallsInv ==
  /\ rtp = frames + Cardinality(Packing)
  /\ rtp = offered + Cardinality(Busy)

LEMMA InitCalls == Init => CallsInv
<1> SUFFICES ASSUME Init PROVE CallsInv
  OBVIOUS
<1>1. Busy = {} /\ Packing = {}
  BY DEF Init, Busy, Packing, Idle
<1>2. Cardinality({}) = 0
  BY FS_EmptySet
<1>3. rtp = 0 /\ frames = 0 /\ offered = 0
  BY DEF Init, Pcap!Init, Rec!Init
<1> QED
  BY <1>1, <1>2, <1>3, SMT DEF CallsInv

\* The sets of such cores are finite.
LEMMA CallsType ==
  /\ IsFiniteSet(Packing) /\ Cardinality(Packing) \in Nat
  /\ IsFiniteSet(Busy) /\ Cardinality(Busy) \in Nat
<1>1. Packing \subseteq Cores /\ Busy \subseteq Cores /\ IsFiniteSet(Cores)
  BY PlatformAssumption DEF Packing, Busy
<1>2. IsFiniteSet(Packing) /\ IsFiniteSet(Busy)
  BY <1>1, FS_Subset
<1> QED
  BY <1>2, FS_CardinalityType

(* Every step keeps the calls counted.                                     *)
LEMMA NextCalls ==
  OwnInv /\ CallsInv /\ {frames, offered} \subseteq Nat /\ [Next]_vars => CallsInv'
<1> SUFFICES ASSUME OwnInv, CallsInv, {frames, offered} \subseteq Nat, [Next]_vars
             PROVE  CallsInv'
  OBVIOUS
<1>0. /\ core \in [Cores -> CoreState] /\ rtp \in Nat /\ frames \in Nat /\ offered \in Nat
      /\ IsFiniteSet(Packing) /\ Cardinality(Packing) \in Nat
      /\ IsFiniteSet(Busy) /\ Cardinality(Busy) \in Nat
      /\ rtp = frames + Cardinality(Packing) /\ rtp = offered + Cardinality(Busy)
  BY CallsType DEF OwnInv, OwnType, CallsInv
<1>1. ASSUME UNCHANGED <<core, rtp, frames, offered>> PROVE CallsInv'
  BY <1>1 DEF CallsInv, Packing, Busy
<1>2. ASSUME NEW c \in Cores, NEW s \in Ssrcs, NEW q \in SeqNums, HandleRtp(c, s, q)
      PROVE  CallsInv'
  <2>1. /\ core[c].at = "idle" /\ core'[c].at = "send_packet"
        /\ \A d \in Cores : d # c => core'[d] = core[d]
        /\ rtp' = rtp + 1 /\ UNCHANGED <<frames, offered>>
    BY <1>0, <1>2 DEF HandleRtp, Idle, InCall, pcapVars, recVars
  <2>2. /\ c \notin Packing /\ Packing' = Packing \cup {c}
        /\ c \notin Busy /\ Busy' = Busy \cup {c}
    BY <2>1 DEF Packing, Busy
  <2>3. /\ Cardinality(Packing') = Cardinality(Packing) + 1
        /\ Cardinality(Busy') = Cardinality(Busy) + 1
    BY <1>0, <2>2, FS_AddElement
  <2>4. rtp' = frames' + Cardinality(Packing') /\ rtp' = offered' + Cardinality(Busy')
    BY <1>0, <2>1, <2>3, SMT
  <2> QED
    BY <2>4 DEF CallsInv
<1>3. ASSUME NEW c \in Cores, SendPacket(c) PROVE CallsInv'
  <2>1. /\ core[c].at = "send_packet" /\ core'[c].at = "try_send"
        /\ \A d \in Cores : d # c => core'[d] = core[d]
        /\ frames' = frames + 1 /\ UNCHANGED <<rtp, offered>>
    BY <1>0, <1>3 DEF SendPacket, InCall, Pcap!TrySendPacket, counters, recVars
  <2>2. /\ c \in Packing /\ Packing' = Packing \ {c} /\ Busy' = Busy
    BY <2>1 DEF Packing, Busy
  <2>3. Cardinality(Packing') = Cardinality(Packing) - 1
    BY <1>0, <2>2, FS_RemoveElement
  <2>4. rtp' = frames' + Cardinality(Packing') /\ rtp' = offered' + Cardinality(Busy')
    BY <1>0, <2>1, <2>2, <2>3, SMT
  <2> QED
    BY <2>4 DEF CallsInv
<1>4. ASSUME NEW c \in Cores, SendRecord(c) PROVE CallsInv'
  <2>1. /\ core[c].at = "try_send" /\ core'[c].at = "idle"
        /\ \A d \in Cores : d # c => core'[d] = core[d]
        /\ offered' = offered + 1 /\ UNCHANGED <<rtp, frames>>
    BY <1>0, <1>4 DEF SendRecord, Idle, Rec!TrySendRecord, counters, pcapVars
  <2>2. Packing' = Packing /\ c \in Busy /\ Busy' = Busy \ {c}
    BY <2>1 DEF Packing, Busy
  <2>3. Cardinality(Busy') = Cardinality(Busy) - 1
    BY <1>0, <2>2, FS_RemoveElement
  <2>4. rtp' = frames' + Cardinality(Packing') /\ rtp' = offered' + Cardinality(Busy')
    BY <1>0, <2>1, <2>2, <2>3, SMT
  <2> QED
    BY <2>4 DEF CallsInv
<1>5. ASSUME \/ \E c \in Cores : HandleOther(c)
             \/ BeginShutdown \/ MainThread \/ UNCHANGED vars
      PROVE  CallsInv'
  BY <1>1, <1>5
     DEF HandleOther, BeginShutdown, MainThread, StopPcap, StopRecords, Join, counters, pcapVars,
         recVars, vars, Pcap!StartStopping, Pcap!TrySendShutdown, Rec!SendShutdown
<1>6. ASSUME PcapThread PROVE CallsInv'
  BY <1>1, <1>6 DEF PcapThread, Pcap!WriterThread, Pcap!OpenPcap, Pcap!WritePacket,
                    Pcap!HandleShutdown, Pcap!sending, counters, recVars
<1>7. ASSUME RecordsThread \/ SessionThread PROVE CallsInv'
  <2>1. UNCHANGED <<core, rtp, frames>>
    BY <1>7 DEF RecordsThread, SessionThread, counters, pcapVars
  <2>2. UNCHANGED offered
    BY <1>7 DEF RecordsThread, SessionThread, Rec!RecordsThread, Rec!Session, Rec!OpenCsv,
                Rec!Panic, Rec!HandleRecord, Rec!Timeout, Rec!HandleShutdown, Rec!SendSentinel,
                Rec!TakeBatch, Rec!QueueDisconnected, Rec!inbound
  <2> QED
    BY <1>1, <2>1, <2>2
<1> QED
  BY <1>2, <1>3, <1>4, <1>5, <1>6, <1>7 DEF Next, Core, Call, Finished

-----------------------------------------------------------------------------
(* What is left when the threads have stopped.                             *)

\* main goes on only when the thread it joins has ended, the writer leaves
\* nothing in its channel, and the records thread no partial batch.
StopInv ==
  /\ main \in {"join_records", "join_session", "done"} => writer \in {"done", "panicked"}
  /\ main \in {"join_session", "done"} => ~Rec!Alive
  /\ main = "done" => ~sessionUp
  /\ writer \in {"done", "panicked"} => packetCh = <<>>
  /\ thread \notin {"opening", "running"} => pending = <<>>

LEMMA InitStop == Init => StopInv
BY DEF Init, StopInv, Pcap!Init, Rec!Init

(* Every step keeps it.                                                    *)
LEMMA NextStop == OwnInv /\ StopInv /\ [Next]_vars => StopInv'
<1> SUFFICES ASSUME OwnInv, StopInv, [Next]_vars PROVE StopInv'
  OBVIOUS
<1> USE DEF Rec!Alive
<1>0. main # "capturing" => \A c \in Cores : core[c] = Idle
  BY DEF OwnInv
<1>1. ASSUME NEW c \in Cores, Core(c) PROVE StopInv'
  <2>1. CASE HandleOther(c) \/ \E s \in Ssrcs, q \in SeqNums : HandleRtp(c, s, q)
    BY <2>1 DEF HandleOther, HandleRtp, StopInv, pcapVars, recVars
  <2>2. CASE SendPacket(c)
    BY <2>2 DEF SendPacket, Pcap!TrySendPacket, Pcap!PacketRoom, StopInv, recVars
  <2>3. CASE SendRecord(c)
    BY <2>3 DEF SendRecord, Rec!TrySendRecord, Rec!RecordRoom, Rec!worker, StopInv, pcapVars
  <2> QED
    BY <1>1, <2>1, <2>2, <2>3 DEF Core, Call
<1>2. ASSUME BeginShutdown PROVE StopInv'
  BY <1>2 DEF BeginShutdown, Pcap!StartStopping, StopInv, recVars
<1>3. ASSUME StopPcap PROVE StopInv'
  BY <1>3 DEF StopPcap, Pcap!TrySendShutdown, Pcap!PacketRoom, StopInv, recVars
<1>4. ASSUME StopRecords PROVE StopInv'
  BY <1>4 DEF StopRecords, Rec!SendShutdown, Rec!RecordRoom, Rec!worker, StopInv, pcapVars
<1>5. ASSUME Join PROVE StopInv'
  BY <1>5 DEF Join, StopInv, pcapVars, recVars
<1>6. ASSUME PcapThread PROVE StopInv'
  BY <1>6 DEF PcapThread, Pcap!WriterThread, Pcap!OpenPcap, Pcap!WritePacket,
              Pcap!HandleShutdown, StopInv, recVars
<1>7. ASSUME Rec!Panic, thread \in {"opening", "running"}, UNCHANGED <<main, pcapVars>>
      PROVE  StopInv'
  BY <1>7 DEF Rec!Panic, StopInv, pcapVars
<1>8. ASSUME RecordsThread PROVE StopInv'
  <2>0. UNCHANGED <<main, pcapVars>>
    BY <1>8 DEF RecordsThread
  <2>1. CASE Rec!OpenCsv
    BY <1>7, <2>0, <2>1 DEF Rec!OpenCsv, StopInv, pcapVars
  <2>2. CASE Rec!HandleRecord
    <3>1. Rec!Panic \/ UNCHANGED <<thread, sessionUp>>
      BY <2>2 DEF Rec!HandleRecord
    <3>2. thread = "running"
      BY <2>2 DEF Rec!HandleRecord
    <3> QED
      BY <1>7, <2>0, <3>1, <3>2 DEF StopInv, pcapVars
  <2>3. CASE Rec!Timeout
    BY <2>0, <2>3 DEF Rec!Timeout, StopInv, pcapVars
  <2>4. CASE Rec!HandleShutdown
    <3>1. pending' = <<>> /\ thread = "running" /\ thread' = "closing" /\ sessionUp' = sessionUp
      BY <2>4 DEF Rec!HandleShutdown, Rec!FlushBatch
    <3> QED
      BY <2>0, <3>1 DEF StopInv, pcapVars
  <2>5. CASE Rec!SendSentinel
    BY <2>0, <2>5 DEF Rec!SendSentinel, StopInv, pcapVars
  <2> QED
    BY <1>8, <2>1, <2>2, <2>3, <2>4, <2>5 DEF RecordsThread, Rec!RecordsThread
<1>9. ASSUME SessionThread PROVE StopInv'
  BY <1>9 DEF SessionThread, Rec!Session, Rec!TakeBatch, Rec!QueueDisconnected, Rec!worker,
              StopInv, pcapVars
<1>10. ASSUME UNCHANGED vars PROVE StopInv'
  BY <1>10 DEF vars, pcapVars, recVars, StopInv
<1> QED
  BY <1>1, <1>2, <1>3, <1>4, <1>5, <1>6, <1>8, <1>9, <1>10 DEF Next, MainThread, Finished

-----------------------------------------------------------------------------
(* The platform.                                                           *)

\* The sinks' invariants hold in the platform, and with them its own.
PlatformInv ==
  /\ PcapThms!SinkInv /\ RecThms!AccountInv /\ RecThms!SentinelInv
  /\ CallsEnd /\ OwnInv /\ CallsInv /\ StopInv

LEMMA InitPlatform == Init => PlatformInv
<1>1. PcapThms!Init => PcapThms!SinkInv
  BY PcapThms!InitSinkInv, PcapAssumption
<1>2. RecThms!Init => RecThms!AccountInv /\ RecThms!SentinelInv
  BY RecThms!InitAccounting, RecThms!InitSentinel, DedupAssumption, RecordAssumption
     DEF SeqNum, RecThms!SeqNum
<1> QED
  BY <1>1, <1>2, InitPcap, InitRec, InitCallsEnd, InitOwn, InitCalls, InitStop DEF PlatformInv

LEMMA NextPlatform == PlatformInv /\ [Next]_vars => PlatformInv'
<1> SUFFICES ASSUME PlatformInv, [Next]_vars PROVE PlatformInv'
  OBVIOUS
<1>1. PcapThms!SinkInv'
  BY PcapThms!NextSinkInv, PcapAssumption, NextPcap DEF PlatformInv
<1>2. RecThms!AccountInv' /\ RecThms!SentinelInv'
  BY RecThms!NextAccounting, RecThms!NextSentinel, NextRec, DedupAssumption, RecordAssumption
     DEF SeqNum, RecThms!SeqNum, PlatformInv
<1>3. {frames, offered} \subseteq Nat
  BY DEF PlatformInv, PcapThms!SinkInv, PcapThms!TypeOK, RecThms!AccountInv, RecThms!TypeOK
<1> QED
  BY <1>1, <1>2, <1>3, NextCallsEnd, NextOwn, NextCalls, NextStop DEF PlatformInv

(* Every variable of the platform and of its sinks keeps its type.         *)
THEOREM PlatformTypeCorrect == Spec => []TypeOK
<1>1. PlatformInv => TypeOK
  <2> SUFFICES ASSUME PlatformInv PROVE TypeOK
    OBVIOUS
  <2>1. OwnType /\ PcapThms!TypeOK /\ RecThms!TypeOK
    BY DEF PlatformInv, OwnInv, PcapThms!SinkInv, RecThms!AccountInv
  <2>2. Pcap!TypeOK
    BY <2>1 DEF Pcap!TypeOK, PcapThms!TypeOK, Pcap!Message, PcapThms!Message, Pcap!Packet,
                PcapThms!Packet, Pcap!Shutdown, PcapThms!Shutdown
  <2>3. Rec!TypeOK
    BY <2>1 DEF Rec!TypeOK, RecThms!TypeOK, Rec!Message, RecThms!Message, Rec!Shutdown,
                RecThms!Shutdown, Rec!Record, RecThms!Record, Rec!Batch, RecThms!Batch,
                Rec!Flushed, RecThms!Flushed, Rec!Entry, RecThms!Entry, Rec!SeqNum,
                RecThms!SeqNum, Rec!Offset, RecThms!Offset
  <2> QED
    BY <2>1, <2>2, <2>3 DEF TypeOK, OwnType, CoreState
<1> QED
  BY <1>1, InitPlatform, NextPlatform, PTL DEF Spec

(* When main has joined its threads nothing is left in a queue or in the   *)
(* partial batch: NothingLeftBehind.                                       *)
THEOREM PlatformLeavesNothing == Spec => []NothingLeftBehind
<1>1. PlatformInv => NothingLeftBehind
  <2> SUFFICES ASSUME PlatformInv, main = "done"
               PROVE  packetCh = <<>> /\ recordCh = <<>> /\ pending = <<>> /\ batchQ = <<>>
    BY DEF NothingLeftBehind
  <2>1. writer \in {"done", "panicked"} /\ ~Rec!Alive /\ ~sessionUp
    BY DEF PlatformInv, StopInv
  <2>2. thread \notin {"opening", "running"}
    BY <2>1 DEF Rec!Alive
  <2>3. packetCh = <<>> /\ pending = <<>>
    BY <2>1, <2>2 DEF PlatformInv, StopInv
  <2>4. recordCh = <<>>
    BY <2>2 DEF PlatformInv, RecThms!AccountInv, RecThms!LoopLeft
  <2>5. batchQ = <<>>
    BY <2>1 DEF PlatformInv, RecThms!SentinelInv, RecThms!SentinelUnambiguous
  <2> QED
    BY <2>3, <2>4, <2>5
<1> QED
  BY <1>1, InitPlatform, NextPlatform, PTL DEF Spec

(* The counters of the final report agree across any number of cores and   *)
(* both sinks: FinalReportAddsUp.                                          *)
THEOREM ReportAddsUp == Spec => []FinalReportAddsUp
<1>1. PlatformInv => FinalReportAddsUp
  <2> SUFFICES ASSUME PlatformInv, main = "done"
               PROVE  /\ ip = rtp + discarded + unknown
                      /\ rtp = pcap_queued + pcap_dropped
                      /\ NoPanic => /\ pcap_queued = written + writeErrors
                                    /\ rtp = csv_records + duplicate_records + record_drops
    BY DEF FinalReportAddsUp
  <2>1. ip = rtp + discarded + unknown /\ rtp \in Nat
    BY DEF PlatformInv, OwnInv, OwnType
  <2>2. Busy = {} /\ Packing = {}
    <3>1. \A c \in Cores : core[c].at = "idle"
      BY DEF PlatformInv, OwnInv, Idle
    <3> QED
      BY <3>1 DEF Busy, Packing
  <2>3. /\ {frames, offered, pcap_queued, pcap_dropped, csv_records, duplicate_records,
            record_drops} \subseteq Nat
        /\ frames = pcap_queued + pcap_dropped
        /\ writer = "done" => pcap_queued = written + writeErrors
    BY DEF PlatformInv, PcapThms!SinkInv, PcapThms!TypeOK, PcapThms!FramesAccounted,
           RecThms!AccountInv, RecThms!TypeOK
  <2>4. rtp = frames + 0 /\ rtp = offered + 0
    BY <2>2, FS_EmptySet DEF PlatformInv, CallsInv
  <2>5. rtp = pcap_queued + pcap_dropped
    BY <2>1, <2>3, <2>4, SMT
  <2>6. ASSUME NoPanic PROVE pcap_queued = written + writeErrors
    BY <2>3, <2>6 DEF NoPanic, PlatformInv, StopInv
  <2>7. ASSUME NoPanic PROVE rtp = csv_records + duplicate_records + record_drops
    <3>1. recordCh = <<>>
      BY DEF PlatformInv, StopInv, Rec!Alive, RecThms!AccountInv, RecThms!LoopLeft
    <3>2. RecThms!Waiting = 0
      BY <3>1, SMT DEF RecThms!Waiting
    <3>3. offered = record_drops + 0 + csv_records + duplicate_records
      BY <2>7, <3>2 DEF NoPanic, PlatformInv, RecThms!AccountInv, RecThms!InboundAccounting
    <3> QED
      BY <2>1, <2>3, <2>4, <3>3, SMT
  <2> QED
    BY <2>1, <2>5, <2>6, <2>7
<1> QED
  BY <1>1, InitPlatform, NextPlatform, PTL DEF Spec

-----------------------------------------------------------------------------
(* Calls that do not wait.                                                 *)

\* The packets claimed stay within the bound of the model, and the senders are
\* there as long as a core can use them.
OpenInv ==
  /\ ip <= MaxPackets
  /\ sender = "open" <=> main = "capturing"
  /\ sender = "stopped" <=> main \notin {"capturing", "stop_pcap"}
  /\ owner = "open" <=> main \in {"capturing", "stop_pcap", "stop_records"}
  /\ owner # "dropped"
  /\ writer = "done" => sender = "stopped"

LEMMA InitOpen == Init => OpenInv
BY PlatformAssumption DEF Init, OpenInv, Pcap!Init, Rec!Init

LEMMA NextOpen == PlatformInv /\ OpenInv /\ [Next]_vars => OpenInv'
<1> SUFFICES ASSUME PlatformInv, OpenInv, [Next]_vars PROVE OpenInv'
  OBVIOUS
<1>1. ASSUME NEW c \in Cores, Core(c) PROVE OpenInv'
  <2>1. UNCHANGED <<main, sender, owner, writer>>
    BY <1>1 DEF Core, Call, HandleOther, HandleRtp, SendPacket, SendRecord, Pcap!TrySendPacket,
                Rec!TrySendRecord, pcapVars, recVars
  <2>2. ip' = ip \/ (ip' = ip + 1 /\ ip < MaxPackets)
    BY <1>1 DEF Core, Call, HandleOther, HandleRtp, SendPacket, SendRecord, counters
  <2>3. ip \in Nat
    BY DEF PlatformInv, OwnInv, OwnType
  <2>4. ip' <= MaxPackets
    BY <2>2, <2>3, PlatformAssumption DEF OpenInv
  <2> QED
    BY <2>1, <2>4 DEF OpenInv
<1>2. CASE BeginShutdown
  BY <1>2 DEF BeginShutdown, Pcap!StartStopping, OpenInv, counters, recVars
<1>3. CASE StopPcap
  BY <1>3 DEF StopPcap, Pcap!TrySendShutdown, OpenInv, counters, recVars
<1>4. CASE StopRecords
  BY <1>4 DEF StopRecords, Rec!SendShutdown, OpenInv, counters, pcapVars
<1>5. CASE Join
  BY <1>5 DEF Join, OpenInv, counters, pcapVars, recVars
<1>6. CASE PcapThread
  <2>1. UNCHANGED <<ip, main, sender, owner>>
    BY <1>6 DEF PcapThread, Pcap!WriterThread, Pcap!OpenPcap, Pcap!WritePacket, Pcap!HandleShutdown,
                Pcap!sending, counters, recVars
  <2>2. ASSUME Pcap!HandleShutdown PROVE sender = "stopped"
    <3>1. /\ packetCh \in Seq(PcapThms!Message) /\ packetCh # <<>>
          /\ Head(packetCh) = PcapThms!Shutdown /\ PcapThms!ShutdownEnds
      BY <2>2 DEF PlatformInv, PcapThms!SinkInv, PcapThms!TypeOK, Pcap!HandleShutdown,
                  Pcap!Shutdown, PcapThms!Shutdown
    <3>2. 1 \in 1 .. Len(packetCh) /\ Head(packetCh) = packetCh[1]
      BY <3>1, SMT
    <3> QED
      BY <3>1, <3>2 DEF PcapThms!ShutdownEnds
  <2>3. writer' = "done" => writer = "done" \/ Pcap!HandleShutdown
    BY <1>6 DEF PcapThread, Pcap!WriterThread, Pcap!OpenPcap, Pcap!WritePacket
  <2> QED
    BY <2>1, <2>2, <2>3 DEF OpenInv
<1>7. CASE RecordsThread \/ SessionThread
  <2>1. UNCHANGED <<ip, main, sender, writer>>
    BY <1>7 DEF RecordsThread, SessionThread, counters, pcapVars
  <2>2. UNCHANGED owner
    BY <1>7 DEF RecordsThread, SessionThread, Rec!RecordsThread, Rec!Session, Rec!OpenCsv,
                Rec!Panic, Rec!HandleRecord, Rec!Timeout, Rec!HandleShutdown, Rec!SendSentinel,
                Rec!TakeBatch, Rec!QueueDisconnected, Rec!inbound
  <2> QED
    BY <2>1, <2>2 DEF OpenInv
<1>8. CASE UNCHANGED vars
  BY <1>8 DEF vars, OpenInv, counters, pcapVars, recVars
<1> QED
  BY <1>1, <1>2, <1>3, <1>4, <1>5, <1>6, <1>7, <1>8 DEF Next, MainThread, Finished

(* A core inside a call finds the senders of both sinks, and the bounds of *)
(* the model out of its way: the conditions of SendPacket and SendRecord   *)
(* hold whatever the queues and the threads are doing.  They are what      *)
(* HandlePacketNeverWaits says with ENABLED.                               *)
CallsGoOn ==
  \A c \in Cores :
    /\ core[c].at = "send_packet" => sender = "open" /\ frames < MaxPackets
    /\ core[c].at = "try_send" => owner = "open" /\ offered < MaxPackets

(* handle_packet never waits, however many cores call it.                  *)
THEOREM CallsNeverWait == Spec => []CallsGoOn
<1>1. PlatformInv /\ OpenInv => CallsGoOn
  <2> SUFFICES ASSUME PlatformInv, OpenInv, NEW c \in Cores, core[c].at # "idle"
               PROVE  /\ core[c].at = "send_packet" => sender = "open" /\ frames < MaxPackets
                      /\ core[c].at = "try_send" => owner = "open" /\ offered < MaxPackets
    BY DEF CallsGoOn
  <2>1. main = "capturing" /\ sender = "open" /\ owner = "open"
    BY DEF PlatformInv, OwnInv, OpenInv, Idle
  <2>2. /\ rtp = frames + Cardinality(Packing) /\ rtp = offered + Cardinality(Busy)
        /\ ip = rtp + discarded + unknown /\ ip <= MaxPackets
        /\ ip \in Nat /\ rtp \in Nat /\ discarded \in Nat /\ unknown \in Nat
        /\ frames \in Nat /\ offered \in Nat
    BY DEF PlatformInv, CallsInv, OwnInv, OwnType, OpenInv, PcapThms!SinkInv, PcapThms!TypeOK,
           RecThms!AccountInv, RecThms!TypeOK
  <2>3. c \in Busy /\ (core[c].at = "send_packet" => c \in Packing)
    BY DEF Busy, Packing
  <2>4. /\ IsFiniteSet(Packing) /\ Cardinality(Packing) \in Nat
        /\ IsFiniteSet(Busy) /\ Cardinality(Busy) \in Nat
    BY CallsType
  <2>5. Cardinality(Busy) # 0 /\ (core[c].at = "send_packet" => Cardinality(Packing) # 0)
    BY <2>3, <2>4, FS_EmptySet
  <2>6. offered < MaxPackets
    BY <2>2, <2>4, <2>5, PlatformAssumption, SMT
  <2>7. core[c].at = "send_packet" => frames < MaxPackets
    BY <2>2, <2>4, <2>5, PlatformAssumption, SMT
  <2> QED
    BY <2>1, <2>6, <2>7
<1> QED
  BY <1>1, InitPlatform, NextPlatform, InitOpen, NextOpen, PTL DEF Spec

-----------------------------------------------------------------------------
(* What was proved of the record sink alone holds of it in the platform.   *)

(* No interleaving of the cores, of main and of the PCAP side breaks the   *)
(* record side: records are counted, rows are batched once and in order,   *)
(* the session worker is given the batches counted as queued, the sentinel *)
(* is unambiguous, and the duplicate suppression knows its rows.           *)
THEOREM PlatformRecordsSafe ==
  Spec => [](/\ RecThms!InboundAccounting /\ RecThms!RowsBatchedOnce
             /\ RecThms!QueueKeepsBatches /\ RecThms!SentinelUnambiguous
             /\ RecThms!DedupMatchesRows)
<1>1. RecThms!Spec => []RecThms!InboundAccounting
  BY RecThms!RecordsAccounted, DedupAssumption, RecordAssumption DEF SeqNum, RecThms!SeqNum
<1>2. RecThms!Spec => []RecThms!RowsBatchedOnce
  BY RecThms!RowsPartitioned, DedupAssumption, RecordAssumption DEF SeqNum, RecThms!SeqNum
<1>3. RecThms!Spec => []RecThms!QueueKeepsBatches
  BY RecThms!QueueCorrect, DedupAssumption, RecordAssumption DEF SeqNum, RecThms!SeqNum
<1>4. RecThms!Spec => []RecThms!SentinelUnambiguous
  BY RecThms!SentinelCorrect, DedupAssumption, RecordAssumption DEF SeqNum, RecThms!SeqNum
<1>5. RecThms!Spec => []RecThms!DedupMatchesRows
  BY RecThms!MapTrueToRows, DedupAssumption, RecordAssumption DEF SeqNum, RecThms!SeqNum
<1> QED
  BY <1>1, <1>2, <1>3, <1>4, <1>5, PlatformImplementsRecordSink, PTL

-----------------------------------------------------------------------------
(* Progress of shutdown.                                                   *)

\* What shutdown still has to do: main its own steps, worth the messages they
\* send, and the threads what their sinks say.
MainLeft ==
  CASE main = "stop_pcap" -> 9 [] main = "stop_records" -> 7 [] main = "join_pcap" -> 3
    [] main = "join_records" -> 2 [] main = "join_session" -> 1 [] OTHER -> 0
PcapWork == PcapThms!WriterWork
RecordWork == RecThms!SinkWork
ShutdownWork == MainLeft + PcapWork + RecordWork

\* The steps of the threads are the steps of the sinks, with their work.
LEMMA PcapWorks ==
  ASSUME PlatformInv, PlatformInv', [Next]_vars
  PROVE  /\ PcapWork \in Nat /\ PcapWork' \in Nat
         /\ PcapThms!WriterThread => PcapWork' < PcapWork
         /\ PcapThms!TrySendShutdown => PcapWork' <= PcapWork + 1
         /\ UNCHANGED pcapVars => PcapWork' = PcapWork
<1>1. PcapThms!SinkInv /\ PcapThms!SinkInv'
  BY DEF PlatformInv
<1>2. PcapThms!WriterThread => PcapWork' < PcapWork
  BY <1>1, PcapThms!StepWork, PcapAssumption DEF PcapWork, PcapThms!WorkDone
<1>3. PcapThms!TrySendShutdown => PcapWork' <= PcapWork + 1
  BY <1>1, PcapThms!SendWork, PcapAssumption DEF PcapWork
<1>4. PcapWork \in Nat /\ PcapWork' \in Nat
  <2>1. packetCh \in Seq(PcapThms!Message) /\ packetCh' \in Seq(PcapThms!Message)
    BY <1>1 DEF PcapThms!SinkInv, PcapThms!TypeOK
  <2>2. Len(packetCh) \in Nat /\ Len(packetCh') \in Nat
    BY <2>1, SMT
  <2> QED
    BY <2>2, SMT DEF PcapWork, PcapThms!WriterWork
<1>5. UNCHANGED pcapVars => PcapWork' = PcapWork
  BY DEF pcapVars, PcapWork, PcapThms!WriterWork
<1> QED
  BY <1>2, <1>3, <1>4, <1>5

LEMMA RecordWorks ==
  ASSUME PlatformInv, PlatformInv', [Next]_vars
  PROVE  /\ RecordWork \in Nat /\ RecordWork' \in Nat
         /\ (RecThms!RecordsThread \/ RecThms!Session) /\ ~UNCHANGED recVars
              => RecordWork' < RecordWork
         /\ RecThms!SendShutdown => RecordWork' <= RecordWork + 3
         /\ UNCHANGED recVars => RecordWork' = RecordWork
<1>1. RecThms!TypeOK /\ RecThms!TypeOK'
  BY DEF PlatformInv, RecThms!AccountInv
<1>2. UNCHANGED RecThms!vars => UNCHANGED recVars
  BY DEF RecThms!vars, RecThms!inbound, RecThms!worker, recVars
<1>3. (RecThms!RecordsThread \/ RecThms!Session) /\ ~UNCHANGED recVars
        => RecordWork' < RecordWork
  BY <1>1, <1>2, RecThms!StepWork, DedupAssumption, RecordAssumption
     DEF RecordWork, RecThms!WorkDone, SeqNum, RecThms!SeqNum
<1>4. RecThms!SendShutdown => RecordWork' <= RecordWork + 3
  BY <1>1, RecThms!SendWork, DedupAssumption, RecordAssumption DEF RecordWork, SeqNum, RecThms!SeqNum
<1>5. RecordWork \in Nat /\ RecordWork' \in Nat
  <2>1. /\ recordCh \in Seq(RecThms!Message) /\ recordCh' \in Seq(RecThms!Message)
        /\ batchQ \in Seq(RecThms!Batch) /\ batchQ' \in Seq(RecThms!Batch)
    BY <1>1 DEF RecThms!TypeOK
  <2>2. /\ Len(recordCh) \in Nat /\ Len(recordCh') \in Nat
        /\ Len(batchQ) \in Nat /\ Len(batchQ') \in Nat
    BY <2>1, SMT
  <2>3. /\ RecThms!PendingLeft \in Nat /\ RecThms!ThreadLeft \in Nat /\ RecThms!SessionLeft \in Nat
        /\ RecThms!PendingLeft' \in Nat /\ RecThms!ThreadLeft' \in Nat /\ RecThms!SessionLeft' \in Nat
    BY SMT DEF RecThms!PendingLeft, RecThms!ThreadLeft, RecThms!SessionLeft
  <2> QED
    BY <2>2, <2>3, SMT DEF RecordWork, RecThms!SinkWork
<1>6. UNCHANGED recVars => RecordWork' = RecordWork
  BY DEF recVars, RecordWork, RecThms!SinkWork, RecThms!PendingLeft, RecThms!ThreadLeft,
         RecThms!SessionLeft
<1> QED
  BY <1>3, <1>4, <1>5, <1>6

(* Every step after the capture leaves less to do.                         *)
LEMMA ShutdownStep ==
  ASSUME PlatformInv, PlatformInv', Next, main # "capturing", ~UNCHANGED vars
  PROVE  ShutdownWork \in Nat /\ ShutdownWork' \in Nat /\ ShutdownWork' < ShutdownWork
<1> USE DEF Rec!Alive, RecThms!Alive, Rec!Shutdown, RecThms!Shutdown, Rec!inbound, RecThms!inbound,
            Rec!worker, RecThms!worker, Rec!RecordRoom, RecThms!RecordRoom
<1>0. /\ PcapWork \in Nat /\ PcapWork' \in Nat /\ RecordWork \in Nat /\ RecordWork' \in Nat
  BY PcapWorks, RecordWorks
<1>1. MainLeft \in Nat /\ MainLeft' \in Nat
  BY DEF MainLeft
<1>8. /\ UNCHANGED pcapVars => PcapWork' = PcapWork
      /\ UNCHANGED recVars => RecordWork' = RecordWork
      /\ main' = main => MainLeft' = MainLeft
  BY PcapWorks, RecordWorks DEF MainLeft
<1> DEFINE Drop ==
      \/ MainLeft' < MainLeft /\ PcapWork' = PcapWork /\ RecordWork' = RecordWork
      \/ MainLeft' + 2 <= MainLeft /\ PcapWork' <= PcapWork + 1 /\ RecordWork' = RecordWork
      \/ MainLeft' + 4 <= MainLeft /\ PcapWork' = PcapWork /\ RecordWork' <= RecordWork + 3
      \/ MainLeft' = MainLeft /\ PcapWork' < PcapWork /\ RecordWork' = RecordWork
      \/ MainLeft' = MainLeft /\ PcapWork' = PcapWork /\ RecordWork' < RecordWork
<1>2. \A c \in Cores : ~Core(c)
  BY DEF PlatformInv, OwnInv, Core, Call, HandleOther, HandleRtp, SendPacket, SendRecord, Idle
<1>3. ASSUME StopPcap PROVE Drop
  <2>1. PcapThms!TrySendShutdown /\ UNCHANGED recVars
    BY <1>3 DEF StopPcap, Pcap!TrySendShutdown, PcapThms!TrySendShutdown, Pcap!PacketRoom,
                PcapThms!PacketRoom, Pcap!Shutdown, PcapThms!Shutdown
  <2>2. main = "stop_pcap" /\ main' = "stop_records"
    BY <1>3 DEF StopPcap, Pcap!TrySendShutdown, vars, pcapVars
  <2>3. MainLeft' + 2 <= MainLeft
    BY <2>2, SMT DEF MainLeft
  <2>4. PcapWork' <= PcapWork + 1 /\ RecordWork' = RecordWork
    BY <1>8, <2>1, PcapWorks
  <2> QED
    BY <2>3, <2>4
<1>4. ASSUME StopRecords PROVE Drop
  <2>1. RecThms!SendShutdown /\ UNCHANGED pcapVars
    BY <1>4 DEF StopRecords, Rec!SendShutdown, RecThms!SendShutdown
  <2>2. MainLeft' + 4 <= MainLeft
    BY <1>4, SMT DEF StopRecords, MainLeft
  <2>3. RecordWork' <= RecordWork + 3 /\ PcapWork' = PcapWork
    BY <1>8, <2>1, RecordWorks
  <2> QED
    BY <2>2, <2>3
<1>5. ASSUME Join PROVE Drop
  <2>1. UNCHANGED <<pcapVars, recVars>>
    BY <1>5 DEF Join
  <2>2. MainLeft' < MainLeft
    BY <1>5 DEF Join, MainLeft
  <2>3. PcapWork' = PcapWork /\ RecordWork' = RecordWork
    BY <1>8, <2>1
  <2> QED
    BY <2>2, <2>3
<1>6. ASSUME PcapThread PROVE Drop
  <2>1. PcapThms!WriterThread
    BY <1>6 DEF PcapThread, Pcap!WriterThread, PcapThms!WriterThread, Pcap!OpenPcap,
                PcapThms!OpenPcap, Pcap!WritePacket, PcapThms!WritePacket,
                Pcap!HandleShutdown, PcapThms!HandleShutdown, Pcap!Packet, PcapThms!Packet,
                Pcap!Shutdown, PcapThms!Shutdown, Pcap!sending, PcapThms!sending
  <2>2. PcapWork' < PcapWork /\ UNCHANGED <<main, recVars>>
    BY <1>6, <2>1, PcapWorks DEF PcapThread
  <2>3. MainLeft' = MainLeft /\ RecordWork' = RecordWork
    BY <1>8, <2>2
  <2> QED
    BY <2>2, <2>3
<1>7. ASSUME RecordsThread \/ SessionThread PROVE Drop
  <2>1. RecThms!RecordsThread \/ RecThms!Session
    BY <1>7, SameThreads
  <2>2. UNCHANGED <<core, main, counters, pcapVars>>
    BY <1>7 DEF RecordsThread, SessionThread
  <2>3. ~UNCHANGED recVars
    BY <2>2 DEF vars
  <2>4. RecordWork' < RecordWork
    BY <2>1, <2>3, RecordWorks
  <2>5. MainLeft' = MainLeft /\ PcapWork' = PcapWork
    BY <1>8, <2>2
  <2> QED
    BY <2>4, <2>5
<1>9. Drop
  BY <1>2, <1>3, <1>4, <1>5, <1>6, <1>7 DEF Next, MainThread, BeginShutdown, Finished
<1>10. PICK m \in Nat, m2 \in Nat, p \in Nat, p2 \in Nat, r \in Nat, r2 \in Nat :
         /\ m = MainLeft /\ m2 = MainLeft' /\ p = PcapWork /\ p2 = PcapWork'
         /\ r = RecordWork /\ r2 = RecordWork'
  BY <1>0, <1>1
<1>11. \/ m2 < m /\ p2 = p /\ r2 = r
       \/ m2 + 2 <= m /\ p2 <= p + 1 /\ r2 = r
       \/ m2 + 4 <= m /\ p2 = p /\ r2 <= r + 3
       \/ m2 = m /\ p2 < p /\ r2 = r
       \/ m2 = m /\ p2 = p /\ r2 < r
  BY <1>9, <1>10, Zenon
<1>12. m + p + r \in Nat /\ m2 + p2 + r2 \in Nat /\ m2 + p2 + r2 < m + p + r
  BY <1>11, SMT
<1> QED
  BY <1>10, <1>12 DEF ShutdownWork

(* When the capture has ended every step of the program, of main and of    *)
(* the three worker threads in any order, with writes that fail and threads*)
(* that panic, leaves less to do: shutdown takes ShutdownWork steps at     *)
(* most.  Only a turn of the loop that finds the PCAP channel full, and a  *)
(* timeout with nothing pending, change nothing.                           *)
ShutdownProgress ==
  [][main # "capturing" =>
       ShutdownWork \in Nat /\ ShutdownWork' \in Nat /\ ShutdownWork' < ShutdownWork]_vars

(* From ShutdownStep: shutdown never repeats itself.                       *)
THEOREM ShutdownMakesProgress == Spec => ShutdownProgress
<1>1. PlatformInv /\ PlatformInv' /\ [Next]_vars =>
        [main # "capturing" =>
           ShutdownWork \in Nat /\ ShutdownWork' \in Nat /\ ShutdownWork' < ShutdownWork]_vars
  BY ShutdownStep
<1> QED
  BY <1>1, InitPlatform, NextPlatform, PTL DEF Spec, ShutdownProgress

\* What a step of main waits for, once it has begun to stop the sinks.
MainCanGoOn ==
  \/ main = "stop_pcap" /\ Pcap!PacketRoom
  \/ main = "stop_records" /\ (Rec!Alive => Rec!RecordRoom)
  \/ main = "join_pcap" /\ writer \in {"done", "panicked"}
  \/ main = "join_records" /\ ~Rec!Alive
  \/ main = "join_session" /\ ~sessionUp

(* Until shutdown is over one of the four threads can go on: no two of     *)
(* them wait for one another, whatever the queues hold and whichever thread*)
(* panicked.  The one exception is the loop that offers Shutdown to the    *)
(* channel of a PCAP writer that could not create its file.                *)
ShutdownGoesOn ==
  \/ main \in {"capturing", "done"}
  \/ main = "stop_pcap" /\ writer = "panicked"
  \/ MainCanGoOn \/ PcapThms!WriterCanGoOn
  \/ RecThms!ThreadCanGoOn \/ RecThms!SessionCanGoOn

(* With ShutdownMakesProgress: shutdown comes to its end if its threads    *)
(* run and the PCAP file could be created, for every number of cores and   *)
(* packets and every capacity.                                             *)
THEOREM ShutdownNeverStuck == Spec => []ShutdownGoesOn
<1>1. PlatformInv /\ OpenInv /\ PcapThms!WriterEndsAfterShutdown /\ RecThms!SinkEndsAfterShutdown
        => ShutdownGoesOn
  <2> SUFFICES ASSUME PlatformInv, OpenInv, PcapThms!WriterEndsAfterShutdown,
                      RecThms!SinkEndsAfterShutdown, main \notin {"capturing", "done"},
                      ~PcapThms!WriterCanGoOn, ~RecThms!ThreadCanGoOn, ~RecThms!SessionCanGoOn
               PROVE  MainCanGoOn \/ (main = "stop_pcap" /\ writer = "panicked")
    BY DEF ShutdownGoesOn
  <2> USE DEF Rec!Alive, RecThms!Alive
  <2>1. /\ main \in {"stop_pcap", "stop_records", "join_pcap", "join_records", "join_session"}
        /\ PcapThms!SinkInv /\ RecThms!AccountInv
    BY DEF PlatformInv, OwnInv, OwnType
  <2>2. CASE main = "stop_pcap"
    <3>1. writer \in {"running", "done", "panicked"} /\ (writer = "running" => packetCh = <<>>)
      BY <2>1 DEF PcapThms!SinkInv, PcapThms!TypeOK, PcapThms!WriterCanGoOn
    <3>2. sender = "stopping"
      BY <2>1, <2>2 DEF PcapThms!SinkInv, PcapThms!TypeOK, OpenInv
    <3>3. writer # "done"
      BY <3>2 DEF OpenInv
    <3>4. writer = "running" => Pcap!PacketRoom
      <4>1. packetCh = <<>> => Len(packetCh) = 0
        BY SMT
      <4> QED
        BY <3>1, <4>1, PcapAssumption, SMT DEF Pcap!PacketRoom
    <3> QED
      BY <2>2, <3>1, <3>3, <3>4 DEF MainCanGoOn
  <2>3. CASE main = "stop_records"
    <3>1. owner = "open"
      BY <2>3 DEF OpenInv
    <3>2. thread \in {"running", "done", "panicked"} /\ (thread = "running" => recordCh = <<>>)
      BY <2>1, <3>1 DEF RecThms!AccountInv, RecThms!TypeOK, RecThms!LoopLeft, RecThms!ThreadCanGoOn
    <3>3. recordCh = <<>> => Len(recordCh) < RecordCapacity
      <4>1. recordCh = <<>> => Len(recordCh) = 0
        BY SMT
      <4> QED
        BY <4>1, RecordAssumption, SMT
    <3> QED
      BY <2>3, <3>2, <3>3 DEF MainCanGoOn, Rec!RecordRoom
  <2>4. CASE main = "join_pcap"
    <3>1. sender = "stopped"
      BY <2>4 DEF OpenInv
    <3> QED
      BY <2>4, <3>1 DEF PcapThms!WriterEndsAfterShutdown, MainCanGoOn
  <2>5. CASE main \in {"join_records", "join_session"}
    <3>1. owner # "open"
      BY <2>5 DEF OpenInv
    <3>2. ~RecThms!Alive /\ ~sessionUp
      BY <3>1 DEF RecThms!SinkEndsAfterShutdown
    <3> QED
      BY <2>5, <3>2 DEF MainCanGoOn
  <2> QED
    BY <2>1, <2>2, <2>3, <2>4, <2>5
<1>2. Spec => []PcapThms!WriterEndsAfterShutdown
  <2>1. PcapThms!Spec => []PcapThms!WriterEndsAfterShutdown
    BY PcapThms!StoppedWriterGoesOn, PcapAssumption
  <2> QED
    BY <2>1, PlatformImplementsPcapSink, PTL
<1>3. Spec => []RecThms!SinkEndsAfterShutdown
  <2>1. RecThms!Spec => []RecThms!SinkEndsAfterShutdown
    BY RecThms!StoppedSinkGoesOn, DedupAssumption, RecordAssumption DEF SeqNum, RecThms!SeqNum
  <2> QED
    BY <2>1, PlatformImplementsRecordSink, PTL
<1> QED
  BY <1>1, <1>2, <1>3, InitPlatform, NextPlatform, InitOpen, NextOpen, PTL DEF Spec

(* The exception is for ever: from the moment the writer has panicked and  *)
(* main is in the loop of shutdown's first step, neither ever changes.     *)
StuckForEver ==
  [][main = "stop_pcap" /\ writer = "panicked" => UNCHANGED <<main, writer>>]_vars

(* shutdown never returns if the PCAP file could not be created in time,   *)
(* whatever the other threads do.                                          *)
THEOREM NoPcapNoShutdown == Spec => StuckForEver
<1>1. PlatformInv /\ [Next]_vars =>
        [main = "stop_pcap" /\ writer = "panicked" => UNCHANGED <<main, writer>>]_vars
  <2> SUFFICES ASSUME PlatformInv, Next, main = "stop_pcap", writer = "panicked"
               PROVE  UNCHANGED <<main, writer>>
    OBVIOUS
  <2>1. \A c \in Cores : ~Core(c)
    BY DEF PlatformInv, OwnInv, Core, Call, HandleOther, HandleRtp, SendPacket, SendRecord, Idle
  <2>2. CASE StopPcap
    BY <2>2 DEF StopPcap, Pcap!TrySendShutdown, Pcap!PacketRoom
  <2>3. CASE RecordsThread \/ SessionThread \/ Finished
    BY <2>3 DEF RecordsThread, SessionThread, Finished, vars, pcapVars
  <2>4. ~(BeginShutdown \/ StopRecords \/ Join \/ PcapThread)
    BY DEF BeginShutdown, StopRecords, Join, PcapThread, Pcap!WriterThread, Pcap!OpenPcap,
           Pcap!WritePacket, Pcap!HandleShutdown
  <2> QED
    BY <2>1, <2>2, <2>3, <2>4 DEF Next, MainThread
<1> QED
  BY <1>1, InitPlatform, NextPlatform, PTL DEF Spec, StuckForEver
=============================================================================
