---------------------------- MODULE PcapSinkProof ----------------------------
(***************************************************************************)
(* Proofs about the PCAP sink, for every capacity of the channel and every *)
(* number of frames.                                                       *)
(***************************************************************************)
EXTENDS PcapSink, SequenceTheorems, TLAPS

\* Shutdown is queued once, behind all frames, by an owner that then stops.
ShutdownEnds ==
  \A i \in 1 .. Len(packetCh) :
    packetCh[i] = Shutdown => i = Len(packetCh) /\ sender = "stopped"

SinkInv == TypeOK /\ ShutdownEnds /\ FramesAccounted

-----------------------------------------------------------------------------
(* Lemmas about the channel.                                               *)

\* The length of the channel, and what is waiting in it.
LEMMA WaitingType ==
  ASSUME TypeOK
  PROVE  Len(packetCh) \in Nat /\ Waiting \in Nat
<1>1. packetCh \in Seq(Message) /\ Len(packetCh) \in Nat
  BY LenProperties DEF TypeOK
<1>2. packetCh # <<>> => Len(packetCh) > 0
  BY <1>1, EmptySeq
<1> QED BY <1>1, <1>2 DEF Waiting

\* A frame queued is one more frame waiting, Shutdown is none.
LEMMA WaitingAppend ==
  ASSUME TypeOK, ShutdownEnds, sender # "stopped", PacketRoom, NEW m \in Message,
         packetCh' = Append(packetCh, m)
  PROVE  /\ packetCh' \in Seq(Message) /\ Len(packetCh') <= PacketCapacity
         /\ Waiting' = IF m = Shutdown THEN Waiting ELSE Waiting + 1
         /\ m = Shutdown /\ sender' = "stopped" => ShutdownEnds'
         /\ m # Shutdown => ShutdownEnds'
<1>1. packetCh \in Seq(Message) /\ Len(packetCh) \in Nat
  BY LenProperties DEF TypeOK
<1>2. /\ packetCh' \in Seq(Message)
      /\ Len(packetCh') = Len(packetCh) + 1
      /\ \A i \in 1 .. Len(packetCh) : packetCh'[i] = packetCh[i]
      /\ packetCh'[Len(packetCh) + 1] = m
  BY <1>1, AppendProperties
<1>3. Len(packetCh') <= PacketCapacity
  BY <1>1, <1>2, PcapAssumption DEF PacketRoom
<1>4. \A i \in 1 .. Len(packetCh) : packetCh[i] # Shutdown
  BY DEF ShutdownEnds
<1>5. Waiting = Len(packetCh)
  <2>1. CASE packetCh = <<>>
    BY <2>1 DEF Waiting
  <2>2. CASE packetCh # <<>>
    <3>1. Len(packetCh) \in 1 .. Len(packetCh)
      BY <1>1, <2>2, EmptySeq
    <3> QED BY <1>4, <3>1 DEF Waiting
  <2> QED BY <2>1, <2>2
<1>6. Waiting' = IF m = Shutdown THEN Len(packetCh) ELSE Len(packetCh) + 1
  <2>1. packetCh' # <<>>
    BY <1>1, <1>2, EmptySeq
  <2> QED BY <1>1, <1>2, <2>1 DEF Waiting
<1>7. ASSUME NEW i \in 1 .. Len(packetCh'), packetCh'[i] = Shutdown
      PROVE  i = Len(packetCh') /\ m = Shutdown
  <2>1. i \in 1 .. Len(packetCh) \/ i = Len(packetCh) + 1
    BY <1>1, <1>2
  <2> QED BY <1>2, <1>4, <1>7, <2>1
<1> QED BY <1>2, <1>3, <1>5, <1>6, <1>7 DEF ShutdownEnds

\* A message taken: a frame is one frame less waiting, Shutdown was the last.
LEMMA WaitingTail ==
  ASSUME TypeOK, ShutdownEnds, packetCh # <<>>, packetCh' = Tail(packetCh), sender' = sender
  PROVE  /\ packetCh' \in Seq(Message) /\ Len(packetCh') <= PacketCapacity
         /\ ShutdownEnds'
         /\ Head(packetCh) = Packet => Waiting = Waiting' + 1
<1>1. packetCh \in Seq(Message) /\ Len(packetCh) \in Nat \ {0} /\ Head(packetCh) = packetCh[1]
  BY LenProperties, EmptySeq, HeadTailProperties DEF TypeOK
<1>2. /\ packetCh' \in Seq(Message)
      /\ Len(packetCh') = Len(packetCh) - 1
      /\ \A i \in 1 .. Len(packetCh') : packetCh'[i] = packetCh[i + 1]
  BY <1>1, HeadTailProperties
<1>3. Len(packetCh') <= PacketCapacity
  BY <1>1, <1>2, PcapAssumption DEF TypeOK
<1>4. ShutdownEnds'
  <2> SUFFICES ASSUME NEW i \in 1 .. Len(packetCh'), packetCh'[i] = Shutdown
               PROVE  i = Len(packetCh') /\ sender' = "stopped"
    BY DEF ShutdownEnds
  <2>1. i + 1 \in 1 .. Len(packetCh) /\ packetCh[i + 1] = Shutdown
    BY <1>1, <1>2
  <2>2. i + 1 = Len(packetCh) /\ sender = "stopped"
    BY <2>1 DEF ShutdownEnds
  <2>3. i \in Int /\ Len(packetCh') = Len(packetCh) - 1 /\ Len(packetCh) \in Int
    BY <1>1, <1>2
  <2>4. i = Len(packetCh')
    BY <2>2, <2>3
  <2> QED BY <2>2, <2>4
<1>5. ASSUME Head(packetCh) = Packet PROVE Waiting = Waiting' + 1
  <2>1. CASE Len(packetCh) = 1
    <3>1. packetCh[Len(packetCh)] # Shutdown
      BY <1>1, <1>5, <2>1 DEF Packet, Shutdown
    <3>2. Len(packetCh') = 0 /\ packetCh' = <<>>
      BY <1>1, <1>2, <2>1, EmptySeq
    <3>3. Waiting = 1
      BY <2>1, <3>1 DEF Waiting
    <3>4. Waiting' = 0
      BY <3>2 DEF Waiting
    <3> QED BY <3>3, <3>4
  <2>2. CASE Len(packetCh) # 1
    <3>1. Len(packetCh') \in 1 .. Len(packetCh') /\ Len(packetCh') + 1 = Len(packetCh)
      BY <1>1, <1>2, <2>2
    <3>2. packetCh'[Len(packetCh')] = packetCh[Len(packetCh)]
      BY <1>2, <3>1
    <3>3. packetCh' # <<>>
      <4>1. packetCh' \in Seq(Message) /\ Len(packetCh') # 0
        BY <1>2, <3>1
      <4> QED BY <4>1, EmptySeq
    <3> QED BY <1>1, <3>1, <3>2, <3>3 DEF Waiting
  <2> QED BY <2>1, <2>2
<1> QED BY <1>2, <1>3, <1>4, <1>5

-----------------------------------------------------------------------------
(* The invariant holds at first and is kept by every step.                 *)

LEMMA InitSinkInv == Init => SinkInv
<1> SUFFICES ASSUME Init PROVE SinkInv
  OBVIOUS
<1>1. packetCh = <<>> /\ Len(packetCh) = 0 /\ packetCh \in Seq(Message)
  BY EmptySeq DEF Init
<1>2. TypeOK
  BY <1>1, PcapAssumption DEF Init, TypeOK
<1>3. Waiting = 0
  BY <1>1 DEF Waiting
<1>4. FramesAccounted
  BY <1>3 DEF Init, FramesAccounted
<1> QED BY <1>1, <1>2, <1>4 DEF SinkInv, ShutdownEnds

LEMMA OfferPacketInv == SinkInv /\ OfferPacket => SinkInv'
<1> SUFFICES ASSUME SinkInv, OfferPacket PROVE SinkInv'
  OBVIOUS
<1> USE DEF SinkInv
<1>1. {frames', pcap_queued', pcap_dropped', written', writeErrors'} \subseteq Nat
  BY DEF TypeOK, OfferPacket, TrySendPacket
<1>2. CASE PacketRoom
  <2>1. /\ packetCh' = Append(packetCh, Packet) /\ sender' = sender /\ sender = "open"
        /\ pcap_queued' = pcap_queued + 1 /\ pcap_dropped' = pcap_dropped /\ frames' = frames + 1
        /\ UNCHANGED <<writer, written, writeErrors>>
    BY <1>2 DEF OfferPacket, TrySendPacket
  <2>2. /\ packetCh' \in Seq(Message) /\ Len(packetCh') <= PacketCapacity
        /\ Waiting' = Waiting + 1 /\ ShutdownEnds'
    BY <1>2, <2>1, WaitingAppend DEF Message, Packet, Shutdown
  <2>3. TypeOK'
    BY <1>1, <2>1, <2>2 DEF TypeOK
  <2>4. FramesAccounted'
    <3>1. writer \notin {"done", "panicked"} /\ writer' = writer
      BY <1>2, <2>1 DEF PacketRoom
    <3>2. Waiting \in Nat
      BY WaitingType
    <3>3. {frames, pcap_queued, pcap_dropped, written, writeErrors} \subseteq Nat
      BY DEF TypeOK
    <3>4. pcap_queued = written + writeErrors + Waiting /\ frames = pcap_queued + pcap_dropped
      BY <3>1 DEF FramesAccounted
    <3> HIDE DEF SinkInv
    <3>5. frames' = pcap_queued' + pcap_dropped'
      BY <2>1, <3>3, <3>4
    <3>6. /\ written' = written /\ writeErrors' = writeErrors
          /\ Waiting' = Waiting + 1 /\ pcap_queued' = pcap_queued + 1
      BY <2>1, <2>2
    <3>7. pcap_queued' = written' + writeErrors' + Waiting'
      <4>1. pcap_queued \in Int /\ written \in Int /\ writeErrors \in Int /\ Waiting \in Int
        BY <3>2, <3>3
      <4>2. pcap_queued + 1 = written + writeErrors + (Waiting + 1)
        BY <3>4, <4>1
      <4> QED BY <3>6, <4>2
    <3> QED BY <3>1, <3>5, <3>7 DEF FramesAccounted
  <2> QED BY <2>2, <2>3, <2>4
<1>3. CASE ~PacketRoom
  <2>1. /\ pcap_dropped' = pcap_dropped + 1 /\ frames' = frames + 1
        /\ UNCHANGED <<packetCh, pcap_queued, sender, writer, written, writeErrors>>
    BY <1>3 DEF OfferPacket, TrySendPacket
  <2>2. Waiting' = Waiting
    BY <2>1 DEF Waiting
  <2>3. TypeOK' /\ ShutdownEnds'
    BY <1>1, <2>1 DEF TypeOK, ShutdownEnds
  <2>4. FramesAccounted'
    BY <2>1, <2>2 DEF FramesAccounted, TypeOK
  <2> QED BY <2>3, <2>4
<1> QED BY <1>2, <1>3

LEMMA TrySendShutdownInv == SinkInv /\ TrySendShutdown => SinkInv'
<1> SUFFICES ASSUME SinkInv, TrySendShutdown PROVE SinkInv'
  OBVIOUS
<1> USE DEF SinkInv
<1>1. sender = "stopping" /\ UNCHANGED <<frames, writer, written, writeErrors, pcap_queued, pcap_dropped>>
  BY DEF TrySendShutdown
<1>2. CASE PacketRoom
  <2>1. packetCh' = Append(packetCh, Shutdown) /\ sender' = "stopped"
    BY <1>2 DEF TrySendShutdown
  <2>2. /\ packetCh' \in Seq(Message) /\ Len(packetCh') <= PacketCapacity
        /\ Waiting' = Waiting /\ ShutdownEnds'
    BY <1>1, <1>2, <2>1, WaitingAppend DEF Message
  <2>3. TypeOK'
    BY <1>1, <2>1, <2>2 DEF TypeOK
  <2>4. FramesAccounted'
    BY <1>1, <2>2 DEF FramesAccounted
  <2> QED BY <2>2, <2>3, <2>4
<1>3. CASE ~PacketRoom
  <2>1. UNCHANGED <<packetCh, sender>>
    BY <1>3 DEF TrySendShutdown
  <2> QED BY <1>1, <2>1 DEF TypeOK, ShutdownEnds, FramesAccounted, Waiting
<1> QED BY <1>2, <1>3

LEMMA StartStoppingInv == SinkInv /\ StartStopping => SinkInv'
<1> SUFFICES ASSUME SinkInv, StartStopping PROVE SinkInv'
  OBVIOUS
<1>1. \A i \in 1 .. Len(packetCh) : packetCh[i] # Shutdown
  BY DEF SinkInv, ShutdownEnds, StartStopping
<1> QED
  BY <1>1 DEF SinkInv, StartStopping, TypeOK, ShutdownEnds, FramesAccounted, Waiting

LEMMA OpenPcapInv == SinkInv /\ OpenPcap => SinkInv'
<1> SUFFICES ASSUME SinkInv, OpenPcap PROVE SinkInv'
  OBVIOUS
<1> USE DEF SinkInv, OpenPcap, sending
<1>1. CASE writer' = "running" /\ UNCHANGED packetCh
  BY <1>1 DEF TypeOK, ShutdownEnds, FramesAccounted, Waiting
<1>2. CASE writer' = "panicked" /\ packetCh' = <<>>
  <2>1. packetCh' \in Seq(Message) /\ Len(packetCh') = 0
    BY <1>2, EmptySeq
  <2> QED BY <1>2, <2>1, PcapAssumption DEF TypeOK, ShutdownEnds, FramesAccounted
<1> QED BY <1>1, <1>2

LEMMA WritePacketInv == SinkInv /\ WritePacket => SinkInv'
<1> SUFFICES ASSUME SinkInv, WritePacket PROVE SinkInv'
  OBVIOUS
<1> USE DEF SinkInv
<1>1. /\ packetCh # <<>> /\ Head(packetCh) = Packet /\ packetCh' = Tail(packetCh)
      /\ writer = "running" /\ UNCHANGED <<sender, frames, pcap_queued, pcap_dropped, writer>>
  BY DEF WritePacket, sending
<1>2. \/ written' = written + 1 /\ writeErrors' = writeErrors
      \/ written' = written /\ writeErrors' = writeErrors + 1
  BY DEF WritePacket
<1>3. /\ packetCh' \in Seq(Message) /\ Len(packetCh') <= PacketCapacity /\ ShutdownEnds'
      /\ Waiting = Waiting' + 1
  BY <1>1, WaitingTail
<1>4. TypeOK'
  BY <1>1, <1>2, <1>3 DEF TypeOK
<1>5. Waiting' \in Int
  <2>1. Len(packetCh') \in Nat
    BY <1>3, LenProperties
  <2> QED BY <2>1 DEF Waiting
<1>6. FramesAccounted'
  <2>1. frames = pcap_queued + pcap_dropped /\ pcap_queued = written + writeErrors + Waiting
    BY <1>1 DEF FramesAccounted
  <2>2. {pcap_queued, written, writeErrors} \subseteq Int
    BY DEF TypeOK
  <2> HIDE DEF SinkInv
  <2>3. pcap_queued = written' + writeErrors' + Waiting'
    BY <1>2, <1>3, <1>5, <2>1, <2>2
  <2> QED BY <1>1, <2>1, <2>3 DEF FramesAccounted
<1> QED BY <1>3, <1>4, <1>6

LEMMA HandleShutdownInv == SinkInv /\ HandleShutdown => SinkInv'
<1> SUFFICES ASSUME SinkInv, HandleShutdown PROVE SinkInv'
  OBVIOUS
<1> USE DEF SinkInv
<1>1. /\ packetCh # <<>> /\ Head(packetCh) = Shutdown /\ packetCh' = <<>>
      /\ writer = "running" /\ writer' = "done"
      /\ UNCHANGED <<sender, frames, pcap_queued, pcap_dropped, written, writeErrors>>
  BY DEF HandleShutdown, sending
<1>2. packetCh \in Seq(Message) /\ Len(packetCh) \in Nat \ {0} /\ Head(packetCh) = packetCh[1]
  BY <1>1, LenProperties, EmptySeq, HeadTailProperties DEF TypeOK
<1>3. Len(packetCh) = 1
  <2>1. 1 \in 1 .. Len(packetCh) /\ packetCh[1] = Shutdown
    BY <1>1, <1>2
  <2> QED BY <1>1, <2>1 DEF ShutdownEnds
<1>4. Waiting = 0
  BY <1>1, <1>2, <1>3 DEF Waiting
<1>5. packetCh' \in Seq(Message) /\ Len(packetCh') = 0 /\ Waiting' = 0
  BY <1>1, EmptySeq DEF Waiting
<1>6. TypeOK'
  BY <1>1, <1>5, PcapAssumption DEF TypeOK
<1>7. FramesAccounted'
  BY <1>1, <1>4, <1>5 DEF FramesAccounted, TypeOK
<1> QED BY <1>5, <1>6, <1>7 DEF ShutdownEnds

LEMMA NextSinkInv == SinkInv /\ [Next]_vars => SinkInv'
<1> SUFFICES ASSUME SinkInv, [Next]_vars PROVE SinkInv'
  OBVIOUS
<1>1. CASE Platform
  BY <1>1, OfferPacketInv, StartStoppingInv, TrySendShutdownInv DEF Platform
<1>2. CASE WriterThread
  BY <1>2, OpenPcapInv, WritePacketInv, HandleShutdownInv DEF WriterThread
<1>3. CASE UNCHANGED vars
  BY <1>3 DEF vars, sending, SinkInv, TypeOK, ShutdownEnds, FramesAccounted, Waiting
<1> QED BY <1>1, <1>2, <1>3 DEF Next, Finished

-----------------------------------------------------------------------------
(* All variables of the PCAP sink keep their types, and the channel its    *)
(* capacity, whatever that is.                                             *)
THEOREM PcapTypeCorrect == Spec => []TypeOK
<1>1. SinkInv => TypeOK
  BY DEF SinkInv
<1> QED BY <1>1, InitSinkInv, NextSinkInv, PTL DEF Spec

(* send_packet and the writer thread lose no frame without counting it:    *)
(* every frame offered is queued or dropped, and every frame queued is     *)
(* written, given up on an error, or waits.                                *)
THEOREM EveryFrameAccounted == Spec => []FramesAccounted
<1>1. SinkInv => FramesAccounted
  BY DEF SinkInv
<1> QED BY <1>1, InitSinkInv, NextSinkInv, PTL DEF Spec

-----------------------------------------------------------------------------
(* Progress of the writer.  Liveness itself needs ENABLED and fairness; its *)
(* two halves are proved: every step of the thread uses up some of a       *)
(* natural number, and once Shutdown is sent the thread is never without a *)
(* step before it has ended.                                               *)

\* The messages to take, and the states still to go through.
WriterWork ==
  Len(packetCh) + CASE writer = "opening" -> 2 [] writer = "running" -> 1 [] OTHER -> 0
WorkDone == WriterWork \in Nat /\ WriterWork' \in Nat /\ WriterWork' < WriterWork

\* A Shutdown that is sent is one message more.
LEMMA SendWork ==
  SinkInv /\ TrySendShutdown => WriterWork \in Nat /\ WriterWork' \in Nat /\ WriterWork' <= WriterWork + 1
<1> SUFFICES ASSUME SinkInv, TrySendShutdown
             PROVE  WriterWork \in Nat /\ WriterWork' \in Nat /\ WriterWork' <= WriterWork + 1
  OBVIOUS
<1>1. packetCh \in Seq(Message) /\ Len(packetCh) \in Nat
  BY LenProperties DEF SinkInv, TypeOK
<1>2. Len(packetCh') = Len(packetCh) \/ Len(packetCh') = Len(packetCh) + 1
  BY <1>1, AppendProperties DEF TrySendShutdown, Message
<1>3. writer' = writer
  BY DEF TrySendShutdown
<1> QED BY <1>1, <1>2, <1>3 DEF WriterWork

\* A step of the thread, whatever it finds, is one of them done.
LEMMA StepWork ==
  SinkInv /\ SinkInv' /\ WriterThread => WorkDone
<1> SUFFICES ASSUME SinkInv, SinkInv', WriterThread
             PROVE  WorkDone
  OBVIOUS
<1>1. /\ packetCh \in Seq(Message) /\ Len(packetCh) \in Nat /\ Len(packetCh') \in Nat
      /\ Len(<<>>) = 0 /\ (packetCh # <<>> => Len(packetCh) # 0)
  BY LenProperties, EmptySeq DEF SinkInv, TypeOK
<1>2. CASE OpenPcap
  BY <1>1, <1>2 DEF OpenPcap, WriterWork, WorkDone
<1>3. CASE WritePacket
  <2>1. packetCh # <<>> /\ packetCh' = Tail(packetCh) /\ writer = "running" /\ writer' = writer
    BY <1>3 DEF WritePacket
  <2>2. Len(packetCh') = Len(packetCh) - 1
    BY <1>1, <2>1, HeadTailProperties
  <2> QED BY <1>1, <2>1, <2>2 DEF WriterWork, WorkDone
<1>4. CASE HandleShutdown
  BY <1>1, <1>4 DEF HandleShutdown, WriterWork, WorkDone
<1> QED BY <1>2, <1>3, <1>4 DEF WriterThread

(* Every step of the writer thread, an OpenPcap that panics included,      *)
(* leaves it less to do: between two sends it takes WriterWork steps at    *)
(* most, whatever the file takes or refuses.                               *)
WriterProgress == [][WriterThread => WorkDone]_vars

(* From StepWork: no step of the thread is for nothing.                    *)
THEOREM WriterMakesProgress == Spec => WriterProgress
<1>1. SinkInv /\ SinkInv' /\ [Next]_vars => [WriterThread => WorkDone]_vars
  BY StepWork
<1> QED BY <1>1, InitSinkInv, NextSinkInv, PTL DEF Spec, WriterProgress

\* The Shutdown that was sent waits for the writer until it ends.
ShutdownWaits ==
  sender = "stopped" /\ writer \in {"opening", "running"} =>
    packetCh # <<>> /\ packetCh[Len(packetCh)] = Shutdown

LEMMA NextShutdownWaits == SinkInv /\ ShutdownWaits /\ [Next]_vars => ShutdownWaits'
<1> SUFFICES ASSUME SinkInv, ShutdownWaits, [Next]_vars PROVE ShutdownWaits'
  OBVIOUS
<1>1. packetCh \in Seq(Message) /\ Len(packetCh) \in Nat
  BY LenProperties DEF SinkInv, TypeOK
<1>2. CASE TrySendShutdown /\ PacketRoom
  <2>1. packetCh' = Append(packetCh, Shutdown)
    BY <1>2 DEF TrySendShutdown
  <2>2. /\ packetCh' \in Seq(Message) /\ Len(packetCh') = Len(packetCh) + 1
        /\ packetCh'[Len(packetCh')] = Shutdown
    BY <1>1, <2>1, AppendProperties DEF Message
  <2>3. packetCh' # <<>>
    BY <1>1, <2>2, EmptySeq
  <2> QED BY <2>2, <2>3 DEF ShutdownWaits
<1>3. CASE WritePacket
  <2>1. /\ packetCh # <<>> /\ Head(packetCh) = Packet /\ packetCh' = Tail(packetCh)
        /\ writer = "running" /\ sender' = sender
    BY <1>3 DEF WritePacket, sending
  <2>2. /\ Len(packetCh) # 0 /\ Head(packetCh) = packetCh[1]
        /\ packetCh' \in Seq(Message) /\ Len(packetCh') = Len(packetCh) - 1
        /\ \A i \in 1 .. Len(packetCh') : packetCh'[i] = packetCh[i + 1]
    BY <1>1, <2>1, HeadTailProperties, EmptySeq
  <2>3. ASSUME sender = "stopped" PROVE packetCh' # <<>> /\ packetCh'[Len(packetCh')] = Shutdown
    <3>1. packetCh[Len(packetCh)] = Shutdown
      BY <2>1, <2>3 DEF ShutdownWaits
    <3>2. Len(packetCh) # 1
      BY <2>1, <2>2, <3>1 DEF Packet, Shutdown
    <3>3. Len(packetCh') \in 1 .. Len(packetCh') /\ Len(packetCh') + 1 = Len(packetCh)
      BY <1>1, <2>2, <3>2
    <3>4. packetCh'[Len(packetCh')] = packetCh[Len(packetCh)]
      BY <2>2, <3>3
    <3> QED BY <2>2, <3>1, <3>3, <3>4, EmptySeq
  <2> QED BY <2>1, <2>3 DEF ShutdownWaits
<1>4. CASE OpenPcap \/ HandleShutdown \/ OfferPacket \/ StartStopping \/ UNCHANGED vars
             \/ (TrySendShutdown /\ ~PacketRoom)
  BY <1>4 DEF ShutdownWaits, OpenPcap, HandleShutdown, OfferPacket, TrySendPacket, StartStopping,
              TrySendShutdown, vars, sending
<1> QED BY <1>2, <1>3, <1>4 DEF Next, Platform, WriterThread, Finished

\* What OpenPcap, WritePacket and HandleShutdown wait for.
WriterCanGoOn == writer = "opening" \/ (writer = "running" /\ packetCh # <<>>)

(* Once the platform's loop has sent Shutdown the writer thread never waits*)
(* for a message again: it can go on until it has ended, so that the join  *)
(* of shutdown is a wait for at most WriterWork steps.                     *)
WriterEndsAfterShutdown ==
  sender = "stopped" => writer \in {"done", "panicked"} \/ WriterCanGoOn

(* From ShutdownWaits: the Shutdown sent is still to come.                 *)
THEOREM StoppedWriterGoesOn == Spec => []WriterEndsAfterShutdown
<1>1. SinkInv /\ ShutdownWaits => WriterEndsAfterShutdown
  BY DEF SinkInv, TypeOK, ShutdownWaits, WriterEndsAfterShutdown, WriterCanGoOn
<1>2. Init => ShutdownWaits
  BY DEF Init, ShutdownWaits
<1> QED BY <1>1, <1>2, InitSinkInv, NextSinkInv, NextShutdownWaits, PTL DEF Spec
=============================================================================
