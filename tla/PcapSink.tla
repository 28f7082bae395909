------------------------------ MODULE PcapSink ------------------------------
(***************************************************************************)
(* The PCAP sink of channels/pcap.rs: capture cores push frames into a     *)
(* bounded channel without ever waiting, one writer thread appends them to *)
(* the PCAP file.  To stop it, the owning platform tries to queue a        *)
(* Shutdown message again and again until the channel takes it.            *)
(***************************************************************************)
EXTENDS PcapParams, Sequences

CONSTANT MaxFrames  \* bound on the frames offered, for model checking

VARIABLES
  sender,        \* the packet_tx side: "open", "stopping" or "stopped"
  frames,        \* frames handed to try_send so far (history)
  packetCh,      \* the packet channel, oldest message first
  writer,        \* control state of the writer thread
  written,       \* frames in the PCAP file
  writeErrors,   \* frames the file did not take (history)
  pcap_queued, pcap_dropped   \* counters of the platform

sending == <<sender, frames, pcap_queued, pcap_dropped>>
vars == <<sending, packetCh, writer, written, writeErrors>>

\* All that matters of a frame is that it is there.
Packet == "Packet"
Shutdown == "Shutdown"
Message == {Packet, Shutdown}

Init ==
  /\ sender = "open" /\ frames = 0 /\ packetCh = <<>>
  /\ writer = "opening" /\ written = 0 /\ writeErrors = 0
  /\ pcap_queued = 0 /\ pcap_dropped = 0

\* Mutant: the channel takes one message too many.
LaxPacketRoom == writer \in {"opening", "running"} /\ Len(packetCh) <= PacketCapacity

\* try_send succeeds: a receiver exists and a slot is free.
PacketRoom == writer \in {"opening", "running"} /\ Len(packetCh) < PacketCapacity

-----------------------------------------------------------------------------
(* The channel's senders.                                                  *)

\* Mutant: the core does not look at try_send's answer.
TrySendPacketUnchecked ==
  /\ frames < MaxFrames
  /\ frames' = frames + 1
  /\ packetCh' = IF PacketRoom THEN Append(packetCh, Packet) ELSE packetCh
  /\ pcap_queued' = pcap_queued + 1
  /\ UNCHANGED <<pcap_dropped, sender, writer, written, writeErrors>>

\* send_packet: a capture core offers a frame and counts the outcome.
TrySendPacket ==
  /\ frames < MaxFrames
  /\ frames' = frames + 1
  /\ IF PacketRoom
     THEN /\ packetCh' = Append(packetCh, Packet)
          /\ pcap_queued' = pcap_queued + 1
          /\ UNCHANGED pcap_dropped
     ELSE /\ pcap_dropped' = pcap_dropped + 1
          /\ UNCHANGED <<packetCh, pcap_queued>>
  /\ UNCHANGED <<sender, writer, written, writeErrors>>

\* The platform stops: from now on it only offers Shutdown.
StartStopping ==
  /\ sender = "open"
  /\ sender' = "stopping"
  /\ UNCHANGED <<frames, packetCh, writer, written, writeErrors, pcap_queued, pcap_dropped>>

\* One turn of its loop: leave it if the channel took Shutdown, else sleep.
TrySendShutdown ==
  /\ sender = "stopping"
  /\ IF PacketRoom
     THEN packetCh' = Append(packetCh, Shutdown) /\ sender' = "stopped"
     ELSE UNCHANGED <<packetCh, sender>>
  /\ UNCHANGED <<frames, writer, written, writeErrors, pcap_queued, pcap_dropped>>

-----------------------------------------------------------------------------
(* The writer thread.                                                      *)

\* File::create; a failure panics and drops the receiver with all it holds.
OpenPcap ==
  /\ writer = "opening"
  /\ \/ writer' = "running" /\ UNCHANGED packetCh
     \/ PcapMayFail /\ writer' = "panicked" /\ packetCh' = <<>>
  /\ UNCHANGED <<sending, written, writeErrors>>

\* A write error is reported and the frame given up.
WritePacket ==
  /\ writer = "running" /\ packetCh # <<>> /\ Head(packetCh) = Packet
  /\ packetCh' = Tail(packetCh)
  /\ \/ /\ written' = written + 1
        /\ UNCHANGED writeErrors
     \/ /\ WritesMayFail
        /\ writeErrors' = writeErrors + 1
        /\ UNCHANGED written
  /\ UNCHANGED <<sending, writer>>

HandleShutdown ==
  /\ writer = "running" /\ packetCh # <<>> /\ Head(packetCh) = Shutdown
  /\ writer' = "done"
  /\ packetCh' = <<>>
  /\ UNCHANGED <<sending, written, writeErrors>>

\* Both sides have stopped.
Finished ==
  /\ sender = "stopped" /\ writer \in {"done", "panicked"}
  /\ UNCHANGED vars

\* No core offers a frame once the platform stops.
OfferPacket == sender = "open" /\ TrySendPacket

Platform == OfferPacket \/ StartStopping \/ TrySendShutdown
WriterThread == OpenPcap \/ WritePacket \/ HandleShutdown

Next == Platform \/ WriterThread \/ Finished

Spec == Init /\ [][Next]_vars

-----------------------------------------------------------------------------
(* Every variable holds a value of its type; the channel has its capacity. *)
TypeOK ==
  /\ sender \in {"open", "stopping", "stopped"}
  /\ writer \in {"opening", "running", "done", "panicked"}
  /\ packetCh \in Seq(Message) /\ Len(packetCh) <= PacketCapacity
  /\ {frames, written, writeErrors, pcap_queued, pcap_dropped} \subseteq Nat

\* The frames waiting in the channel.
Waiting ==
  IF packetCh # <<>> /\ packetCh[Len(packetCh)] = Shutdown
  THEN Len(packetCh) - 1
  ELSE Len(packetCh)

(* A frame is counted as queued or as dropped, and unless the thread       *)
(* panicked every queued frame is in the file, was given up on a write     *)
(* error or waits; nothing waits any more once the writer has stopped.     *)
FramesAccounted ==
  /\ frames = pcap_queued + pcap_dropped
  /\ writer # "panicked" => pcap_queued = written + writeErrors + Waiting
  /\ writer = "done" => pcap_queued = written + writeErrors
=============================================================================
