---------------------------- MODULE TeamsPlatform ----------------------------
(***************************************************************************)
(* The Teams platform of platforms/teams/mod.rs, composed of its two sinks *)
(* (PcapSink, RecordSink) and the session worker at the end of the batch   *)
(* queue: capture cores run handle_packet concurrently, then main runs     *)
(* shutdown once, joins the worker threads and prints the final counters.  *)
(*                                                                         *)
(* A call of handle_packet is three steps of its core: count the packet,   *)
(* offer the frame, offer the record.  The capture runtime (external) has  *)
(* no call in progress any more when it returns to main.                   *)
(***************************************************************************)
EXTENDS PcapParams, RecordParams, Sequences, FiniteSets

CONSTANTS
  Cores,       \* capture cores
  MaxPackets   \* bound on the packets claimed, for model checking

ASSUME PlatformAssumption == IsFiniteSet(Cores) /\ MaxPackets \in Nat

VARIABLES
  core,         \* what each core is doing
  main,         \* control state of main
  ip, rtp, discarded, unknown,   \* TeamsCounters
  \* the PCAP sink
  sender, frames, packetCh, writer, written, writeErrors, pcap_queued, pcap_dropped,
  \* the record sink
  owner, offered, recordCh, thread, dedup_map, pending, seq, batchQ, sessionUp, csv,
  batches, csv_records, duplicate_records, record_drops, batch_drops

Pcap == INSTANCE PcapSink WITH MaxFrames <- MaxPackets
Rec == INSTANCE RecordSink WITH MaxRecords <- MaxPackets

counters == <<ip, rtp, discarded, unknown>>
pcapVars == <<sender, frames, packetCh, writer, written, writeErrors, pcap_queued,
              pcap_dropped>>
recVars == <<owner, offered, recordCh, thread, dedup_map, pending, seq, batchQ, sessionUp,
             csv, batches, csv_records, duplicate_records, record_drops,
             batch_drops>>
vars == <<core, main, counters, pcapVars, recVars>>

\* A core between two calls, and inside one at a given step with its record.
Idle == [at |-> "idle"]
InCall(step, s, q) == [at |-> step, ssrc |-> s, seq |-> q]

Init ==
  /\ core = [c \in Cores |-> Idle]
  /\ main = "capturing"
  /\ ip = 0 /\ rtp = 0 /\ discarded = 0 /\ unknown = 0
  /\ Pcap!Init /\ Rec!Init

-----------------------------------------------------------------------------
(* handle_packet.                                                          *)

\* A claimed packet that is too short, or whose protocol Teams discards.
HandleOther(c) ==
  /\ main = "capturing" /\ core[c] = Idle /\ ip < MaxPackets
  /\ ip' = ip + 1
  /\ \/ unknown' = unknown + 1 /\ UNCHANGED discarded
     \/ discarded' = discarded + 1 /\ UNCHANGED unknown
  /\ UNCHANGED <<core, main, rtp, pcapVars, recVars>>

\* An RTP packet: count it, then go on to the sinks.
HandleRtp(c, s, q) ==
  /\ main = "capturing" /\ core[c] = Idle /\ ip < MaxPackets
  /\ ip' = ip + 1 /\ rtp' = rtp + 1
  /\ core' = [core EXCEPT ![c] = InCall("send_packet", s, q)]
  /\ UNCHANGED <<main, discarded, unknown, pcapVars, recVars>>

\* Mutant: the frame is sent with a send that waits for a slot.
SendPacketBlocking(c) ==
  /\ core[c].at = "send_packet" /\ Pcap!PacketRoom
  /\ core' = [core EXCEPT ![c] = InCall("try_send", core[c].ssrc, core[c].seq)]
  /\ Pcap!TrySendPacket
  /\ UNCHANGED <<main, counters, recVars>>

SendPacket(c) ==
  /\ core[c].at = "send_packet"
  /\ core' = [core EXCEPT ![c] = InCall("try_send", core[c].ssrc, core[c].seq)]
  /\ Pcap!TrySendPacket
  /\ UNCHANGED <<main, counters, recVars>>

SendRecord(c) ==
  /\ core[c].at = "try_send"
  /\ core' = [core EXCEPT ![c] = Idle]
  /\ Rec!TrySendRecord(core[c].ssrc, core[c].seq)
  /\ UNCHANGED <<main, counters, pcapVars>>

-----------------------------------------------------------------------------
(* shutdown, called by main when the runtime has returned.                 *)

\* Mutant: main does not wait for the calls in progress.
BeginShutdownEarly ==
  /\ main = "capturing"
  /\ main' = "stop_pcap"
  /\ Pcap!StartStopping
  /\ UNCHANGED <<core, counters, recVars>>

BeginShutdown ==
  /\ main = "capturing" /\ \A c \in Cores : core[c] = Idle
  /\ main' = "stop_pcap"
  /\ Pcap!StartStopping
  /\ UNCHANGED <<core, counters, recVars>>

\* 1. One turn of the loop that offers Shutdown to the PCAP channel.
StopPcap ==
  /\ main = "stop_pcap"
  /\ Pcap!TrySendShutdown
  /\ main' = IF sender' = "stopped" THEN "stop_records" ELSE main
  /\ UNCHANGED <<core, counters, recVars>>

\* Mutant: main forgets to stop the records thread before it joins.
SkipStopRecords ==
  /\ main = "stop_records"
  /\ main' = "join_pcap"
  /\ UNCHANGED <<core, counters, pcapVars, recVars>>

\* 2. The blocking send to the records thread.
StopRecords ==
  /\ main = "stop_records"
  /\ Rec!SendShutdown
  /\ main' = "join_pcap"
  /\ UNCHANGED <<core, counters, pcapVars>>

\* Mutant: shutdown joins the PCAP writer only.
JoinPcapOnly ==
  /\ \/ main = "join_pcap" /\ writer \in {"done", "panicked"} /\ main' = "done"
     \/ main = "join_records" /\ ~Rec!Alive /\ main' = "join_session"
     \/ main = "join_session" /\ ~sessionUp /\ main' = "done"
  /\ UNCHANGED <<core, counters, pcapVars, recVars>>

\* 3. Join the threads in the order they were spawned; a join that finds a
\* panic goes on all the same.
Join ==
  /\ \/ main = "join_pcap" /\ writer \in {"done", "panicked"} /\ main' = "join_records"
     \/ main = "join_records" /\ ~Rec!Alive /\ main' = "join_session"
     \/ main = "join_session" /\ ~sessionUp /\ main' = "done"
  /\ UNCHANGED <<core, counters, pcapVars, recVars>>

Finished == main = "done" /\ UNCHANGED vars

-----------------------------------------------------------------------------
(* The steps of the cores, of main and of the worker threads.              *)

Call(c) == SendPacket(c) \/ SendRecord(c)

Core(c) ==
  \/ HandleOther(c)
  \/ \E s \in Ssrcs, q \in SeqNums : HandleRtp(c, s, q)
  \/ Call(c)

MainThread == StopPcap \/ StopRecords \/ Join

PcapThread == Pcap!WriterThread /\ UNCHANGED <<core, main, counters, recVars>>
RecordsThread == Rec!RecordsThread /\ UNCHANGED <<core, main, counters, pcapVars>>
SessionThread == Rec!Session /\ UNCHANGED <<core, main, counters, pcapVars>>

Next ==
  \/ \E c \in Cores : Core(c)
  \/ BeginShutdown
  \/ MainThread
  \/ PcapThread \/ RecordsThread \/ SessionThread
  \/ Finished

Spec == Init /\ [][Next]_vars

\* The operating system runs every thread; no packet need arrive, and nothing
\* need end the capture.
FairSpec ==
  /\ Spec
  /\ WF_vars(MainThread)
  /\ WF_vars(PcapThread) /\ WF_vars(RecordsThread) /\ WF_vars(SessionThread)

-----------------------------------------------------------------------------
(* Every variable of the platform itself holds a value of its type.        *)
TypeOK ==
  /\ core \in [Cores -> {Idle} \cup
       {InCall(step, s, q) : step \in {"send_packet", "try_send"}, s \in Ssrcs, q \in SeqNums}]
  /\ main \in {"capturing", "stop_pcap", "stop_records", "join_pcap", "join_records",
               "join_session", "done"}
  /\ {ip, rtp, discarded, unknown} \subseteq Nat
  /\ Pcap!TypeOK /\ Rec!TypeOK

NoPanic == writer # "panicked" /\ thread # "panicked"

(* The counters that print_final_stats reads agree with one another across *)
(* the cores and both sinks: each claimed packet under one protocol, each  *)
(* RTP packet in the file, given up or dropped on the PCAP side, and in a  *)
(* row, a duplicate or a drop on the record side.                          *)
FinalReportAddsUp ==
  main = "done" =>
    /\ ip = rtp + discarded + unknown
    /\ rtp = pcap_queued + pcap_dropped
    /\ NoPanic => /\ pcap_queued = written + writeErrors
                  /\ rtp = csv_records + duplicate_records + record_drops

(* When main has joined its threads nothing is left in a queue or in the   *)
(* partial batch, whatever thread panicked on the way.                     *)
NothingLeftBehind ==
  main = "done" => packetCh = <<>> /\ recordCh = <<>> /\ pending = <<>> /\ batchQ = <<>>

(* A frame is counted as queued or as dropped, and unless the thread       *)
(* panicked every queued frame is in the file, was given up on a write     *)
(* error or waits in the channel, until the writer has stopped.            *)
FramesAccounted == Pcap!FramesAccounted

(* shutdown comes to its end: no wait in it, for a channel or for a thread,*)
(* lasts for ever.                                                         *)
ShutdownCompletes == (main # "capturing") ~> (main = "done")

(* It does so whatever the queues hold, whatever writes fail and even if   *)
(* the records thread panicked, as long as the PCAP file could be created. *)
ShutdownUnlessNoPcap == (main # "capturing") ~> (main = "done" \/ writer = "panicked")

(* handle_packet does not block: a core inside a call can always take its  *)
(* next step, whatever the threads and the queues of both sinks are doing. *)
HandlePacketNeverWaits == \A c \in Cores : core[c] # Idle => ENABLED Call(c)
=============================================================================
