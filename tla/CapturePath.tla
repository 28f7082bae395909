----------------------------- MODULE CapturePath -----------------------------
(***************************************************************************)
(* What a capture core does with a frame between the network card and the  *)
(* sinks: dispatch_frame of framework/dispatcher.rs parses it              *)
(* (FrameParser) and routes it to the first platform that claims its       *)
(* addresses (Addresses), Teams before Google Meet.  Teams looks at the    *)
(* protocol (Demux) and turns an RTP packet into a record                  *)
(* (models/rtp_record.rs), whose addresses the session layer reads again.  *)
(* Google Meet claims packets and ignores them.                            *)
(*                                                                         *)
(* One core: the counters are atomic, all else is local to a call.  What   *)
(* happens to frame and record in the sinks is modelled by TeamsPlatform.  *)
(***************************************************************************)
EXTENDS FrameParser, Addresses, Demux

CONSTANTS
  Ipv4Addresses, Ipv6Addresses,
  FirstBytes, SecondBytes,  \* of UDP payloads
  LenFields,       \* what the length field of an IPv6 header may say
  LenMod,          \* 2^16, the width of that field
  OverflowChecks,  \* TRUE in a debug build: u16 additions panic
  MaxDispatched    \* bound on the frames dispatched, for model checking

ASSUME CaptureAssumption ==
  /\ \A a \in Ipv4Addresses : a \in Seq(Nat) /\ Len(a) = 4
  /\ \A a \in Ipv6Addresses : a \in Seq(Nat) /\ Len(a) = 8
  /\ FirstBytes \subseteq 0 .. 255 /\ SecondBytes \subseteq 0 .. 255
  /\ LenMod \in Nat \ {0}
  /\ LenFields \subseteq 0 .. LenMod - 1
  /\ OverflowChecks \in BOOLEAN
  /\ MaxDispatched \in Nat

VARIABLES
  dispatched,  \* calls of dispatch_frame (history)
  non_target,  \* counter of the dispatcher
  ip, rtp, discarded, unknown,  \* counters of Teams
  payload,     \* the UDP payload, while its protocol is looked at
  protocol,
  ends,        \* what the session layer makes of the packet's addresses
  record       \* outcome of parse_rtp_record

counters == <<dispatched, non_target, ip, rtp, discarded, unknown>>
locals == <<payload, protocol, ends, record>>
vars == <<parser, counters, locals>>

NoPayload == [len |-> 0, b0 |-> 0, b1 |-> 0, has |-> {}]

\* The session layer's view of a packet: whether either end is a server,
\* its direction, and which end is the client.
Ends(src, dst) ==
  [uplink |-> IsServerIp(dst), downlink |-> IsServerIp(src),
   client |-> IF ClientIp(src, dst) = dst THEN "dst" ELSE "src"]
NoEnds == [uplink |-> FALSE, downlink |-> FALSE, client |-> "none"]

Init ==
  /\ Idle
  /\ dispatched = 0 /\ non_target = 0
  /\ ip = 0 /\ rtp = 0 /\ discarded = 0 /\ unknown = 0
  /\ payload = NoPayload /\ protocol = "none" /\ ends = NoEnds /\ record = "none"

\* The call returns; the next one finds nothing of this one.
Return ==
  /\ at' = "idle" /\ len' = 0 /\ is_ipv6' = FALSE /\ ip_start' = 0
  /\ next_hdr' = "other" /\ offset' = 0 /\ reach' = 0
  /\ payload' = NoPayload /\ protocol' = "none" /\ ends' = NoEnds /\ record' = "none"

-----------------------------------------------------------------------------
(* dispatch_frame.                                                         *)

Dispatch ==
  /\ dispatched < MaxDispatched
  /\ Receive
  /\ dispatched' = dispatched + 1
  /\ UNCHANGED <<non_target, ip, rtp, discarded, unknown, locals>>

ParseFrame == Parse /\ UNCHANGED <<counters, locals>>

\* parse_frame found no UDP packet.
CountUnparsed ==
  /\ at = "rejected"
  /\ non_target' = non_target + 1
  /\ Return
  /\ UNCHANGED <<dispatched, ip, rtp, discarded, unknown>>

\* handle_packet of Teams: count the packet, look for a payload.
ClaimForTeams(src, dst) ==
  /\ ip' = ip + 1
  /\ IF PayloadLen < 2
     THEN unknown' = unknown + 1 /\ Return
     ELSE /\ at' = "claimed" /\ ends' = Ends(src, dst)
          /\ UNCHANGED <<len, is_ipv6, ip_start, next_hdr, offset, reach, unknown,
                         payload, protocol, record>>
  /\ UNCHANGED <<rtp, discarded>>

\* handle_packet of Google Meet does nothing.
ClaimForMeet == Return /\ UNCHANGED <<ip, rtp, discarded, unknown>>

\* No platform claims the packet.
CountUnclaimed ==
  /\ non_target' = non_target + 1
  /\ Return
  /\ UNCHANGED <<ip, rtp, discarded, unknown>>

\* is_teams, is_google_meet: either end is in the platform's ranges.
IsTeams(src, dst) == IsMicrosoft(src) \/ IsMicrosoft(dst)
IsGoogleMeet(src, dst) == IsGoogle(src) \/ IsGoogle(dst)

\* Mutant: the loop over the platforms ends without saying that one matched.
RouteUnreturned ==
  /\ at = "parsed"
  /\ \E src, dst \in IF is_ipv6 THEN Ipv6Addresses ELSE Ipv4Addresses :
       \/ IsTeams(src, dst) /\ ClaimForTeams(src, dst) /\ non_target' = non_target + 1
       \/ ~IsTeams(src, dst) /\ CountUnclaimed
  /\ UNCHANGED dispatched

\* route: the first platform that claims the packet handles it.
Route ==
  /\ at = "parsed"
  /\ \E src, dst \in IF is_ipv6 THEN Ipv6Addresses ELSE Ipv4Addresses :
       \/ IsTeams(src, dst) /\ ClaimForTeams(src, dst) /\ UNCHANGED non_target
       \/ ~IsTeams(src, dst) /\ IsGoogleMeet(src, dst) /\ ClaimForMeet /\ UNCHANGED non_target
       \/ ~IsTeams(src, dst) /\ ~IsGoogleMeet(src, dst) /\ CountUnclaimed
  /\ UNCHANGED dispatched

-----------------------------------------------------------------------------
(* handle_packet of Teams, from the protocol on.                           *)

ClassifyPayload ==
  /\ at = "claimed" /\ protocol = "none"
  /\ payload' \in Payload(PayloadLen, FirstBytes, SecondBytes)
  /\ protocol' = ClassifyProtocol(payload')
  /\ UNCHANGED <<parser, counters, ends, record>>

\* Every protocol but RTP is only counted.
Discard ==
  /\ at = "claimed" /\ protocol \notin {"none", "Rtp"}
  /\ IF protocol = "Unknown"
     THEN unknown' = unknown + 1 /\ UNCHANGED discarded
     ELSE discarded' = discarded + 1 /\ UNCHANGED unknown
  /\ Return
  /\ UNCHANGED <<dispatched, non_target, ip, rtp>>

\* The total length of an IPv6 packet is an addition of 16 bits.
Overflows(field) == OverflowChecks /\ field + 40 >= LenMod

\* parse_rtp_record: the UDP header in front of the payload, the addresses,
\* the lengths, and the 12 bytes of the RTP header.
ParseRecord ==
  /\ at = "claimed" /\ protocol = "Rtp" /\ record = "none"
  /\ rtp' = rtp + 1
  /\ IF offset + 12 > len
     THEN record' = "too_short" /\ UNCHANGED reach
     ELSE /\ \/ ~is_ipv6 /\ record' = "parsed"
             \/ /\ is_ipv6
                /\ \E field \in LenFields :
                     record' = IF Overflows(field) THEN "panicked" ELSE "parsed"
          /\ reach' = offset + 12
  /\ UNCHANGED <<at, len, is_ipv6, ip_start, next_hdr, offset, payload, protocol, ends,
                 dispatched, non_target, ip, discarded, unknown>>

\* Frame and record go to the sinks.
Keep ==
  /\ record \in {"parsed", "too_short"}
  /\ Return
  /\ UNCHANGED counters

\* All frames dispatched, or the core is gone.
Finished ==
  /\ \/ at = "idle" /\ dispatched = MaxDispatched
     \/ record = "panicked"
  /\ UNCHANGED vars

Handle == CountUnparsed \/ Route \/ ClassifyPayload \/ Discard \/ ParseRecord \/ Keep

Next == Dispatch \/ ParseFrame \/ Handle \/ Finished

Spec == Init /\ [][Next]_vars

\* A core goes on with the frame it has; nothing makes frames arrive.
FairSpec == Spec /\ WF_vars(ParseFrame) /\ WF_vars(Handle)

-----------------------------------------------------------------------------
ParserTypeOK ==
  /\ at \in {"idle", "ethernet", "ipv4", "ipv6", "walk", "parsed", "rejected", "claimed"}
  /\ next_hdr \in NextHeader
  /\ {len, ip_start, offset, reach} \subseteq Nat
  /\ at = "walk" => offset <= len

CountersTypeOK == {dispatched, non_target, ip, rtp, discarded, unknown} \subseteq Nat

LocalsTypeOK ==
  /\ payload.len \in Nat /\ protocol \in Protocols \cup {"none"}
  /\ ends \in [uplink : BOOLEAN, downlink : BOOLEAN, client : {"src", "dst", "none"}]
  /\ record \in {"none", "parsed", "too_short", "panicked"}

(* Every variable holds a value of its type; the walk is inside the frame. *)
TypeOK == is_ipv6 \in BOOLEAN /\ ParserTypeOK /\ CountersTypeOK /\ LocalsTypeOK

(* parse_frame, the protocol test and parse_rtp_record stay inside the     *)
(* frame with every index, whatever tags, header lengths and extension     *)
(* headers it shows.                                                       *)
ReadsInsideFrame == reach <= len

(* The 8 bytes in front of the payload, where parse_rtp_record reads the   *)
(* ports and the UDP length, lie behind the IP header, which lies behind   *)
(* the tags.                                                               *)
HeadersInOrder ==
  at \in {"parsed", "claimed"} =>
    /\ ip_start >= 14
    /\ offset - 8 >= ip_start + (IF is_ipv6 THEN 40 ELSE 20)

(* parse_rtp_record never refuses what the protocol test took for RTP: for *)
(* each RTP packet counted, frame and record are both offered.             *)
RtpAlwaysRecorded == record # "too_short"

\* The ranges of the first byte that RFC 7983 tells apart, with the further
\* tests of each: media is version 2, unless it shows a QUIC version.
ByFirstByte(p) ==
  CASE p.b0 < 64 -> IF p.len >= 20 /\ "cookie" \in p.has THEN {"Stun"}
                    ELSE IF p.b0 \in 20 .. 23 THEN {"Dtls", "Unknown"} ELSE {"Unknown"}
    [] p.b0 \in 64 .. 127 -> IF "channel" \in p.has THEN {"Stun"} ELSE {"Quic"}
    [] p.b0 \in 128 .. 191 -> IF p.len >= 5 /\ "version" \in p.has THEN {"Quic"}
                              ELSE IF p.b1 \in 200 .. 207 THEN {"Rtcp"}
                              ELSE IF p.len >= 12 THEN {"Rtp"} ELSE {"Unknown"}
    [] p.b0 > 191 -> {"Quic"}

(* The order of the six overlapping tests makes them a partition by first  *)
(* byte: TURN channel data is not taken for QUIC, STUN not for DTLS, RTCP  *)
(* not for RTP, and RTP only for QUIC where it shows a QUIC version.       *)
FirstByteDecides == protocol # "none" => protocol \in ByFirstByte(payload)

(* Between two calls no frame is in two counters: a packet that Teams      *)
(* claimed is under one of its protocols and not among the non-target      *)
(* ones.                                                                   *)
NoFrameCountedTwice ==
  at = "idle" => ip = rtp + discarded + unknown /\ dispatched >= non_target + ip

(* The session layer's two lists of servers agree: when one end of a       *)
(* packet is a server by the list that gives the direction, the other end  *)
(* is the client by the list that gives the session.                       *)
ClientIsOtherEnd ==
  /\ ends.downlink /\ ~ends.uplink => ends.client = "dst"
  /\ ends.uplink /\ ~ends.downlink => ends.client = "src"

(* A call comes to its end, however long the chain of headers: every turn  *)
(* of the loop goes forward in the frame.  It returns, or the 16-bit sum   *)
(* of parse_rtp_record panics.                                             *)
CallReturns == (at = "ethernet") ~> (at = "idle" \/ record = "panicked")

-----------------------------------------------------------------------------
(* What comments say, and the code does not do.                            *)

(* network_metrics.rs: a packet is skipped if it is not going to or from   *)
(* Microsoft; so a packet claimed as Teams traffic is never skipped.       *)
ServerEndKnown == at = "claimed" => ends.uplink \/ ends.downlink

(* google_meet/mod.rs: its classify returns false for every packet, and    *)
(* registering it has no effect; so a frame that Teams does not claim is   *)
(* counted as non-target.                                                  *)
MeetClaimsNothing == at = "idle" => dispatched = non_target + ip
=============================================================================
