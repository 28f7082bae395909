--------------------------- MODULE CapturePathProof ---------------------------
(***************************************************************************)
(* Proofs of the safety properties of CapturePath, for frames of any       *)
(* length, extension headers of any size, and any addresses and payload    *)
(* bytes.                                                                  *)
(*                                                                         *)
(* Each property follows from IInv: where the parser may be in the frame,  *)
(* what is known of a packet at each stage of its call, and the counters   *)
(* between the steps of a call.                                            *)
(***************************************************************************)
EXTENDS CapturePath, SequenceTheorems, TLAPS

\* Where the parser is: every byte read is in the frame, the IP header lies
\* behind the tags, and the payload behind the UDP header.
Walking ==
  /\ reach <= len
  /\ at \in {"idle", "ethernet"} => reach = 0
  /\ len = 0 \/ len \in FrameLens
  /\ at \in {"ipv4", "ipv6", "walk", "parsed", "claimed"} => ip_start >= 14
  /\ at = "ipv4" => ~is_ipv6
  /\ at = "ipv6" => is_ipv6
  /\ at = "walk" => is_ipv6 /\ offset >= ip_start + 40
  /\ at \in {"parsed", "claimed"} => offset >= ip_start + (IF is_ipv6 THEN 48 ELSE 28)

\* What is known of a claimed packet: the payload whose protocol was found is
\* the one behind offset.
Classifying ==
  /\ at = "claimed" => PayloadLen >= 2
  /\ at # "claimed" => protocol = "none"
  /\ protocol # "none" =>
       /\ payload \in Payload(PayloadLen, FirstBytes, SecondBytes)
       /\ protocol = ClassifyProtocol(payload)

\* Records are made of RTP packets, which are long enough.
Recording ==
  /\ record # "none" => protocol = "Rtp"
  /\ record # "too_short"

\* A frame is counted at most once, when its call returns, an RTP packet when
\* its record is made; a claimed packet is counted as such at once.
Counting ==
  /\ dispatched >= non_target + rtp + discarded + unknown
                    + (IF at = "idle" \/ record # "none" THEN 0 ELSE 1)
  /\ ip = rtp + discarded + unknown + (IF at = "claimed" /\ record = "none" THEN 1 ELSE 0)

\* The two lists of the session layer agree on an address.
Agree(a) == IsMicrosoftIp(a) <=> IsServerIp(a)

Addressed ==
  \/ ends = NoEnds
  \/ \E src, dst \in Ipv4Addresses \cup Ipv6Addresses : ends = Ends(src, dst)

IInv == TypeOK /\ Walking /\ Classifying /\ Recording /\ Counting /\ Addressed

-----------------------------------------------------------------------------
(* Lemmas about the operators.                                             *)

\* An extension header has at least 8 bytes, so the walk always goes forward.
LEMMA ExtSizeForward ==
  ASSUME NEW h \in Extension, NEW n \in Nat
  PROVE  ExtSize(h, n) \in Nat /\ ExtSize(h, n) >= 8
BY DEF ExtSize, Extension

\* What is read of an extension header is what was asked for, at most.
LEMMA ExtReadAsked ==
  ASSUME NEW h \in Extension
  PROVE  ExtRead[h] \in Nat /\ ExtAsked[h] \in Nat /\ ExtRead[h] <= ExtAsked[h]
BY DEF ExtRead, ExtAsked, Extension

\* What is read of the tags is what was asked for, at most.
LEMMA TagsAsked ==
  ASSUME NEW tags \in DOMAIN IpStart
  PROVE  /\ IpStart[tags] \in Nat /\ Asked[tags] \in Nat
         /\ 14 <= IpStart[tags] /\ IpStart[tags] <= Asked[tags]
BY DEF IpStart, Asked

\* The payload of a frame.
LEMMA PayloadLenType ==
  ASSUME TypeOK
  PROVE  PayloadLen \in Nat /\ (PayloadLen > 0 => PayloadLen = len - offset)
BY DEF PayloadLen, TypeOK, ParserTypeOK

LEMMA ClassifyType == ASSUME NEW p PROVE ClassifyProtocol(p) \in Protocols
BY DEF ClassifyProtocol, Protocols

\* The order of the tests makes a partition by first byte.
LEMMA ClassifyByFirstByte ==
  ASSUME NEW length \in Nat, length >= 2,
         NEW p \in Payload(length, FirstBytes, SecondBytes)
  PROVE  ClassifyProtocol(p) \in ByFirstByte(p)
<1>1. /\ p.len = length /\ p.b0 \in 0 .. 255 /\ p.b1 \in 0 .. 255 /\ CanShow(p)
  <2>1. p \in [len : {length}, b0 : FirstBytes, b1 : SecondBytes, has : Patterns] /\ CanShow(p)
    BY DEF Payload
  <2>2. p.len = length /\ p.b0 \in FirstBytes /\ p.b1 \in SecondBytes
    BY <2>1
  <2>3. FirstBytes \subseteq 0 .. 255 /\ SecondBytes \subseteq 0 .. 255
    BY CaptureAssumption
  <2> QED BY <2>1, <2>2, <2>3
<1>2. CASE p.b0 < 64
  BY <1>1, <1>2 DEF ClassifyProtocol, ByFirstByte, IsStun, IsDtls, IsQuic, IsRtcp, IsRtp, Version2
<1>3. CASE p.b0 \in 64 .. 127
  BY <1>1, <1>3
  DEF ClassifyProtocol, ByFirstByte, IsStun, IsDtls, IsQuic, CanShow
<1>4. CASE p.b0 \in 128 .. 191
  BY <1>1, <1>4
  DEF ClassifyProtocol, ByFirstByte, IsStun, IsDtls, IsQuic, IsRtcp, IsRtp, Version2
<1>5. CASE p.b0 > 191
  BY <1>1, <1>5 DEF ClassifyProtocol, ByFirstByte, IsStun, IsDtls, IsQuic
<1> QED BY <1>1, <1>2, <1>3, <1>4, <1>5

\* What the classifier takes for RTP has room for the fixed header.
LEMMA RtpLength == ASSUME NEW p, ClassifyProtocol(p) = "Rtp" PROVE p.len >= 12
BY DEF ClassifyProtocol, IsRtp

\* The two lists of servers contain the same addresses.
LEMMA ListsAgree ==
  ASSUME NEW a \in Ipv4Addresses \cup Ipv6Addresses
  PROVE  Agree(a)
<1>1. CASE a \in Ipv4Addresses
  <2>1. a \in Seq(Nat) /\ Len(a) = 4
    BY <1>1, CaptureAssumption
  <2>2. a[1] \in Nat /\ a[2] \in Nat
    BY <2>1, ElementOfSeq
  <2> DEFINE begin == SubSeq(a, 1, 2)
  <2>3. /\ begin \in Seq(Nat) /\ Len(begin) = 2
        /\ begin[1] = a[1] /\ begin[2] = a[2]
    BY <2>2, SubSeqProperties
  <2>4. begin = <<a[1], a[2]>>
    <3>1. <<a[1], a[2]>> \in Seq(Nat) /\ Len(<<a[1], a[2]>>) = 2
      BY <2>2
    <3>2. \A i \in 1 .. Len(begin) : begin[i] = <<a[1], a[2]>>[i]
      BY <2>3
    <3> HIDE DEF begin
    <3> QED BY <2>3, <3>1, <3>2, SeqEqual
  <2>5. a[1] = 52 /\ a[2] \in (112 .. 115) \cup (122 .. 123)
          <=> begin \in {<<52, 112>>, <<52, 113>>, <<52, 114>>, <<52, 115>>,
                        <<52, 122>>, <<52, 123>>}
    BY <2>2, <2>4
  <2> QED BY <2>1, <2>5 DEF Agree, IsMicrosoftIp, IsServerIp, IsIpv4
<1>2. CASE a \in Ipv6Addresses
  <2>1. Len(a) = 8
    BY <1>2, CaptureAssumption
  <2> QED BY <2>1 DEF Agree, IsMicrosoftIp, IsServerIp, IsIpv4
<1> QED BY <1>1, <1>2

\* So one end is the server, and the other the client.
LEMMA OtherEnd ==
  ASSUME NEW src \in Ipv4Addresses \cup Ipv6Addresses,
         NEW dst \in Ipv4Addresses \cup Ipv6Addresses
  PROVE  /\ IsServerIp(src) /\ ~IsServerIp(dst) => Ends(src, dst).client = "dst"
         /\ IsServerIp(dst) /\ ~IsServerIp(src) => Ends(src, dst).client = "src"
<1>1. Agree(src) /\ Agree(dst)
  BY ListsAgree
<1>2. Ends(src, dst).client = IF ClientIp(src, dst) = dst THEN "dst" ELSE "src"
  BY DEF Ends
<1> QED BY <1>1, <1>2 DEF Agree, ClientIp

-----------------------------------------------------------------------------
(* IInv is inductive.                                                      *)

LEMMA InitIInv == Init => IInv
<1> SUFFICES ASSUME Init PROVE IInv
  OBVIOUS
<1> USE DEF Init, Idle
<1>1. ParserTypeOK /\ CountersTypeOK
  BY DEF ParserTypeOK, CountersTypeOK, NextHeader
<1>2. is_ipv6 \in BOOLEAN /\ LocalsTypeOK
  BY DEF LocalsTypeOK, NoPayload, NoEnds
<1>3. Walking /\ Classifying /\ Recording /\ Counting /\ Addressed
  BY DEF Walking, Classifying, Recording, Counting, Addressed
<1> QED BY <1>1, <1>2, <1>3 DEF IInv, TypeOK

\* A call that returns leaves nothing behind.
LEMMA ReturnClean ==
  ASSUME Return
  PROVE  /\ at' = "idle" /\ record' = "none" /\ ends' = NoEnds
         /\ Walking' /\ Classifying' /\ Recording' /\ Addressed'
BY DEF Return, Walking, Classifying, Recording, Addressed

\* So nothing but the counters is left to show of a call that returns.
LEMMA ReturnIInv ==
  ASSUME Return, Counting',
         {dispatched', non_target', ip', rtp', discarded', unknown'} \subseteq Nat
  PROVE  IInv'
<1>1. ParserTypeOK' /\ CountersTypeOK'
  BY DEF Return, ParserTypeOK, CountersTypeOK, NextHeader
<1>2. is_ipv6' \in BOOLEAN /\ LocalsTypeOK'
  BY DEF Return, LocalsTypeOK, NoPayload, NoEnds
<1> QED BY <1>1, <1>2, ReturnClean DEF IInv, TypeOK

\* A step that leaves the packet alone.
LEMMA SameLocals ==
  ASSUME LocalsTypeOK, Addressed, UNCHANGED locals
  PROVE  LocalsTypeOK' /\ Addressed'
BY DEF LocalsTypeOK, Addressed, locals

LEMMA DispatchIInv == IInv /\ Dispatch => IInv'
<1> SUFFICES ASSUME IInv, Dispatch PROVE IInv'
  OBVIOUS
<1> USE DEF IInv, TypeOK, Dispatch, Receive
<1>1. len' \in Nat
  BY FrameAssumption
<1>2. protocol = "none" /\ record = "none"
  BY DEF Classifying, Recording
<1>3. ParserTypeOK' /\ CountersTypeOK'
  BY <1>1 DEF ParserTypeOK, CountersTypeOK
<1>4. is_ipv6' \in BOOLEAN /\ LocalsTypeOK' /\ Addressed'
  BY SameLocals
<1>5. Walking'
  BY <1>1 DEF Walking
<1>6. Classifying' /\ Recording'
  BY <1>2 DEF Classifying, Recording, locals
<1>7. Counting'
  BY <1>2 DEF Counting, CountersTypeOK, locals
<1> QED BY <1>3, <1>4, <1>5, <1>6, <1>7

\* A step of the parser.
LEMMA ParseIInv == IInv /\ ParseFrame => IInv'
<1> SUFFICES ASSUME IInv, ParseFrame PROVE IInv'
  OBVIOUS
<1> USE DEF IInv, TypeOK, ParseFrame
<1>1. /\ at \in {"ethernet", "ipv4", "ipv6", "walk"}
      /\ at' \in {"ethernet", "ipv4", "ipv6", "walk", "rejected", "parsed"}
      /\ len' = len
  BY DEF Parse, ParseEthernet, ParseIpv4, ParseIpv6, WalkChain, Reject, Unwrap
<1>2. protocol = "none" /\ record = "none"
  BY <1>1 DEF Classifying, Recording
<1>3. LocalsTypeOK' /\ Addressed'
  BY SameLocals
<1>4. CountersTypeOK' /\ Counting'
  BY <1>1, <1>2 DEF Counting, CountersTypeOK, counters, locals
<1>5. Classifying' /\ Recording'
  BY <1>1, <1>2 DEF Classifying, Recording, locals
<1>6. is_ipv6' \in BOOLEAN
  BY DEF Parse, ParseEthernet, ParseIpv4, ParseIpv6, WalkChain, Reject, Unwrap
<1>7. ParserTypeOK' /\ Walking'
  <2> USE DEF ParserTypeOK, Walking
  <2>1. CASE Reject
    BY <1>1, <2>1 DEF Reject
  <2>2. ASSUME NEW tags \in DOMAIN IpStart, NEW type \in {"ipv4", "ipv6"},
               at = "ethernet", len >= Asked[tags], Unwrap(tags, type)
        PROVE  ParserTypeOK' /\ Walking'
    <3>1. at' \in {"ipv4", "ipv6"} /\ (at' = "ipv6" <=> is_ipv6')
      BY <2>2 DEF Unwrap
    <3>2. ip_start' \in Nat /\ ip_start' >= 14 /\ reach' = ip_start' /\ reach' <= len
      BY <2>2, TagsAsked DEF Unwrap
    <3> QED BY <1>1, <2>2, <3>1, <3>2 DEF Unwrap
  <2>3. ASSUME NEW ihl \in 5 .. 15, at = "ipv4", len >= ip_start + 20,
               at' = "parsed", offset' = ip_start + ihl * 4 + 8, reach' = ip_start + 20,
               UNCHANGED <<len, is_ipv6, ip_start, next_hdr>>
        PROVE  ParserTypeOK' /\ Walking'
    BY <2>3
  <2>4. CASE ParseIpv6
    <3>1. CASE /\ at' = "walk" /\ next_hdr' \in NextHeader
               /\ len >= ip_start + 40
               /\ offset' = ip_start + 40 /\ reach' = ip_start + 40
               /\ UNCHANGED <<len, is_ipv6, ip_start>>
      <4>1. is_ipv6'
        BY <2>4, <3>1 DEF ParseIpv6
      <4>2. ip_start >= 14
        BY <2>4 DEF ParseIpv6
      <4> QED BY <3>1, <4>1, <4>2
    <3> QED BY <2>1, <2>4, <3>1 DEF ParseIpv6
  <2>5. CASE at = "walk" /\ next_hdr = "udp" /\ at' = "parsed" /\ offset' = offset + 8
             /\ UNCHANGED <<len, is_ipv6, ip_start, next_hdr, reach>>
    BY <2>5
  <2>6. ASSUME NEW n \in ExtLens, at = "walk", next_hdr \in Extension,
               ~(len < offset + ExtAsked[next_hdr]),
               offset' = offset + ExtSize(next_hdr, n), next_hdr' \in NextHeader,
               at' = IF offset' > len THEN "rejected" ELSE "walk",
               reach' = offset + ExtRead[next_hdr],
               UNCHANGED <<len, is_ipv6, ip_start>>
        PROVE  ParserTypeOK' /\ Walking'
    <3>1. n \in Nat
      BY FrameAssumption
    <3>2. ExtSize(next_hdr, n) \in Nat
      BY <2>6, <3>1, ExtSizeForward
    <3>3. reach' \in Nat /\ reach' <= len
      BY <2>6, ExtReadAsked
    <3>4. is_ipv6'
      BY <2>6
    <3>5. ip_start >= 14 /\ offset >= ip_start + 40
      BY <2>6
    <3> QED BY <2>6, <3>2, <3>3, <3>4, <3>5
  <2>7. CASE ParseEthernet
    BY <2>1, <2>2, <2>7 DEF ParseEthernet
  <2>8. CASE ParseIpv4
    BY <2>1, <2>3, <2>8 DEF ParseIpv4
  <2>9. CASE WalkChain
    BY <2>1, <2>5, <2>6, <2>9 DEF WalkChain
  <2> QED BY <2>4, <2>7, <2>8, <2>9 DEF Parse
<1> QED BY <1>3, <1>4, <1>5, <1>6, <1>7

\* What the session layer makes of two addresses.
LEMMA EndsType ==
  ASSUME NEW src, NEW dst
  PROVE  Ends(src, dst) \in [uplink : BOOLEAN, downlink : BOOLEAN, client : {"src", "dst", "none"}]
<1>1. ASSUME NEW a PROVE IsServerIp(a) \in BOOLEAN
  <2>1. ServerIpv6(a) \in BOOLEAN
    BY DEF ServerIpv6, Begins1ec
  <2>2. CASE IsIpv4(a)
    BY <2>2 DEF IsServerIp
  <2>3. CASE ~IsIpv4(a)
    BY <2>1, <2>3 DEF IsServerIp
  <2> QED BY <2>2, <2>3
<1>2. (IF ClientIp(src, dst) = dst THEN "dst" ELSE "src") \in {"src", "dst", "none"}
  OBVIOUS
<1> QED BY <1>1, <1>2 DEF Ends

\* A step that counts a frame and returns.
LEMMA CountUnparsedIInv == IInv /\ CountUnparsed => IInv'
<1> SUFFICES ASSUME IInv, CountUnparsed PROVE IInv'
  OBVIOUS
<1> USE DEF IInv, TypeOK, CountUnparsed
<1>1. protocol = "none" /\ record = "none"
  BY DEF Classifying, Recording
<1>2. CountersTypeOK'
  BY DEF CountersTypeOK
<1>3. Counting'
  BY <1>1, ReturnClean DEF Counting, CountersTypeOK
<1> QED BY <1>2, <1>3, ReturnIInv DEF CountersTypeOK

LEMMA RouteIInv == IInv /\ Route => IInv'
<1> SUFFICES ASSUME IInv, Route PROVE IInv'
  OBVIOUS
<1> USE DEF IInv, TypeOK
<1>1. at = "parsed" /\ protocol = "none" /\ record = "none" /\ dispatched' = dispatched
  BY DEF Route, Classifying, Recording
<1>2. PICK src, dst \in Ipv4Addresses \cup Ipv6Addresses :
        \/ ClaimForTeams(src, dst) /\ UNCHANGED non_target
        \/ ClaimForMeet /\ UNCHANGED non_target
        \/ CountUnclaimed
  BY DEF Route
<1>3. CASE (ClaimForMeet /\ UNCHANGED non_target) \/ CountUnclaimed
  <2>1. Return
    BY <1>3 DEF ClaimForMeet, CountUnclaimed
  <2>2. CountersTypeOK'
    BY <1>1, <1>3 DEF ClaimForMeet, CountUnclaimed, CountersTypeOK
  <2>3. Counting'
    BY <1>1, <1>3, <2>1, ReturnClean
    DEF ClaimForMeet, CountUnclaimed, Counting, CountersTypeOK
  <2> QED BY <2>1, <2>2, <2>3, ReturnIInv DEF CountersTypeOK
<1>4. CASE ClaimForTeams(src, dst) /\ UNCHANGED non_target /\ PayloadLen < 2
  <2>1. Return
    BY <1>4 DEF ClaimForTeams
  <2>2. CountersTypeOK'
    BY <1>1, <1>4 DEF ClaimForTeams, CountersTypeOK
  <2>3. Counting'
    BY <1>1, <1>4, <2>1, ReturnClean DEF ClaimForTeams, Counting, CountersTypeOK
  <2> QED BY <2>1, <2>2, <2>3, ReturnIInv DEF CountersTypeOK
<1>5. CASE ClaimForTeams(src, dst) /\ UNCHANGED non_target /\ ~(PayloadLen < 2)
  <2> USE DEF ClaimForTeams
  <2>1. /\ at' = "claimed" /\ ends' = Ends(src, dst) /\ ip' = ip + 1
        /\ UNCHANGED <<len, is_ipv6, ip_start, next_hdr, offset, reach, payload, protocol, record,
                      dispatched, non_target, rtp, discarded, unknown>>
    BY <1>1, <1>5
  <2> HIDE DEF ClaimForTeams
  <2>2. is_ipv6' \in BOOLEAN
    BY <2>1
  <2>3. ParserTypeOK' /\ CountersTypeOK'
    BY <2>1 DEF ParserTypeOK, CountersTypeOK
  <2>4. LocalsTypeOK'
    BY <2>1, EndsType DEF LocalsTypeOK
  <2>5. Walking'
    <3>1. is_ipv6' = is_ipv6
      BY <2>1
    <3> QED BY <1>1, <2>1, <3>1 DEF Walking
  <2>6. Classifying' /\ Recording'
    <3>1. PayloadLen' = PayloadLen /\ PayloadLen >= 2
      BY <1>5, <2>1, PayloadLenType DEF PayloadLen
    <3> QED BY <1>1, <2>1, <3>1 DEF Classifying, Recording
  <2>7. Counting'
    BY <1>1, <2>1 DEF Counting, CountersTypeOK
  <2>8. Addressed'
    BY <1>2, <2>1 DEF Addressed
  <2> QED BY <2>2, <2>3, <2>4, <2>5, <2>6, <2>7, <2>8
<1> QED BY <1>2, <1>3, <1>4, <1>5

LEMMA ClassifyIInv == IInv /\ ClassifyPayload => IInv'
<1> SUFFICES ASSUME IInv, ClassifyPayload PROVE IInv'
  OBVIOUS
<1> USE DEF IInv, TypeOK
<1>1. /\ at = "claimed" /\ protocol = "none"
      /\ payload' \in Payload(PayloadLen, FirstBytes, SecondBytes)
      /\ protocol' = ClassifyProtocol(payload')
      /\ UNCHANGED <<at, len, is_ipv6, ip_start, next_hdr, offset, reach, ends, record,
                    dispatched, non_target, ip, rtp, discarded, unknown>>
  BY DEF ClassifyPayload, parser, counters
<1>2. record = "none"
  BY <1>1 DEF Recording
<1>3. PayloadLen' = PayloadLen /\ PayloadLen \in Nat
  BY <1>1, PayloadLenType DEF PayloadLen
<1>4. is_ipv6' \in BOOLEAN /\ is_ipv6' = is_ipv6
  BY <1>1
<1>5. ParserTypeOK' /\ CountersTypeOK'
  BY <1>1 DEF ParserTypeOK, CountersTypeOK
<1>6. LocalsTypeOK'
  <2>1. payload'.len \in Nat
    BY <1>1, <1>3 DEF Payload
  <2>2. protocol' \in Protocols
    BY <1>1, ClassifyType
  <2> QED BY <1>1, <2>1, <2>2 DEF LocalsTypeOK
<1>7. Walking'
  BY <1>1, <1>4 DEF Walking
<1>8. Classifying' /\ Recording'
  BY <1>1, <1>2, <1>3 DEF Classifying, Recording
<1>9. Counting' /\ Addressed'
  BY <1>1 DEF Counting, Addressed
<1> QED BY <1>4, <1>5, <1>6, <1>7, <1>8, <1>9

LEMMA DiscardIInv == IInv /\ Discard => IInv'
<1> SUFFICES ASSUME IInv, Discard PROVE IInv'
  OBVIOUS
<1> USE DEF IInv, TypeOK, Discard
<1>1. record = "none"
  BY DEF Recording
<1>2. CountersTypeOK'
  BY DEF CountersTypeOK
<1>3. Counting'
  BY <1>1, ReturnClean DEF Counting, CountersTypeOK
<1> QED BY <1>2, <1>3, ReturnIInv DEF CountersTypeOK

\* The protocol test has made sure that the payload is long enough.
LEMMA RecordIInv == IInv /\ ParseRecord => IInv'
<1> SUFFICES ASSUME IInv, ParseRecord PROVE IInv'
  OBVIOUS
<1> USE DEF IInv, TypeOK
<1>1. /\ at = "claimed" /\ protocol = "Rtp" /\ record = "none" /\ rtp' = rtp + 1
      /\ UNCHANGED <<at, len, is_ipv6, ip_start, next_hdr, offset, payload, protocol, ends,
                    dispatched, non_target, ip, discarded, unknown>>
  BY DEF ParseRecord
<1>2. offset + 12 <= len
  <2>1. payload.len = PayloadLen /\ payload.len >= 12
    BY <1>1, RtpLength DEF Classifying, Payload
  <2> QED BY <2>1, PayloadLenType DEF ParserTypeOK
<1>3. record' \in {"parsed", "panicked"} /\ reach' = offset + 12
  BY <1>1, <1>2 DEF ParseRecord, ParserTypeOK
<1>4. is_ipv6' \in BOOLEAN /\ is_ipv6' = is_ipv6
  BY <1>1
<1>5. ParserTypeOK' /\ CountersTypeOK'
  BY <1>1, <1>3 DEF ParserTypeOK, CountersTypeOK
<1>6. LocalsTypeOK'
  BY <1>1, <1>3 DEF LocalsTypeOK
<1>7. Walking'
  BY <1>1, <1>2, <1>3, <1>4 DEF Walking
<1>8. Classifying' /\ Recording'
  <2>1. PayloadLen' = PayloadLen
    BY <1>1 DEF PayloadLen
  <2> QED BY <1>1, <1>3, <2>1 DEF Classifying, Recording
<1>9. Counting' /\ Addressed'
  BY <1>1, <1>3 DEF Counting, Addressed, CountersTypeOK
<1> QED BY <1>4, <1>5, <1>6, <1>7, <1>8, <1>9

LEMMA KeepIInv == IInv /\ Keep => IInv'
<1> SUFFICES ASSUME IInv, Keep PROVE IInv'
  OBVIOUS
<1> USE DEF IInv, TypeOK, Keep, counters
<1>1. record # "none" /\ at = "claimed"
  BY DEF Recording, Classifying
<1>2. CountersTypeOK'
  BY DEF CountersTypeOK
<1>3. Counting'
  BY <1>1, ReturnClean DEF Counting
<1> QED BY <1>2, <1>3, ReturnIInv DEF CountersTypeOK

LEMMA StutterIInv == IInv /\ UNCHANGED vars => IInv'
<1> SUFFICES ASSUME IInv, UNCHANGED vars PROVE IInv'
  OBVIOUS
<1> USE DEF IInv, TypeOK, vars, parser, counters, locals
<1>1. is_ipv6' = is_ipv6 /\ PayloadLen' = PayloadLen
  BY DEF PayloadLen
<1>2. ParserTypeOK' /\ CountersTypeOK' /\ LocalsTypeOK'
  BY DEF ParserTypeOK, CountersTypeOK, LocalsTypeOK
<1>3. Walking' /\ Classifying' /\ Recording' /\ Counting' /\ Addressed'
  BY <1>1 DEF Walking, Classifying, Recording, Counting, Addressed
<1> QED BY <1>1, <1>2, <1>3

LEMMA IInvHolds == Spec => []IInv
<1>1. ASSUME IInv, [Next]_vars PROVE IInv'
  BY <1>1, DispatchIInv, ParseIInv, CountUnparsedIInv, RouteIInv, ClassifyIInv, DiscardIInv,
     RecordIInv, KeepIInv, StutterIInv
  DEF Next, Handle, Finished
<1> QED BY InitIInv, <1>1, PTL DEF Spec

-----------------------------------------------------------------------------
(* The properties of the core, each from IInv.                             *)

(* Every variable keeps its type, and the walk over the extension headers  *)
(* of parse_frame stays inside the frame.                                  *)
THEOREM TypeCorrect == Spec => []TypeOK
<1>1. IInv => TypeOK
  BY DEF IInv
<1> QED BY <1>1, IInvHolds, PTL

(* parse_frame, the protocol test and parse_rtp_record index inside the    *)
(* frame, whatever lengths it declares.                                    *)
THEOREM ReadsStayInside == Spec => []ReadsInsideFrame
<1>1. IInv => ReadsInsideFrame
  BY DEF IInv, Walking, ReadsInsideFrame
<1> QED BY <1>1, IInvHolds, PTL

(* The UDP header that parse_rtp_record reads lies behind the IP header.   *)
THEOREM HeadersStayInOrder == Spec => []HeadersInOrder
<1>1. IInv => HeadersInOrder
  <2> SUFFICES ASSUME IInv PROVE HeadersInOrder
    OBVIOUS
  <2>1. ip_start \in Nat /\ offset \in Nat
    BY DEF IInv, TypeOK, ParserTypeOK
  <2> QED BY <2>1 DEF IInv, Walking, HeadersInOrder
<1> QED BY <1>1, IInvHolds, PTL

(* parse_rtp_record makes a record of every RTP packet.                    *)
THEOREM EveryRtpRecorded == Spec => []RtpAlwaysRecorded
<1>1. IInv => RtpAlwaysRecorded
  BY DEF IInv, Recording, RtpAlwaysRecorded
<1> QED BY <1>1, IInvHolds, PTL

(* The order of the tests in classify_protocol makes a partition of the    *)
(* payloads, whatever their bytes and their length.                        *)
THEOREM FirstByteAlwaysDecides == Spec => []FirstByteDecides
<1>1. IInv => FirstByteDecides
  <2> SUFFICES ASSUME IInv, protocol # "none" PROVE protocol \in ByFirstByte(payload)
    BY DEF FirstByteDecides
  <2>1. /\ at = "claimed" /\ PayloadLen >= 2 /\ PayloadLen \in Nat
        /\ payload \in Payload(PayloadLen, FirstBytes, SecondBytes)
        /\ protocol = ClassifyProtocol(payload)
    BY PayloadLenType DEF IInv, Classifying
  <2> QED BY <2>1, ClassifyByFirstByte
<1> QED BY <1>1, IInvHolds, PTL

(* dispatch_frame counts no frame twice, and handle_packet of Teams counts *)
(* each packet under one protocol.                                         *)
THEOREM NoFrameEverCountedTwice == Spec => []NoFrameCountedTwice
<1>1. IInv => NoFrameCountedTwice
  BY DEF IInv, TypeOK, CountersTypeOK, Counting, NoFrameCountedTwice
<1> QED BY <1>1, IInvHolds, PTL

(* is_microsoft_ip and is_server_ip agree on every address, so that of two *)
(* ends the one that is not the server is the client of the session.       *)
THEOREM ClientAlwaysOtherEnd == Spec => []ClientIsOtherEnd
<1>1. IInv => ClientIsOtherEnd
  <2> SUFFICES ASSUME IInv PROVE ClientIsOtherEnd
    OBVIOUS
  <2>1. CASE ends = NoEnds
    BY <2>1 DEF NoEnds, ClientIsOtherEnd
  <2>2. ASSUME NEW src \in Ipv4Addresses \cup Ipv6Addresses,
               NEW dst \in Ipv4Addresses \cup Ipv6Addresses,
               ends = Ends(src, dst)
        PROVE  ClientIsOtherEnd
    <3>1. (ends.uplink <=> IsServerIp(dst)) /\ (ends.downlink <=> IsServerIp(src))
      BY <2>2 DEF Ends
    <3> QED BY <2>2, <3>1, OtherEnd DEF ClientIsOtherEnd
  <2> QED BY <2>1, <2>2 DEF IInv, Addressed
<1> QED BY <1>1, IInvHolds, PTL

-----------------------------------------------------------------------------
(* The end of a call.                                                      *)

\* The steps to the end of the call, with every byte of the frame that the walk
\* has still before it taken for a turn of its loop.
CallWork ==
  CASE at = "ethernet" -> len + 7
    [] at = "ipv6" -> len + 6
    [] at = "ipv4" -> 5
    [] at = "walk" -> (len - offset) + 5
    [] at = "parsed" -> 4
    [] at = "claimed" -> IF record # "none" THEN 1 ELSE IF protocol # "none" THEN 2 ELSE 3
    [] at = "rejected" -> 1
    [] at = "idle" -> 0
WorkDone == CallWork \in Nat /\ CallWork' \in Nat /\ CallWork' < CallWork

\* Each step of parse_frame is one of them at least.
LEMMA ParseWork ==
  ASSUME IInv, ParseFrame
  PROVE  WorkDone /\ (WalkChain /\ at' = "walk" => offset' >= offset + 8)
<1>1. /\ at \in {"ethernet", "ipv4", "ipv6", "walk"} /\ len \in Nat /\ offset \in Nat
      /\ ip_start \in Nat /\ (at = "walk" => offset <= len) /\ len' = len
  BY DEF IInv, TypeOK, ParserTypeOK, ParseFrame, Parse, ParseEthernet, ParseIpv4, ParseIpv6,
         WalkChain, Reject, Unwrap
<1>2. CASE at' \in {"rejected", "parsed"}
  BY <1>1, <1>2 DEF CallWork, WorkDone
<1>3. CASE at' \notin {"rejected", "parsed"}
  <2>1. CASE at = "ethernet"
    <3>1. at' \in {"ipv4", "ipv6"}
      BY <1>3, <2>1 DEF ParseFrame, Parse, ParseEthernet, ParseIpv4, ParseIpv6, WalkChain, Reject,
                        Unwrap
    <3> QED BY <1>1, <2>1, <3>1 DEF CallWork, WorkDone, WalkChain
  <2>2. CASE at = "ipv4"
    BY <1>3, <2>2 DEF ParseFrame, Parse, ParseEthernet, ParseIpv4, ParseIpv6, WalkChain, Reject
  <2>3. CASE at = "ipv6"
    <3>1. at' = "walk" /\ len >= ip_start + 40 /\ offset' = ip_start + 40
      BY <1>3, <2>3 DEF ParseFrame, Parse, ParseEthernet, ParseIpv4, ParseIpv6, WalkChain, Reject
    <3> QED BY <1>1, <2>3, <3>1 DEF CallWork, WorkDone, WalkChain
  <2>4. CASE at = "walk"
    <3>1. PICK n \in ExtLens :
            /\ next_hdr \in Extension /\ offset' = offset + ExtSize(next_hdr, n)
            /\ at' = "walk" /\ ~(offset' > len)
      BY <1>3, <2>4 DEF ParseFrame, Parse, ParseEthernet, ParseIpv4, ParseIpv6, WalkChain, Reject
    <3>2. n \in Nat
      BY FrameAssumption
    <3>3. ExtSize(next_hdr, n) \in Nat /\ ExtSize(next_hdr, n) >= 8
      BY <3>1, <3>2, ExtSizeForward
    <3>4. offset' \in Nat /\ offset' >= offset + 8 /\ offset' <= len
      BY <1>1, <3>1, <3>3
    <3> QED BY <1>1, <2>4, <3>1, <3>4 DEF CallWork, WorkDone
  <2> QED BY <1>1, <2>1, <2>2, <2>3, <2>4
<1> QED BY <1>2, <1>3

\* So is each step of route and handle_packet.
LEMMA HandleWork ==
  ASSUME IInv, Handle
  PROVE  WorkDone
<1>1. CASE CountUnparsed
  BY <1>1 DEF CountUnparsed, Return, CallWork, WorkDone
<1>2. CASE Route
  <2>1. at = "parsed"
    BY <1>2 DEF Route
  <2>2. at' = "idle" \/ (at' = "claimed" /\ UNCHANGED <<record, protocol>>)
    BY <1>2 DEF Route, ClaimForTeams, ClaimForMeet, CountUnclaimed, Return
  <2> QED BY <2>1, <2>2 DEF CallWork, WorkDone
<1>3. CASE ClassifyPayload
  <2>1. /\ at = "claimed" /\ at' = "claimed" /\ protocol = "none" /\ record' = record
        /\ protocol' = ClassifyProtocol(payload')
    BY <1>3 DEF ClassifyPayload, parser
  <2>2. protocol' # "none"
    BY <2>1, ClassifyType DEF Protocols
  <2>3. record = "none"
    BY <2>1 DEF IInv, Recording
  <2> QED BY <2>1, <2>2, <2>3 DEF CallWork, WorkDone
<1>4. CASE Discard
  BY <1>4 DEF Discard, Return, CallWork, WorkDone
<1>5. CASE ParseRecord
  <2>1. at = "claimed" /\ at' = "claimed" /\ protocol = "Rtp" /\ record = "none" /\ record' # "none"
    BY <1>5 DEF ParseRecord
  <2> QED BY <2>1 DEF CallWork, WorkDone
<1>6. CASE Keep
  <2>1. at = "claimed"
    BY <1>6 DEF Keep, IInv, Recording, Classifying
  <2> QED BY <1>6, <2>1 DEF Keep, Return, CallWork, WorkDone
<1> QED BY <1>1, <1>2, <1>3, <1>4, <1>5, <1>6 DEF Handle

(* No call of dispatch_frame goes round in circles: every step of it leaves*)
(* less to do, and the loop over the extension headers moves on by 8 bytes *)
(* at least with every turn, so that a frame of n bytes takes n / 8 turns  *)
(* at most, whatever its headers say.                                      *)
CallProgress ==
  [][/\ ParseFrame \/ Handle => WorkDone
     /\ WalkChain /\ at' = "walk" => offset' >= offset + 8]_vars

(* From ParseWork and HandleWork: a call is over after CallWork steps.     *)
THEOREM CallMakesProgress == Spec => CallProgress
<1>1. ASSUME IInv, [Next]_vars
      PROVE  [/\ ParseFrame \/ Handle => WorkDone
              /\ WalkChain /\ at' = "walk" => offset' >= offset + 8]_vars
  <2>1. ParseFrame \/ Handle => WorkDone
    BY <1>1, ParseWork, HandleWork
  <2>2. ASSUME WalkChain, ~UNCHANGED vars PROVE ParseFrame
    <3>1. at = "walk"
      BY <2>2 DEF WalkChain
    <3>2. record = "none"
      BY <1>1, <3>1 DEF IInv, Recording, Classifying
    <3> QED
      BY <1>1, <2>2, <3>1, <3>2
         DEF Next, Finished, Dispatch, Receive, Handle, CountUnparsed, Route, ClassifyPayload,
             Discard, ParseRecord, Keep
  <2> QED
    BY <1>1, <2>1, <2>2, ParseWork
<1> QED BY <1>1, IInvHolds, PTL DEF CallProgress, Spec
=============================================================================
