-------------------------------- MODULE Demux --------------------------------
(***************************************************************************)
(* capture/protocol.rs: which protocol a UDP payload belongs to.  Six      *)
(* tests of its first bytes, which overlap, run in a fixed order.          *)
(*                                                                         *)
(* A payload is its length, its first two bytes and the set of the         *)
(* patterns that its further bytes show:                                   *)
(*   dtls     bytes 1-2 are a DTLS version                                 *)
(*   version  bytes 1-4 are QUIC version 0 or a GREASE version             *)
(*   channel  bytes 2-3 are the length of the rest, up to 3 bytes less     *)
(*   cookie   bytes 4-7 are the magic cookie of STUN                       *)
(***************************************************************************)
EXTENDS Integers

Protocols == {"Unknown", "Rtp", "Rtcp", "Stun", "Dtls", "Quic"}

\* The sets of patterns that occur, each with the bytes it needs.
Patterns == {{}, {"dtls"}, {"version"}, {"channel"}, {"cookie"}, {"dtls", "cookie"}}
CanShow(p) ==
  /\ "dtls" \in p.has => p.len >= 3 /\ p.b1 = \hfe
  /\ "version" \in p.has => p.len >= 5 /\ (p.b1 = 0 \/ p.b1 % 16 = \ha)
  /\ "channel" \in p.has => p.len >= 4
  /\ "cookie" \in p.has => p.len >= 8

Payload(length, firsts, seconds) ==
  {p \in [len : {length}, b0 : firsts, b1 : seconds, has : Patterns] : CanShow(p)}

IsStun(p) ==
  \/ p.len >= 20 /\ p.b0 < 64 /\ "cookie" \in p.has
  \/ p.len >= 4 /\ p.b0 \in 64 .. 127 /\ "channel" \in p.has

IsDtls(p) == p.len >= 3 /\ p.b0 \in 20 .. 23 /\ "dtls" \in p.has

IsQuic(p) ==
  /\ p.len > 0
  /\ p.b0 \in 192 .. 255 \/ p.b0 \in 64 .. 127
       \/ (p.len >= 5 /\ p.b0 >= 128 /\ "version" \in p.has)

\* Version 2 in the top two bits.
Version2(p) == p.b0 \div 64 = 2

IsRtcp(p) == p.len >= 2 /\ Version2(p) /\ p.b1 \in 200 .. 207

\* Mutant: the length of the fixed header is not asked for.
IsRtpShort(p) == p.len >= 2 /\ Version2(p)

IsRtp(p) == p.len >= 12 /\ Version2(p)

\* Mutant: QUIC is tested before STUN.
ClassifyQuicFirst(p) ==
  IF IsQuic(p) THEN "Quic"
  ELSE IF IsStun(p) THEN "Stun"
  ELSE IF IsDtls(p) THEN "Dtls"
  ELSE IF IsRtcp(p) THEN "Rtcp"
  ELSE IF IsRtp(p) THEN "Rtp" ELSE "Unknown"

\* classify_protocol: the first test that succeeds.
ClassifyProtocol(p) ==
  IF IsStun(p) THEN "Stun"
  ELSE IF IsDtls(p) THEN "Dtls"
  ELSE IF IsQuic(p) THEN "Quic"
  ELSE IF IsRtcp(p) THEN "Rtcp"
  ELSE IF IsRtp(p) THEN "Rtp" ELSE "Unknown"
=============================================================================
