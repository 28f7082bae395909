----------------------------- MODULE FrameParser -----------------------------
(***************************************************************************)
(* parse_frame of capture/frame.rs, as the steps of a capture core: VLAN   *)
(* tags, the IPv4 header, or the IPv6 header and its chain of extension    *)
(* headers, up to the UDP payload.                                         *)
(*                                                                         *)
(* A frame is its length.  What its bytes say is chosen when they are      *)
(* read, which covers every frame: no byte is read twice.                  *)
(***************************************************************************)
EXTENDS Integers

CONSTANTS
  FrameLens,  \* lengths of frames
  ExtLens     \* what the length byte of an extension header may say

ASSUME FrameAssumption == FrameLens \subseteq Nat /\ ExtLens \subseteq Nat

VARIABLES
  at,        \* where the core is in the frame
  len,       \* length of the frame
  is_ipv6,
  ip_start,  \* where the IP header begins
  next_hdr,  \* kind of the next header of the chain
  offset,    \* where that header begins, then udp_payload_offset
  reach      \* end of the bytes read so far (history)

parser == <<at, len, is_ipv6, ip_start, next_hdr, offset, reach>>

\* Mutant: the inner tag of a doubly tagged frame is not asked for.
AskedOuter == [untagged |-> 14, dot1q |-> 18, qinq |-> 18, qinq_dot1q |-> 18]

\* Where the IP header begins after the tags of a frame, and the length that
\* the code asks for before it reads them.
IpStart == [untagged |-> 14, dot1q |-> 18, qinq |-> 18, qinq_dot1q |-> 22]
Asked == [untagged |-> 14, dot1q |-> 18, qinq |-> 22, qinq_dot1q |-> 22]

Extension == {"options", "fragment", "ah"}
NextHeader == Extension \cup {"udp", "icmpv6", "other"}

\* How many bytes of an extension header must be there, and how many are read.
ExtAsked == [options |-> 2, fragment |-> 8, ah |-> 2]
ExtRead == [options |-> 2, fragment |-> 1, ah |-> 2]

\* Mutant: the first 8 bytes of an extension header are not added.
ExtSizeShort(h, n) == CASE h = "options" -> n * 8 [] h = "fragment" -> 8 [] h = "ah" -> n * 4

\* The size of an extension header whose length byte is n.
ExtSize(h, n) == CASE h = "options" -> (n + 1) * 8 [] h = "fragment" -> 8 [] h = "ah" -> (n + 2) * 4

\* No frame in hand.
Idle ==
  /\ at = "idle" /\ len = 0 /\ is_ipv6 = FALSE /\ ip_start = 0
  /\ next_hdr = "other" /\ offset = 0 /\ reach = 0

Receive ==
  /\ at = "idle"
  /\ at' = "ethernet" /\ len' \in FrameLens
  /\ UNCHANGED <<is_ipv6, ip_start, next_hdr, offset, reach>>

\* parse_frame returns None.
Reject == at' = "rejected" /\ UNCHANGED <<len, is_ipv6, ip_start, next_hdr, offset, reach>>

Unwrap(tags, type) ==
  /\ at' = type /\ is_ipv6' = (type = "ipv6")
  /\ ip_start' = IpStart[tags] /\ reach' = IpStart[tags]
  /\ UNCHANGED <<len, next_hdr, offset>>

ParseEthernet ==
  /\ at = "ethernet"
  /\ \/ len < 14 /\ Reject
     \/ \E tags \in DOMAIN IpStart :
          /\ len >= 14
          /\ \/ Reject  \* too short for the tags, or neither IPv4 nor IPv6
             \/ len >= Asked[tags] /\ \E type \in {"ipv4", "ipv6"} : Unwrap(tags, type)

\* Mutant: a header length below 20 is believed.
ParseIpv4Short ==
  /\ at = "ipv4"
  /\ \/ Reject
     \/ \E ihl \in 0 .. 15 :
          /\ len >= ip_start + 20
          /\ at' = "parsed" /\ offset' = ip_start + ihl * 4 + 8 /\ reach' = ip_start + 20
          /\ UNCHANGED <<len, is_ipv6, ip_start, next_hdr>>

\* ihl is the header's length in words; the payload may begin behind the end.
ParseIpv4 ==
  /\ at = "ipv4"
  /\ \/ Reject  \* too short, not UDP, or an impossible header length
     \/ \E ihl \in 5 .. 15 :
          /\ len >= ip_start + 20
          /\ at' = "parsed" /\ offset' = ip_start + ihl * 4 + 8 /\ reach' = ip_start + 20
          /\ UNCHANGED <<len, is_ipv6, ip_start, next_hdr>>

ParseIpv6 ==
  /\ at = "ipv6"
  /\ \/ len < ip_start + 40 /\ Reject
     \/ /\ len >= ip_start + 40
        /\ at' = "walk" /\ next_hdr' \in NextHeader
        /\ offset' = ip_start + 40 /\ reach' = ip_start + 40
        /\ UNCHANGED <<len, is_ipv6, ip_start>>

\* Mutant: nobody asks whether an extension header ends inside the frame.
WalkChainUnchecked ==
  /\ at = "walk"
  /\ \/ /\ next_hdr = "udp"
        /\ at' = "parsed" /\ offset' = offset + 8
        /\ UNCHANGED <<len, is_ipv6, ip_start, next_hdr, reach>>
     \/ next_hdr \in {"icmpv6", "other"} /\ Reject
     \/ /\ next_hdr \in Extension
        /\ IF len < offset + ExtAsked[next_hdr]
           THEN Reject
           ELSE /\ \E n \in ExtLens : offset' = offset + ExtSize(next_hdr, n)
                /\ next_hdr' \in NextHeader
                /\ at' = "walk"
                /\ reach' = offset + ExtRead[next_hdr]
                /\ UNCHANGED <<len, is_ipv6, ip_start>>

\* One turn of the loop over the chain.
WalkChain ==
  /\ at = "walk"
  /\ \/ /\ next_hdr = "udp"
        /\ at' = "parsed" /\ offset' = offset + 8
        /\ UNCHANGED <<len, is_ipv6, ip_start, next_hdr, reach>>
     \/ next_hdr \in {"icmpv6", "other"} /\ Reject
     \/ /\ next_hdr \in Extension
        /\ IF len < offset + ExtAsked[next_hdr]
           THEN Reject
           ELSE /\ \E n \in ExtLens : offset' = offset + ExtSize(next_hdr, n)
                /\ next_hdr' \in NextHeader
                /\ at' = IF offset' > len THEN "rejected" ELSE "walk"
                /\ reach' = offset + ExtRead[next_hdr]
                /\ UNCHANGED <<len, is_ipv6, ip_start>>

Parse == ParseEthernet \/ ParseIpv4 \/ ParseIpv6 \/ WalkChain

\* The UDP payload, empty if the frame ends before it.
PayloadLen == IF offset <= len THEN len - offset ELSE 0
=============================================================================
