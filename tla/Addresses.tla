------------------------------ MODULE Addresses ------------------------------
(***************************************************************************)
(* The address tests that decide who owns a packet and which of its ends   *)
(* is a server.  The classifiers of the platforms compare bytes            *)
(* (teams/ip_ranges.rs, google_meet/ip_ranges.rs); the session layer       *)
(* compares the beginning of the printed address, and keeps two copies of  *)
(* its list (is_microsoft_ip, MICROSOFT_SERVER_IPS).                       *)
(*                                                                         *)
(* An IPv4 address is a tuple of four octets, an IPv6 address a tuple of   *)
(* eight 16-bit groups.  Printed, a group is hexadecimal without leading   *)
(* zeros, so that a prefix that ends inside a group stands for all groups  *)
(* whose digits begin that way.                                            *)
(***************************************************************************)
EXTENDS Integers, Sequences

IsIpv4(ip) == Len(ip) = 4

\* is_microsoft_ipv4 and is_microsoft_ipv6 of the Teams classifier.
IsMicrosoftIpv4(ip) == ip[1] = 52 /\ ip[2] \in (112 .. 115) \cup (122 .. 123)

IsMicrosoftIpv6(ip) ==
  \/ /\ ip[1] = \h2603
     /\ \/ ip[2] = \h1063 /\ ip[3] \in 0 .. \h3ff
        \/ ip[2] \in {\h1027, \h1037, \h1047, \h1057} /\ ip[3] = 0
  \/ /\ ip[1] = \h2620 /\ ip[2] = \h01ec
     /\ ip[3] = 6 \/ ip[3] \in \h40 .. \h7f

IsMicrosoft(ip) == IF IsIpv4(ip) THEN IsMicrosoftIpv4(ip) ELSE IsMicrosoftIpv6(ip)

\* is_google_ipv4 and is_google_ipv6 of the Google Meet classifier.
IsGoogleIpv4(ip) ==
  \/ SubSeq(ip, 1, 3) \in {<<74, 125, 250>>, <<142, 250, 82>>}
  \/ ip = <<74, 125, 247, 128>>

IsGoogleIpv6(ip) ==
  /\ SubSeq(ip, 1, 3) = <<\h2001, \h4860, \h4864>>
  /\ \/ ip[4] \in {5, 6}
     \/ SubSeq(ip, 4, 8) = <<4, \h8000, 0, 0, 0>>

IsGoogle(ip) == IF IsIpv4(ip) THEN IsGoogleIpv4(ip) ELSE IsGoogleIpv6(ip)

-----------------------------------------------------------------------------
(* The session layer's tests of printed addresses.                         *)

\* "1ec" begins the digits of one group of three and of sixteen of four.
Begins1ec(group) == group = \h1ec \/ group \in \h1ec0 .. \h1ecf

\* The IPv6 prefixes, which are the same in both lists.
ServerIpv6(ip) ==
  \/ ip[1] = \h2603 /\ ip[2] \in {\h1010, \h1027, \h1037, \h1047, \h1057}
  \/ ip[1] = \h2620 /\ Begins1ec(ip[2])

\* Mutant: one of the two lists has lost a range of the other.
IsMicrosoftIpShort(ip) ==
  IF IsIpv4(ip) THEN ip[1] = 52 /\ ip[2] \in 112 .. 115 ELSE ServerIpv6(ip)

\* is_microsoft_ip, which finds the client of a record ...
IsMicrosoftIp(ip) ==
  IF IsIpv4(ip) THEN ip[1] = 52 /\ ip[2] \in (112 .. 115) \cup (122 .. 123) ELSE ServerIpv6(ip)

\* ... and is_server_ip, which finds its direction: "52.112." up to "52.123.".
IsServerIp(ip) ==
  IF IsIpv4(ip)
  THEN SubSeq(ip, 1, 2) \in {<<52, 112>>, <<52, 113>>, <<52, 114>>, <<52, 115>>,
                             <<52, 122>>, <<52, 123>>}
  ELSE ServerIpv6(ip)

\* get_client_ip: the end whose address is not Microsoft's, the source if neither is.
ClientIp(src, dst) == IF IsMicrosoftIp(src) THEN dst ELSE src
=============================================================================
