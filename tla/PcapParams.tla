----------------------------- MODULE PcapParams -----------------------------
(***************************************************************************)
(* The parameters of the PCAP sink, which its owner shares.                *)
(***************************************************************************)
EXTENDS Integers

CONSTANTS
  PacketCapacity,  \* slots of the packet channel
  PcapMayFail,     \* TRUE if File::create may fail
  WritesMayFail    \* TRUE if write_packet may fail

ASSUME PcapAssumption ==
  PacketCapacity \in Nat \ {0} /\ {PcapMayFail, WritesMayFail} \subseteq BOOLEAN
=============================================================================
