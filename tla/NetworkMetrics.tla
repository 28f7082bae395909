---------------------------- MODULE NetworkMetrics ----------------------------
(***************************************************************************)
(* NetworkMetrics of platforms/teams/sessions/network_metrics.rs: packets  *)
(* and packet loss of one session, per direction and bin, from the RTP     *)
(* sequence numbers of its streams.  A bin is exported and reset while the *)
(* last sequence number of every stream lives on.                          *)
(*                                                                         *)
(* Packets of a stream carry an index that never wraps, of which the       *)
(* record keeps the low bits.  The record sink upstream removes duplicates *)
(* and what is too late; newer packets jump by less than half the circle.  *)
(* A packet's bytes are not modelled: every packet has some.               *)
(***************************************************************************)
EXTENDS Integers, FiniteSets, FiniteSetsExt

CONSTANTS
  SeqMod,    \* number of sequence numbers
  Ssrcs,     \* the streams
  Servers,   \* stream -> which of "src" and "dst" are Microsoft addresses
  Index,     \* stream -> the indices of its packets
  Reach      \* how far a packet may be from the newest of its stream

ASSUME NetworkAssumption ==
  /\ SeqMod \in Nat \ {0} /\ SeqMod % 2 = 0
  /\ IsFiniteSet(Ssrcs) /\ Servers \in [Ssrcs -> SUBSET {"src", "dst"}]
  /\ Index \in [Ssrcs -> SUBSET Int] /\ Reach \in Nat /\ 2 * Reach < SeqMod

VARIABLES
  seq_state,  \* SSRC -> last_seq, for the streams seen
  bin,        \* direction -> packets and losses of the open bin
  exported,   \* direction -> sums of the bins exported (history)
  received,   \* stream -> indices of its packets so far (history)
  first,      \* stream -> index of its first packet (history)
  overtaken   \* stream -> indices that came after a newer one (history)

history == <<received, first, overtaken>>
network == <<seq_state, bin, exported, history>>

Direction == {"uplink", "downlink"}
NoTraffic == [d \in Direction |-> [packets |-> 0, lost |-> 0]]
Seq16(i) == i % SeqMod

\* r.seq_num.wrapping_sub(last_seq) as i16
Diff(s, last) ==
  LET d == (s - last) % SeqMod
  IN  IF d < SeqMod \div 2 THEN d ELSE d - SeqMod

NetworkInit ==
  /\ seq_state = [s \in {} |-> 0]
  /\ bin = NoTraffic /\ exported = NoTraffic
  /\ received = [s \in Ssrcs |-> {}]
  /\ first = [s \in {} |-> 0]
  /\ overtaken = [s \in Ssrcs |-> {}]

-----------------------------------------------------------------------------
\* Mutant: the test for a gap is left out.
GapUnchecked(s, q) == IF s \in DOMAIN seq_state THEN Diff(q, seq_state[s]) - 1 ELSE 0

\* What packet q of stream s adds to the losses.
LostThisPacket(s, q) ==
  IF s \in DOMAIN seq_state /\ Diff(q, seq_state[s]) > 1
  THEN Diff(q, seq_state[s]) - 1
  ELSE 0

\* seq_state after packet q of stream s: it never moves back.
LastSeq(s, q) ==
  [t \in DOMAIN seq_state \cup {s} |->
     IF t = s /\ (t \in DOMAIN seq_state => Diff(q, seq_state[t]) > 0) THEN q ELSE seq_state[t]]

\* Mutant: the packets of a stream from a server count as uplink.
SwappedDirection(s) == IF "src" \in Servers[s] THEN "uplink" ELSE "downlink"

\* A packet to a server is uplink, also when it comes from one.
DirectionOf(s) == IF "dst" \in Servers[s] THEN "uplink" ELSE "downlink"

\* The highest index of a stream so far.
Newest(s) == Max(received[s])

\* The network lets packet i of stream s through next.
CanArrive(s, i) ==
  /\ i \notin received[s]
  /\ received[s] # {} => Newest(s) - Reach <= i /\ i <= Newest(s) + Reach

\* process_packet; packets without a server side are skipped.
ProcessPacket(s, i) ==
  /\ CanArrive(s, i) /\ Servers[s] # {}
  /\ bin' = [bin EXCEPT ![DirectionOf(s)] =
       [packets |-> @.packets + 1, lost |-> @.lost + LostThisPacket(s, Seq16(i))]]
  /\ seq_state' = LastSeq(s, Seq16(i))
  /\ received' = [received EXCEPT ![s] = @ \cup {i}]
  /\ first' = [t \in DOMAIN first \cup {s} |-> IF t \in DOMAIN first THEN first[t] ELSE i]
  /\ overtaken' = IF received[s] # {} /\ i < Newest(s)
                  THEN [overtaken EXCEPT ![s] = @ \cup {i}] ELSE overtaken
  /\ UNCHANGED exported

HasData == \E d \in Direction : bin[d].packets > 0

\* Mutant: the reset takes the last sequence numbers along.
ResetBinForgetful ==
  /\ HasData
  /\ exported' = [d \in Direction |-> [packets |-> exported[d].packets + bin[d].packets,
                                       lost |-> exported[d].lost + bin[d].lost]]
  /\ bin' = NoTraffic
  /\ seq_state' = [s \in {} |-> 0]
  /\ UNCHANGED history

\* The session's flush: the fields are exported, then reset_bin.
ResetBin ==
  /\ HasData
  /\ exported' = [d \in Direction |-> [packets |-> exported[d].packets + bin[d].packets,
                                       lost |-> exported[d].lost + bin[d].lost]]
  /\ bin' = NoTraffic
  /\ UNCHANGED <<seq_state, history>>

-----------------------------------------------------------------------------
NetworkTypeOK ==
  /\ DOMAIN seq_state \subseteq Ssrcs /\ \A s \in DOMAIN seq_state : seq_state[s] \in 0 .. SeqMod - 1
  /\ \A d \in Direction :
       {bin[d].packets, bin[d].lost, exported[d].packets, exported[d].lost} \subseteq Nat
  /\ received \in [Ssrcs -> SUBSET Int] /\ overtaken \in [Ssrcs -> SUBSET Int]
  /\ DOMAIN first = DOMAIN seq_state

\* The streams that go in a direction: to a server, or only from one.
StreamsOf(d) == {s \in DOMAIN first : ("dst" \in Servers[s]) <=> (d = "uplink")}
Missing(s) == (first[s] .. Newest(s)) \ received[s]
Late(s) == {i \in overtaken[s] : i > first[s]}

(* Across bins and wraps, the losses exported and counted so far for a     *)
(* direction are the packets its streams still miss, plus those that came  *)
(* late: a gap is counted once, when it opens, and stays counted when a    *)
(* late packet closes it.                                                  *)
LossIsGapsOpened ==
  \A d \in Direction :
    exported[d].lost + bin[d].lost =
      MapThenSumSet(LAMBDA s : Cardinality(Missing(s)) + Cardinality(Late(s)), StreamsOf(d))

(* Every packet with a server side counts in one direction and one bin.    *)
PacketsCountedOnce ==
  \A d \in Direction :
    exported[d].packets + bin[d].packets =
      MapThenSumSet(LAMBDA s : Cardinality(received[s]), StreamsOf(d))
=============================================================================
