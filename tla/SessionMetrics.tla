---------------------------- MODULE SessionMetrics ----------------------------
(***************************************************************************)
(* The metrics of one session (sessions/mod.rs): every record goes through *)
(* NetworkMetrics and MediaMetrics, and a flush exports and resets both,   *)
(* if NetworkMetrics has data.                                             *)
(*                                                                         *)
(* Packet i of a stream belongs to frame i \div PerFrame; the RTP          *)
(* timestamps of a stream grow by FrameTicks per frame and wrap.  Any      *)
(* packet may be small (up to 400 bytes, counted as audio) or large, as    *)
(* Sizes allows.                                                           *)
(***************************************************************************)
EXTENDS NetworkMetrics, MediaMetrics

CONSTANTS
  Sizes,      \* stream -> which of small (FALSE) and large (TRUE) its packets may be
  PerFrame,   \* packets per frame
  FrameTicks  \* clock ticks per frame

ASSUME SessionMetricsAssumption ==
  Sizes \in [Ssrcs -> SUBSET BOOLEAN] /\ PerFrame \in Nat \ {0} /\ FrameTicks \in Nat \ {0}

VARIABLE inBin  \* (history) the packets of the open bin: [ssrc, index, arrival, video]

vars == <<network, media, inBin>>

Ticks(i) == (i \div PerFrame) * FrameTicks
Timestamp(i) == Ticks(i) % TsMod
Downlink(s) == "src" \in Servers[s]

\* Arrival times: the number of packets so far.
Now == MapThenSumSet(LAMBDA s : Cardinality(received[s]), Ssrcs)

Init == NetworkInit /\ MediaInit /\ inBin = {}

\* The end of process_record; video: the packet is large.
ProcessRecord(s, i, video) ==
  /\ ProcessPacket(s, i)
  /\ CountPacket(s, Downlink(s), video, Timestamp(i), Now)
  /\ inBin' = inBin \cup {[ssrc |-> s, index |-> i, arrival |-> Now, video |-> video]}

\* flush_session.
Flush ==
  /\ HasData
  /\ ResetBin /\ ResetMedia
  /\ inBin' = {}

Next ==
  \/ \E s \in Ssrcs : \E i \in Index[s], video \in Sizes[s] : ProcessRecord(s, i, video)
  \/ Flush

Spec == Init /\ [][Next]_vars

-----------------------------------------------------------------------------
(* Every variable holds a value of its type; no loss is negative.          *)
TypeOK ==
  /\ NetworkTypeOK
  /\ DOMAIN streams \subseteq Ssrcs /\ all_ssrcs \subseteq Ssrcs
  /\ {audio_bytes, video_bytes} \subseteq Nat
  /\ \A s \in DOMAIN streams : DOMAIN streams[s].frames \subseteq 0 .. TsMod - 1

\* The packets of the bin that come from a server.
FromServer == {p \in inBin : Downlink(p.ssrc)}

\* The large packets of stream s.
VideoPackets(s) == {p \in inBin : p.ssrc = s /\ p.video}

(* The media fields of a bin are about the packets of that bin, small and  *)
(* large ones of a stream told apart: a stream that lives on from an       *)
(* earlier bin brings no frame and no byte along, and a frame arrives with *)
(* the first of its large packets.                                         *)
MediaOfBin ==
  /\ all_ssrcs = {p.ssrc : p \in FromServer}
  /\ audio_bytes = Cardinality({p \in FromServer : ~p.video})
  /\ video_bytes = Cardinality({p \in FromServer : p.video})
  /\ \A p \in FromServer : p.video => p.ssrc \in DOMAIN streams
  /\ \A s \in DOMAIN streams :
       /\ streams[s].total_bytes = Cardinality(VideoPackets(s))
       /\ DOMAIN streams[s].frames = {Timestamp(p.index) : p \in VideoPackets(s)}
       /\ \A t \in DOMAIN streams[s].frames :
            streams[s].frames[t] =
              Min({p.arrival : p \in {q \in VideoPackets(s) : Timestamp(q.index) = t}})

(* The numbers of streams add up: the subtraction that finds the audio     *)
(* streams never saturates.                                                *)
StreamsAddUp == ActiveAudio + Cardinality(VideoStreams) = Cardinality(all_ssrcs)

\* The frames of stream s in the bin, as clock ticks that never wrap.
Played(s) == {Ticks(p.index) : p \in VideoPackets(s)}

\* The ticks of P on the same turn of the timestamp circle as the oldest.
FirstTurn(P) == {t \in P : t \div TsMod = Min(P) \div TsMod}

(* The span that rates are divided by is the play time from the oldest to  *)
(* the newest frame of the bin, in whatever order frames arrived, as long  *)
(* as the timestamps do not wrap within the bin.  When they do, sorting    *)
(* puts the frames after the wrap first, and the span is what is left of   *)
(* the circle without the one gap between two frames that holds the wrap.  *)
SpanOfBin ==
  \A s \in VideoStreams :
    LET P == Played(s)
    IN  Max(P) - Min(P) < TsMod =>
          Span(DOMAIN streams[s].frames) =
            IF FirstTurn(P) = P
            THEN Max(P) - Min(P)
            ELSE TsMod - (Min(P \ FirstTurn(P)) - Max(FirstTurn(P)))
=============================================================================
