----------------------------- MODULE MediaMetrics -----------------------------
(***************************************************************************)
(* MediaMetrics of platforms/teams/sessions/media_metrics.rs: the streams  *)
(* and video frames that a session's client receives in a bin.  A frame is *)
(* an RTP timestamp; a stream counts as video if two neighbouring frames   *)
(* of the bin lie as far apart as video frames do.                         *)
(*                                                                         *)
(* Bytes are counted in packets.  Of the statistics the span is modelled,  *)
(* by which frame rate and bit rate are divided; means are not.            *)
(***************************************************************************)
EXTENDS Integers, FiniteSets, FiniteSetsExt

CONSTANTS
  TsMod,          \* number of RTP timestamps
  MinGap, MaxGap  \* between two neighbouring frames of a video

ASSUME MediaAssumption ==
  TsMod \in Nat \ {0} /\ MinGap \in Nat \ {0} /\ MaxGap \in Nat /\ MinGap <= MaxGap

VARIABLES
  streams,     \* SSRC -> its frames (timestamp -> first arrival) and bytes
  all_ssrcs,   \* SSRCs of the open bin
  audio_bytes, video_bytes

media == <<streams, all_ssrcs, audio_bytes, video_bytes>>

NoFrames == [t \in {} |-> 0]
StreamState == [frames |-> NoFrames, total_bytes |-> 0]

MediaInit ==
  /\ streams = [s \in {} |-> StreamState]
  /\ all_ssrcs = {} /\ audio_bytes = 0 /\ video_bytes = 0

\* entry(key).or_insert(value)
WithEntry(table, key, value) ==
  [k \in DOMAIN table \cup {key} |-> IF k \in DOMAIN table THEN table[k] ELSE value]

\* The stream's entry, and in it the frame's unless there is one.
CountFrame(s, timestamp, now) ==
  streams' = [WithEntry(streams, s, StreamState) EXCEPT ![s] =
                [frames |-> WithEntry(@.frames, timestamp, now),
                 total_bytes |-> @.total_bytes + 1]]

\* Mutant: only audio streams are remembered.
CountPacketAudioOnly(s, downlink, video, timestamp, now) ==
  IF ~downlink
  THEN UNCHANGED media
  ELSE IF video
       THEN video_bytes' = video_bytes + 1 /\ CountFrame(s, timestamp, now)
            /\ UNCHANGED <<all_ssrcs, audio_bytes>>
       ELSE audio_bytes' = audio_bytes + 1 /\ all_ssrcs' = all_ssrcs \cup {s}
            /\ UNCHANGED <<streams, video_bytes>>

\* process_packet: only what comes from a server counts, and by its size it
\* is audio or video.
CountPacket(s, downlink, video, timestamp, now) ==
  IF ~downlink
  THEN UNCHANGED media
  ELSE /\ all_ssrcs' = all_ssrcs \cup {s}
       /\ IF video
          THEN video_bytes' = video_bytes + 1 /\ CountFrame(s, timestamp, now)
               /\ UNCHANGED audio_bytes
          ELSE audio_bytes' = audio_bytes + 1 /\ UNCHANGED <<streams, video_bytes>>

\* Mutant: the frames of the streams stay.
ResetMediaShallow ==
  /\ streams' = [s \in DOMAIN streams |-> [streams[s] EXCEPT !.total_bytes = 0]]
  /\ all_ssrcs' = {} /\ audio_bytes' = 0 /\ video_bytes' = 0

\* reset_bin: the streams stay, and lose what they have.
ResetMedia ==
  /\ streams' = [s \in DOMAIN streams |-> StreamState]
  /\ all_ssrcs' = {} /\ audio_bytes' = 0 /\ video_bytes' = 0

-----------------------------------------------------------------------------
(* to_influx_fields, from the timestamps of a stream sorted as numbers.    *)

Neighbours(T) == {p \in T \X T : p[1] < p[2] /\ ~\E t \in T : p[1] < t /\ t < p[2]}

\* Mutant: the span begins at the second frame.
SpanFromSecond(T) == Max(T) - Min(T \ {Min(T)})

Span(T) == Max(T) - Min(T)

IsVideo(s) ==
  LET T == DOMAIN streams[s].frames
  IN  Cardinality(T) >= 2 /\ \E p \in Neighbours(T) : p[2] - p[1] \in MinGap .. MaxGap

VideoStreams == {s \in DOMAIN streams : IsVideo(s)}

\* active_audio_streams: a subtraction that saturates.
ActiveAudio ==
  IF Cardinality(VideoStreams) <= Cardinality(all_ssrcs)
  THEN Cardinality(all_ssrcs) - Cardinality(VideoStreams)
  ELSE 0
=============================================================================
