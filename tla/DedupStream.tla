----------------------------- MODULE DedupStream -----------------------------
(***************************************************************************)
(* One RTP stream through the duplicate suppression of records_thread      *)
(* (channels/record.rs).  Packets carry an index that never wraps, the     *)
(* record carries only its low bits (the sequence number), and the network *)
(* duplicates, loses and reorders packets, but never by more than Reach    *)
(* positions around the newest one accepted.                               *)
(***************************************************************************)
EXTENDS DedupWindow

CONSTANTS
  Reach,   \* reordering bound of the network, in packets
  Index    \* the indices of the stream's packets

ASSUME StreamAssumption ==
  /\ Reach \in Nat /\ Window <= Reach /\ Reach < Half
  /\ Index \subseteq Int

VARIABLES
  entry,      \* dedup_map's entry of the stream's SSRC
  newest,     \* index of the packet behind entry.max_seq
  accepted,   \* indices of the packets accepted (history)
  verdict     \* the last packet judged, and the judgement

vars == <<entry, newest, accepted, verdict>>

Seq16(i) == i % SeqMod

\* The first packet of the stream, at any point of the sequence-number circle.
Init ==
  \E first \in Index :
    /\ entry = NewEntry(Seq16(first))
    /\ newest = first
    /\ accepted = {first}
    /\ verdict = [index |-> first, fresh |-> TRUE]

\* A copy of packet i reaches the records thread.
Receive(i) ==
  LET fresh == ~IsDuplicate(entry, Seq16(i))
  IN  /\ verdict' = [index |-> i, fresh |-> fresh]
      /\ IF fresh
         THEN /\ entry' = Admit(entry, Seq16(i))
              /\ accepted' = accepted \cup {i}
              /\ newest' = IF Diff(Seq16(i), entry.max_seq) > 0 THEN i ELSE newest
         ELSE UNCHANGED <<entry, newest, accepted>>

Next == \E i \in Index : newest - Reach <= i /\ i <= newest + Reach /\ Receive(i)

Spec == Init /\ [][Next]_vars

(* Every variable holds a value of its type. *)
TypeOK ==
  /\ entry \in Entry
  /\ newest \in Index
  /\ accepted \subseteq Index
  /\ verdict \in [index : Index, fresh : BOOLEAN]

-----------------------------------------------------------------------------
(* The mask and max_seq that records_thread keeps say exactly which of the *)
(* last Window packets were accepted, across shifts and wrap-arounds.      *)
WindowFaithful ==
  /\ entry.max_seq = Seq16(newest)
  /\ entry.window = {o \in Offset : newest - o \in accepted}
  /\ \A i \in accepted : i <= newest

Ideal == INSTANCE IdealDedup WITH top <- newest

(* The 16-bit test accepts and rejects exactly the packets that a          *)
(* suppressor with unwrapped indices and unbounded memory would.           *)
ImplementsIdeal == Ideal!Spec
=============================================================================
