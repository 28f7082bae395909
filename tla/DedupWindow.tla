----------------------------- MODULE DedupWindow -----------------------------
(***************************************************************************)
(* The sliding-window test of records_thread (channels/record.rs) for one  *)
(* SSRC.  The thread keeps, per SSRC, the highest sequence number accepted *)
(* and a bit mask in which bit o says that max_seq - o was accepted.  The  *)
(* mask is modelled by the set of its bit positions, sequence numbers keep *)
(* their width (SeqMod is 2^16 in the code, Window is 64).                 *)
(***************************************************************************)
EXTENDS Integers

CONSTANTS
  SeqMod,   \* number of sequence numbers of the RTP header field
  Window    \* number of bits of the mask

ASSUME DedupAssumption ==
  /\ SeqMod \in Nat \ {0} /\ SeqMod % 2 = 0
  /\ Window \in Nat \ {0} /\ 2 * Window <= SeqMod

Half == SeqMod \div 2
SeqNum == 0 .. SeqMod - 1
Offset == 0 .. Window - 1

\* What dedup_map holds for one SSRC.
Entry == [max_seq : SeqNum, window : SUBSET Offset]

\* s.wrapping_sub(m) as i16: the distance from m to s, in -Half .. Half - 1.
Diff(s, m) ==
  LET d == (s - m) % SeqMod
  IN  IF d < Half THEN d ELSE d - SeqMod

\* The first record of an SSRC.
NewEntry(s) == [max_seq |-> s, window |-> {0}]

\* The code negates diff to get the offset of an older record; diff = i16::MIN
\* has no negation in 16 bits.
NegationOverflows(e, s) == Diff(s, e.max_seq) = -Half

\* Mutant: the window's edge off by one.
LaxIsDuplicate(e, s) ==
  LET d == Diff(s, e.max_seq)
  IN  d = 0 \/ (d < 0 /\ (-d > Window \/ -d \in e.window))

\* The equal, the too old and the already seen sequence number.
IsDuplicate(e, s) ==
  LET d == Diff(s, e.max_seq)
  IN  d = 0 \/ (d < 0 /\ (-d >= Window \/ -d \in e.window))

\* Mutant: the mask is not shifted when max_seq moves on.
UnshiftedMask(w, d) == {0} \cup w

\* (mask << d) | 1, and the mask 1 once every old bit has been shifted out.
Shift(w, d) == {0} \cup {o \in Offset : o - d \in w}

\* The entry after a record that is not a duplicate.
Admit(e, s) ==
  LET d == Diff(s, e.max_seq)
  IN  IF d > 0
      THEN [max_seq |-> s, window |-> Shift(e.window, d)]
      ELSE [e EXCEPT !.window = @ \cup {-d}]
=============================================================================
