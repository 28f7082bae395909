-------------------------- MODULE DedupStreamProof --------------------------
(***************************************************************************)
(* Proofs about DedupStream for every width of the sequence number, every  *)
(* window and every reordering bound below half the circle: the entry of   *)
(* dedup_map mirrors the history of the stream, and the 16-bit test        *)
(* implements the suppressor with unwrapped indices of IdealDedup.         *)
(***************************************************************************)
EXTENDS DedupStream, DedupWindowProof

\* A step of the network: a packet at most Reach positions from the newest.
InReach(i) == i \in Index /\ newest - Reach <= i /\ i <= newest + Reach

(* The sequence number of a packet is a sequence number.                   *)
LEMMA Seq16Type ==
  ASSUME NEW i \in Index
  PROVE  Seq16(i) \in SeqNum /\ i \in Int
BY ModSplit, StreamAssumption DEF Seq16, SeqNum

(* Every reachable state of a stream is well typed; in particular the mask *)
(* never gets a bit outside its 64.                                        *)
THEOREM StreamTypeCorrect == Spec => []TypeOK
<1>1. Init => TypeOK
  <2> SUFFICES ASSUME NEW first \in Index, entry = NewEntry(Seq16(first)), newest = first,
                      accepted = {first}, verdict = [index |-> first, fresh |-> TRUE]
               PROVE  TypeOK
    BY DEF Init
  <2>1. NewEntry(Seq16(first)) \in Entry
    BY Seq16Type, NewEntryType
  <2> QED
    BY <2>1 DEF TypeOK
<1>2. TypeOK /\ [Next]_vars => TypeOK'
  <2> SUFFICES ASSUME TypeOK, [Next]_vars PROVE TypeOK'
    OBVIOUS
  <2>1. ASSUME NEW i \in Index, Receive(i) PROVE TypeOK'
    <3> DEFINE fresh == ~IsDuplicate(entry, Seq16(i))
    <3>1. fresh \in BOOLEAN /\ verdict' = [index |-> i, fresh |-> fresh]
      BY <2>1 DEF Receive, IsDuplicate
    <3>2. verdict' \in [index : Index, fresh : BOOLEAN]
      BY <3>1
    <3>3. CASE fresh
      <4>1. Admit(entry, Seq16(i)) \in Entry
        BY <3>3, Seq16Type, AdmitType DEF TypeOK
      <4>2. /\ entry' = Admit(entry, Seq16(i)) /\ accepted' = accepted \cup {i}
            /\ newest' = i \/ newest' = newest
        BY <2>1, <3>3 DEF Receive
      <4> QED
        BY <3>2, <4>1, <4>2 DEF TypeOK
    <3>4. CASE ~fresh
      <4>1. UNCHANGED <<entry, newest, accepted>>
        BY <2>1, <3>4 DEF Receive
      <4> QED
        BY <3>2, <4>1 DEF TypeOK
    <3> QED
      BY <3>3, <3>4
  <2>2. CASE UNCHANGED vars
    BY <2>2 DEF vars, TypeOK
  <2> QED
    BY <2>1, <2>2 DEF Next
<1> QED
  BY <1>1, <1>2, PTL DEF Spec

\* What every reachable state satisfies and every step keeps.
MirrorInv == TypeOK /\ WindowFaithful /\ newest \in accepted

(* The 16-bit distance of a packet in reach is its distance.               *)
LEMMA TrueDistance ==
  ASSUME MirrorInv, NEW i \in Index, InReach(i)
  PROVE  /\ Diff(Seq16(i), entry.max_seq) = i - newest
         /\ i \in Int /\ newest \in Int /\ newest \in Index
<1>1. newest \in Index /\ i \in Int /\ newest \in Int /\ entry.max_seq = Seq16(newest)
  BY Seq16Type DEF MirrorInv, TypeOK, WindowFaithful
<1>2. -Half <= i - newest /\ i - newest < Half
  <2>1. newest - Reach <= i /\ i <= newest + Reach /\ Reach \in Nat /\ Reach < Half /\ Half \in Nat
    BY HalfFacts, StreamAssumption DEF InReach
  <2> QED
    BY <1>1, <2>1, SMT
<1> QED
  BY <1>1, <1>2, DiffUnique DEF Seq16

(* The 16-bit test and the ideal one agree on every packet in reach.       *)
LEMMA SameVerdict ==
  ASSUME MirrorInv, NEW i \in Index, InReach(i)
  PROVE  ~IsDuplicate(entry, Seq16(i)) <=> Ideal!Fresh(i)
<1> DEFINE d == Diff(Seq16(i), entry.max_seq)
<1>1. d = i - newest /\ i \in Int /\ newest \in Int
  BY TrueDistance
<1>2. /\ newest \in accepted /\ \A j \in accepted : j <= newest
      /\ entry.window = {o \in Offset : newest - o \in accepted}
  BY DEF MirrorInv, WindowFaithful
<1>3. IsDuplicate(entry, Seq16(i)) <=> d = 0 \/ (d < 0 /\ (-d >= Window \/ -d \in entry.window))
  BY DEF IsDuplicate
<1> HIDE DEF d
<1>4. CASE i > newest
  <2>1. i \notin accepted
    BY <1>1, <1>2, <1>4, SMT
  <2>2. ~(d = 0) /\ ~(d < 0)
    BY <1>1, <1>4, SMT
  <2> QED
    BY <1>3, <1>4, <2>1, <2>2 DEF Ideal!Fresh
<1>5. CASE i = newest
  <2>1. d = 0
    BY <1>1, <1>5, SMT
  <2> QED
    BY <1>2, <1>3, <1>5, <2>1 DEF Ideal!Fresh
<1>6. CASE i < newest
  <2>1. /\ ~(d = 0) /\ d < 0 /\ -d = newest - i
        /\ ~(i > newest) /\ newest - i \in Nat /\ newest - (newest - i) = i
    BY <1>1, <1>6, SMT
  <2>2. CASE newest - i < Window
    <3>1. newest - i \in Offset /\ ~(newest - i >= Window)
      BY <2>1, <2>2, HalfFacts, SMT DEF Offset
    <3>2. newest - i \in entry.window <=> i \in accepted
      BY <1>2, <2>1, <3>1
    <3> QED
      BY <1>3, <2>1, <2>2, <3>1, <3>2 DEF Ideal!Fresh
  <2>3. CASE ~(newest - i < Window)
    <3>1. newest - i >= Window
      BY <2>1, <2>3, HalfFacts, SMT
    <3> QED
      BY <1>3, <2>1, <2>3, <3>1 DEF Ideal!Fresh
  <2> QED
    BY <2>2, <2>3
<1> QED
  BY <1>1, <1>4, <1>5, <1>6, SMT

(* A fresh packet behind the newest sets one bit of the mask.              *)
LEMMA LatePacket ==
  ASSUME MirrorInv, NEW i \in Index, InReach(i), Receive(i),
         ~IsDuplicate(entry, Seq16(i)), i < newest
  PROVE  (WindowFaithful /\ newest \in accepted)'
<1> DEFINE d == Diff(Seq16(i), entry.max_seq)
<1>1. d = i - newest /\ i \in Int /\ newest \in Int
  BY TrueDistance
<1>2. /\ newest \in accepted /\ \A j \in accepted : j <= newest
      /\ entry.window = {o \in Offset : newest - o \in accepted}
      /\ entry.max_seq = Seq16(newest) /\ entry \in Entry
  BY DEF MirrorInv, WindowFaithful, TypeOK
<1>3. ~(d > 0) /\ d < 0 /\ -d = newest - i
  BY <1>1, SMT
<1>4. entry' = Admit(entry, Seq16(i)) /\ accepted' = accepted \cup {i} /\ newest' = newest
  BY <1>3 DEF Receive
<1>5. entry' = [entry EXCEPT !.window = entry.window \cup {-d}]
  BY <1>3, <1>4 DEF Admit
<1>6. entry'.max_seq = entry.max_seq /\ entry'.window = entry.window \cup {newest - i}
  BY <1>2, <1>3, <1>5 DEF Entry
<1>7. -d < Window
  BY <1>1, <1>3, HalfFacts, SMT DEF IsDuplicate
<1> HIDE DEF d
<1>8. newest - i \in Offset
  BY <1>1, <1>3, <1>7, HalfFacts, SMT DEF Offset
<1>9. ASSUME NEW o \in Offset PROVE newest - o = i <=> o = newest - i
  BY <1>1, HalfFacts, SMT DEF Offset
<1>10. entry'.window = {o \in Offset : newest' - o \in accepted'}
  BY <1>2, <1>4, <1>6, <1>8, <1>9
<1>11. \A j \in accepted' : j <= newest'
  BY <1>1, <1>2, <1>4, SMT
<1> QED
  BY <1>2, <1>4, <1>6, <1>10, <1>11 DEF WindowFaithful, Seq16

(* A packet ahead of the newest shifts the mask.                           *)
LEMMA NewestPacket ==
  ASSUME MirrorInv, NEW i \in Index, InReach(i), Receive(i), i > newest
  PROVE  (WindowFaithful /\ newest \in accepted)'
<1> DEFINE d == Diff(Seq16(i), entry.max_seq)
<1>1. d = i - newest /\ i \in Int /\ newest \in Int
  BY TrueDistance
<1>2. /\ newest \in accepted /\ \A j \in accepted : j <= newest
      /\ entry.window = {o \in Offset : newest - o \in accepted}
  BY DEF MirrorInv, WindowFaithful
<1>3. d > 0 /\ ~(d = 0) /\ ~(d < 0)
  BY <1>1, SMT
<1>4. ~IsDuplicate(entry, Seq16(i))
  BY <1>3 DEF IsDuplicate
<1>5. entry' = Admit(entry, Seq16(i)) /\ accepted' = accepted \cup {i} /\ newest' = i
  BY <1>3, <1>4 DEF Receive
<1>6. entry'.max_seq = Seq16(i) /\ entry'.window = Shift(entry.window, d)
  BY <1>3, <1>5 DEF Admit
<1> HIDE DEF d
<1>7. ASSUME NEW o \in Offset
      PROVE  o = 0 \/ o - d \in entry.window <=> i - o \in accepted \cup {i}
  <2>1. o \in Int /\ o >= 0 /\ o < Window /\ Window \in Int
    BY HalfFacts, SMT DEF Offset
  <2>2. i - o = newest - (o - d)
    BY <1>1, <2>1, SMT
  <2>3. i - o = i <=> o = 0
    BY <1>1, <2>1, SMT
  <2>4. CASE o - d \in Offset
    BY <1>2, <2>2, <2>3, <2>4
  <2>5. CASE o - d \notin Offset
    <3>1. newest < i - o
      BY <1>1, <1>3, <2>1, <2>5, HalfFacts, SMT DEF Offset
    <3>2. i - o \notin accepted
      BY <1>1, <1>2, <2>1, <3>1, SMT
    <3> QED
      BY <1>2, <2>3, <2>5, <3>2
  <2> QED
    BY <2>4, <2>5
<1>8. 0 \in Offset
  BY HalfFacts, SMT DEF Offset
<1>9. entry'.window = {o \in Offset : newest' - o \in accepted'}
  BY <1>5, <1>6, <1>7, <1>8 DEF Shift
<1>10. \A j \in accepted' : j <= newest'
  <2> TAKE j \in accepted'
  <2>1. CASE j \in accepted
    <3>1. j \in Int /\ j <= newest
      BY <1>2, <2>1, StreamAssumption DEF MirrorInv, TypeOK
    <3> QED
      BY <1>1, <1>5, <3>1, SMT
  <2>2. CASE j = i
    BY <1>1, <1>5, <2>2, SMT
  <2> QED
    BY <1>5, <2>1, <2>2
<1> QED
  BY <1>5, <1>6, <1>9, <1>10 DEF WindowFaithful

(* The mirror survives every packet the network may deliver.               *)
LEMMA NextMirror == MirrorInv /\ TypeOK' /\ [Next]_vars => MirrorInv'
<1> SUFFICES ASSUME MirrorInv, TypeOK', [Next]_vars PROVE MirrorInv'
  OBVIOUS
<1>1. ASSUME NEW i \in Index, InReach(i), Receive(i) PROVE MirrorInv'
  <2>1. CASE IsDuplicate(entry, Seq16(i))
    <3>1. UNCHANGED <<entry, newest, accepted>>
      BY <1>1, <2>1 DEF Receive
    <3> QED
      BY <3>1 DEF MirrorInv, WindowFaithful, Seq16
  <2>2. CASE ~IsDuplicate(entry, Seq16(i))
    <3>1. i # newest
      BY <1>1, <2>2, SameVerdict DEF Ideal!Fresh, MirrorInv
    <3>2. i < newest \/ i > newest
      BY <1>1, <3>1, TrueDistance, SMT
    <3>3. (WindowFaithful /\ newest \in accepted)'
      BY <1>1, <2>2, <3>2, LatePacket, NewestPacket
    <3> QED
      BY <3>3 DEF MirrorInv
  <2> QED
    BY <2>1, <2>2
<1>2. CASE UNCHANGED vars
  BY <1>2 DEF vars, MirrorInv, WindowFaithful, Seq16
<1> QED
  BY <1>1, <1>2 DEF Next, InReach

(* The first packet establishes the mirror.                                *)
LEMMA InitMirror == Init /\ TypeOK => MirrorInv
<1> SUFFICES ASSUME TypeOK, NEW first \in Index, entry = NewEntry(Seq16(first)),
                    newest = first, accepted = {first}
             PROVE  MirrorInv
  BY DEF Init
<1>1. first \in Int
  BY StreamAssumption
<1>2. ASSUME NEW o \in Offset PROVE first - o = first <=> o = 0
  BY <1>1, HalfFacts, SMT DEF Offset
<1>3. 0 \in Offset /\ first <= first
  BY <1>1, HalfFacts, SMT DEF Offset
<1>4. entry.window = {o \in Offset : newest - o \in accepted}
  BY <1>2, <1>3 DEF NewEntry
<1> QED
  BY <1>3, <1>4 DEF MirrorInv, WindowFaithful, NewEntry

(* max_seq and the mask say exactly which of the last Window packets were  *)
(* accepted, across every shift, late packet and wrap of the sequence      *)
(* number.                                                                 *)
THEOREM WindowMirrorsStream == Spec => [](MirrorInv /\ WindowFaithful)
<1>1. MirrorInv => WindowFaithful
  BY DEF MirrorInv
<1> QED
  BY <1>1, InitMirror, NextMirror, StreamTypeCorrect, PTL DEF Spec

(* The 16-bit suppression of records_thread implements the suppressor that *)
(* has unwrapped indices and remembers all it accepted: no retransmission  *)
(* in reach passes, and no packet in reach that is neither late nor seen   *)
(* is dropped.                                                             *)
THEOREM StreamImplementsIdeal == Spec => ImplementsIdeal
<1>1. Init => Ideal!Init
  BY DEF Init, Ideal!Init
<1>2. MirrorInv /\ [Next]_vars => [Ideal!Next]_(Ideal!vars)
  <2> SUFFICES ASSUME MirrorInv, [Next]_vars PROVE [Ideal!Next]_(Ideal!vars)
    OBVIOUS
  <2>1. ASSUME NEW i \in Index, InReach(i), Receive(i) PROVE Ideal!Judge(i)
    <3>1. ~IsDuplicate(entry, Seq16(i)) <=> Ideal!Fresh(i)
      BY <2>1, SameVerdict
    <3>2. verdict' = [index |-> i, fresh |-> Ideal!Fresh(i)]
      <4>1. verdict' = [index |-> i, fresh |-> ~IsDuplicate(entry, Seq16(i))]
        BY <2>1 DEF Receive
      <4>2. (~IsDuplicate(entry, Seq16(i))) = Ideal!Fresh(i)
        BY <3>1, Zenon DEF IsDuplicate, Ideal!Fresh
      <4> QED
        BY <4>1, <4>2
    <3>3. Diff(Seq16(i), entry.max_seq) > 0 <=> i > newest
      BY <2>1, TrueDistance, SMT
    <3>4. CASE Ideal!Fresh(i)
      BY <2>1, <3>1, <3>2, <3>3, <3>4 DEF Receive, Ideal!Judge
    <3>5. CASE ~Ideal!Fresh(i)
      BY <2>1, <3>1, <3>2, <3>5 DEF Receive, Ideal!Judge
    <3> QED
      BY <3>4, <3>5
  <2>2. CASE UNCHANGED vars
    BY <2>2 DEF vars, Ideal!vars
  <2> QED
    BY <2>1, <2>2 DEF Next, InReach, Ideal!Next
<1> QED
  BY <1>1, <1>2, WindowMirrorsStream, PTL DEF Spec, ImplementsIdeal, Ideal!Spec
=============================================================================
