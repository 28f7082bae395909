-------------------------- MODULE DedupWindowProof --------------------------
(***************************************************************************)
(* Facts about the operators of DedupWindow that the proofs about streams  *)
(* and about the record sink rest on.                                      *)
(***************************************************************************)
EXTENDS DedupWindow, TLAPS

(* The signed distance of two sequence numbers fits i16's range.           *)
LEMMA DiffRange ==
  ASSUME NEW s \in SeqNum, NEW m \in SeqNum
  PROVE  Diff(s, m) \in -Half .. Half - 1
<1>1. Half \in Nat /\ SeqMod = 2 * Half
  BY DedupAssumption, SMT DEF Half
<1>2. (s - m) % SeqMod \in 0 .. SeqMod - 1
  BY DedupAssumption, SMT DEF SeqNum
<1> QED
  BY <1>1, <1>2, SMT DEF Diff

(* The entry made for the first record of an SSRC is well typed.           *)
LEMMA NewEntryType ==
  ASSUME NEW s \in SeqNum
  PROVE  NewEntry(s) \in Entry
BY DedupAssumption, SMT DEF NewEntry, Entry, Offset

(* Admitting a record that is no duplicate keeps the mask within 64 bits.  *)
LEMMA AdmitType ==
  ASSUME NEW e \in Entry, NEW s \in SeqNum, ~IsDuplicate(e, s)
  PROVE  Admit(e, s) \in Entry
<1> DEFINE d == Diff(s, e.max_seq)
<1>1. e.max_seq \in SeqNum /\ e.window \subseteq Offset
  BY DEF Entry
<1>2. d \in Int
  BY <1>1, DiffRange, DedupAssumption, SMT DEF Half
<1>3. CASE d > 0
  <2>1. Shift(e.window, d) \subseteq Offset
    BY DedupAssumption, SMT DEF Shift, Offset
  <2> QED
    BY <2>1, <1>3 DEF Admit, Entry
<1>4. CASE ~(d > 0)
  <2>1. d < 0 /\ -d < Window
    BY <1>2, <1>4, DedupAssumption, SMT DEF IsDuplicate
  <2>2. -d \in Offset
    BY <1>2, <2>1, DedupAssumption, SMT DEF Offset
  <2>3. Admit(e, s) = [e EXCEPT !.window = e.window \cup {-d}]
    BY <1>4 DEF Admit
  <2> QED
    BY <1>1, <2>2, <2>3 DEF Entry
<1> QED
  BY <1>3, <1>4

(* Dividing by SeqMod leaves a whole number of turns of the circle and a  *)

(* sequence number.                                                        *)
LEMMA ModSplit ==
  ASSUME NEW a \in Int
  PROVE  /\ a \div SeqMod \in Int /\ a % SeqMod \in 0 .. SeqMod - 1
         /\ a = SeqMod * (a \div SeqMod) + (a % SeqMod)
BY DedupAssumption, SMT

(* A positive multiple is at least the number itself.                      *)
LEMMA MultipleAtLeast ==
  ASSUME NEW M \in Nat, NEW k \in Int, k >= 1
  PROVE  M * k >= M
BY SMT

(* The remainder is the only sequence number a whole number of turns away. *)
LEMMA ModUnique ==
  ASSUME NEW a \in Int, NEW q \in Int, NEW r \in 0 .. SeqMod - 1, a = SeqMod * q + r
  PROVE  a % SeqMod = r
<1> DEFINE p == a \div SeqMod
           t == a % SeqMod
<1>1. p \in Int /\ t \in 0 .. SeqMod - 1 /\ a = SeqMod * p + t
  BY ModSplit
<1>2. SeqMod \in Nat /\ r \in Int /\ t \in Int
  BY <1>1, DedupAssumption, SMT
<1> HIDE DEF p, t
<1>3. SeqMod * (p - q) = r - t /\ SeqMod * (q - p) = t - r
  BY <1>1, <1>2, SMT
<1>4. p - q \in Int /\ q - p \in Int
  BY <1>1, SMT
<1>5. ~(p - q >= 1)
  <2> SUFFICES ASSUME p - q >= 1 PROVE FALSE
    OBVIOUS
  <2>1. SeqMod * (p - q) >= SeqMod
    BY <1>2, <1>4, MultipleAtLeast
  <2> QED
    BY <1>1, <1>2, <1>3, <2>1, SMT
<1>6. ~(q - p >= 1)
  <2> SUFFICES ASSUME q - p >= 1 PROVE FALSE
    OBVIOUS
  <2>1. SeqMod * (q - p) >= SeqMod
    BY <1>2, <1>4, MultipleAtLeast
  <2> QED
    BY <1>1, <1>2, <1>3, <2>1, SMT
<1>7. p = q
  BY <1>1, <1>5, <1>6, SMT
<1>8. t = r
  BY <1>1, <1>2, <1>7, SMT
<1> QED
  BY <1>8 DEF t

(* Whole turns of the circle do not change the remainder.                  *)
LEMMA ModTurns ==
  ASSUME NEW a \in Int, NEW b \in Int, NEW k \in Int, a = b + SeqMod * k
  PROVE  a % SeqMod = b % SeqMod
<1>1. b \div SeqMod \in Int /\ b % SeqMod \in 0 .. SeqMod - 1
      /\ b = SeqMod * (b \div SeqMod) + (b % SeqMod)
  BY ModSplit
<1> DEFINE q == b \div SeqMod
           r == b % SeqMod
<1>2. q \in Int /\ r \in 0 .. SeqMod - 1 /\ b = SeqMod * q + r
  BY <1>1
<1> HIDE DEF q, r
<1>3. q + k \in Int /\ SeqMod \in Int /\ r \in Int
  BY <1>2, DedupAssumption, SMT
<1>4. SeqMod * (q + k) = SeqMod * q + SeqMod * k
  BY <1>2, <1>3, SMT
<1>5. a = SeqMod * (q + k) + r
  BY <1>2, <1>3, <1>4, SMT
<1>6. a % SeqMod = r
  BY <1>2, <1>3, <1>5, ModUnique
<1> QED
  BY <1>6 DEF r

(* A sequence number is its own remainder.                                 *)
LEMMA ModSeqNum ==
  ASSUME NEW s \in SeqNum
  PROVE  s % SeqMod = s /\ s \in Int
<1>1. s \in Int /\ 0 \in Int /\ s = SeqMod * 0 + s /\ s \in 0 .. SeqMod - 1
  BY DedupAssumption, SMT DEF SeqNum
<1> QED
  BY <1>1, ModUnique

(* Reducing to 16 bits before a subtraction changes nothing.               *)
LEMMA ModSub ==
  ASSUME NEW a \in Int, NEW o \in Int
  PROVE  ((a % SeqMod) - o) % SeqMod = (a - o) % SeqMod
<1>1. a \div SeqMod \in Int /\ a % SeqMod \in 0 .. SeqMod - 1
      /\ a = SeqMod * (a \div SeqMod) + (a % SeqMod)
  BY ModSplit
<1> DEFINE q == a \div SeqMod
           r == a % SeqMod
<1>2. q \in Int /\ r \in 0 .. SeqMod - 1 /\ a = SeqMod * q + r
  BY <1>1
<1> HIDE DEF q, r
<1>3. r - o \in Int /\ a - o \in Int /\ a - o = (r - o) + SeqMod * q
  BY <1>2, DedupAssumption, SMT
<1>4. (a - o) % SeqMod = (r - o) % SeqMod
  BY <1>2, <1>3, ModTurns
<1> QED
  BY <1>4 DEF r

(* Half the circle is a whole number, and the window fits into it.         *)
LEMMA HalfFacts ==
  /\ Half \in Nat /\ Half > 0
  /\ SeqMod \in Nat /\ SeqMod > 0 /\ SeqMod = 2 * Half
  /\ Window \in Nat /\ Window > 0 /\ Window <= Half
BY DedupAssumption, SMT DEF Half

(* Going Diff(s, m) positions on from m leads to s.                        *)
LEMMA DiffLeads ==
  ASSUME NEW s \in SeqNum, NEW m \in SeqNum
  PROVE  Diff(s, m) \in Int /\ s = (m + Diff(s, m)) % SeqMod
<1>1. s \in Int /\ m \in Int /\ s - m \in Int /\ s % SeqMod = s
  BY ModSeqNum, SMT
<1> DEFINE q == (s - m) \div SeqMod
           r == (s - m) % SeqMod
           d == Diff(s, m)
<1>2. q \in Int /\ r \in 0 .. SeqMod - 1 /\ s - m = SeqMod * q + r
  BY <1>1, ModSplit
<1>3. d = r \/ d = r - SeqMod
  BY DEF Diff
<1>4. r \in Int /\ SeqMod \in Int
  BY <1>2, HalfFacts, SMT
<1> HIDE DEF q, r, d
<1>5. d \in Int /\ (m + d = s + SeqMod * (-q) \/ m + d = s + SeqMod * (-q - 1))
  BY <1>1, <1>2, <1>3, <1>4, SMT
<1>6. -q \in Int /\ -q - 1 \in Int /\ m + d \in Int
  BY <1>1, <1>2, <1>5, SMT
<1>7. (m + d) % SeqMod = s % SeqMod
  BY <1>1, <1>5, <1>6, ModTurns
<1> QED
  BY <1>1, <1>5, <1>7 DEF d

(* The signed distance of the sequence numbers of two packets less than    *)
(* half a circle apart is the distance of the packets.                     *)
LEMMA DiffUnique ==
  ASSUME NEW i \in Int, NEW n \in Int, -Half <= i - n, i - n < Half
  PROVE  Diff(i % SeqMod, n % SeqMod) = i - n
<1> DEFINE r == (i % SeqMod)
           t == (n % SeqMod)
           d == i - n
<1>1. r \in 0 .. SeqMod - 1 /\ t \in 0 .. SeqMod - 1
      /\ r \in Int /\ t \in Int
  BY ModSplit, HalfFacts, SMT
<1>2. (r - t) % SeqMod = (i - t) % SeqMod
  BY <1>1, ModSub
<1>3. n \div SeqMod \in Int /\ n = SeqMod * (n \div SeqMod) + t
  BY ModSplit
<1>4. i - t \in Int /\ d \in Int /\ i - t = d + SeqMod * (n \div SeqMod)
  <2> DEFINE q == n \div SeqMod
  <2>1. q \in Int /\ n = SeqMod * q + t
    BY <1>3
  <2> HIDE DEF q, t
  <2>2. i - t \in Int /\ d \in Int /\ i - t = d + SeqMod * q
    BY <1>1, <2>1, HalfFacts, SMT
  <2> QED
    BY <2>2 DEF q
<1>5. (i - t) % SeqMod = d % SeqMod
  BY <1>3, <1>4, ModTurns
<1>6. (r - t) % SeqMod = d % SeqMod
  BY <1>2, <1>5
<1> HIDE DEF r, t, d
<1>7. d \in Int /\ -Half <= d /\ d < Half
  BY <1>4 DEF d
<1>8. CASE d >= 0
  <2>1. d \in 0 .. SeqMod - 1 /\ 0 \in Int /\ d = SeqMod * 0 + d
    BY <1>7, <1>8, HalfFacts, SMT
  <2>2. d % SeqMod = d
    BY <1>7, <2>1, ModUnique
  <2> QED
    BY <1>6, <1>7, <2>2 DEF Diff, r, t, d
<1>9. CASE d < 0
  <2>1. d + SeqMod \in 0 .. SeqMod - 1 /\ -1 \in Int /\ d = SeqMod * (-1) + (d + SeqMod)
    BY <1>7, <1>9, HalfFacts, SMT
  <2>2. d % SeqMod = d + SeqMod
    BY <1>7, <2>1, ModUnique
  <2>3. ~(d + SeqMod < Half) /\ (d + SeqMod) - SeqMod = d
    BY <1>7, HalfFacts, SMT
  <2>4. Diff(r, t) = d
    BY <1>6, <2>2, <2>3 DEF Diff
  <2> QED
    BY <2>4 DEF r, t, d
<1> QED
  BY <1>7, <1>8, <1>9, SMT

(* What the entry stands for after a record that is no duplicate: the      *)
(* record's sequence number is remembered, and everything remembered is it *)
(* or was remembered before.                                               *)
LEMMA AdmitRemembers ==
  ASSUME NEW e \in Entry, NEW s \in SeqNum, ~IsDuplicate(e, s)
  PROVE  /\ \E o \in Admit(e, s).window : s = (Admit(e, s).max_seq - o) % SeqMod
         /\ \A o \in Admit(e, s).window :
              \/ s = (Admit(e, s).max_seq - o) % SeqMod
              \/ \E p \in e.window : (Admit(e, s).max_seq - o) % SeqMod = (e.max_seq - p) % SeqMod
<1> DEFINE d == Diff(s, e.max_seq)
           m == e.max_seq
<1>1. m \in SeqNum /\ m \in Int /\ e.window \subseteq Offset
  BY ModSeqNum DEF Entry
<1>2. d \in Int /\ s = (m + d) % SeqMod /\ s \in Int /\ s % SeqMod = s
  BY <1>1, DiffLeads, ModSeqNum
<1>3. CASE d > 0
  <2>1. Admit(e, s) = [max_seq |-> s, window |-> Shift(e.window, d)]
    BY <1>3 DEF Admit
  <2>2. Admit(e, s).max_seq = s /\ Admit(e, s).window = {0} \cup {o \in Offset : o - d \in e.window}
    BY <2>1 DEF Shift
  <2> HIDE DEF d, m
  <2>3. s = (s - 0) % SeqMod
    <3>1. s - 0 = s
      BY <1>2, SMT
    <3> QED
      BY <1>2, <3>1
  <2>4. ASSUME NEW o \in Offset PROVE (s - o) % SeqMod = (m - (o - d)) % SeqMod
    <3>1. o \in Int /\ m + d \in Int /\ (m + d) - o = m - (o - d)
      BY <1>1, <1>2, HalfFacts, SMT DEF Offset
    <3>2. (((m + d) % SeqMod) - o) % SeqMod = ((m + d) - o) % SeqMod
      BY <3>1, ModSub
    <3> QED
      BY <1>2, <3>1, <3>2
  <2> QED
    BY <2>2, <2>3, <2>4 DEF m
<1>4. CASE ~(d > 0)
  <2>1. Admit(e, s) = [e EXCEPT !.window = e.window \cup {-d}]
    BY <1>4 DEF Admit
  <2>2. Admit(e, s).max_seq = m /\ Admit(e, s).window = e.window \cup {-d}
    BY <2>1 DEF Entry
  <2> HIDE DEF d
  <2>3. m - (-d) = m + d
    BY <1>1, <1>2, SMT
  <2> QED
    BY <1>2, <2>2, <2>3
<1> QED
  BY <1>3, <1>4
=============================================================================
