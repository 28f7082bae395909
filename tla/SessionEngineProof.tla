------------------------- MODULE SessionEngineProof -------------------------
(***************************************************************************)
(* Proofs about SessionEngine, for every set of clients, bin size, session *)
(* timeout, queue and payload size and every bound on how late and how     *)
(* much out of order the records come.                                     *)
(***************************************************************************)
EXTENDS SessionEngine, SequenceTheorems, FiniteSetTheorems, TLAPS

Line == [client : Clients, session : Time, bin : Nat, packets : SUBSET Time, queued : BOOLEAN]

\* The type invariant with the type of the history of lines.
EngineType == TypeOK /\ lines \in Seq(Line)

-----------------------------------------------------------------------------
(* What the parts of a step do.                                            *)

\* The step adds the line of session s of client c, if the session has packets.
Adds(c, s) ==
  \/ s.packets = {} /\ lines' = lines
  \/ /\ s.packets # {}
     /\ \E n : /\ n \notin DOMAIN lines /\ DOMAIN lines' = DOMAIN lines \cup {n}
               /\ \A i \in DOMAIN lines : i < n /\ lines'[i] = lines[i]
               /\ lines'[n].client = c /\ lines'[n].session = s.first_seen
               /\ lines'[n].bin = s.bin /\ lines'[n].packets = s.packets

\* Session state s, field by field.
Is(s, first, last, bin, packets) ==
  /\ s \in SessionState
  /\ s.first_seen = first /\ s.last_seen = last /\ s.bin = bin /\ s.packets = packets

\* The four things that process_record may do with a record.
First(r) ==
  /\ r.client \notin DOMAIN sessions
  /\ Is(sessions'[r.client], r.t, r.t, Bin(r.t), {r.t})
  /\ UNCHANGED <<lines, influxQ>>

Stale(r) == r.t - sessions[r.client].last_seen > SessionTimeout

Extends(r) ==
  LET s == sessions[r.client]
  IN  /\ r.client \in DOMAIN sessions /\ ~Stale(r) /\ Bin(r.t) <= s.bin
      /\ Is(sessions'[r.client], s.first_seen, r.t, s.bin, s.packets \cup {r.t})
      /\ UNCHANGED <<lines, influxQ>>

StartsBin(r) ==
  LET s == sessions[r.client]
  IN  /\ r.client \in DOMAIN sessions /\ ~Stale(r) /\ Bin(r.t) > s.bin
      /\ Is(sessions'[r.client], s.first_seen, r.t, Bin(r.t), {r.t})
      /\ FlushSession(r.client, s)

Restarts(r) ==
  /\ r.client \in DOMAIN sessions /\ Stale(r)
  /\ Is(sessions'[r.client], r.t, r.t, Bin(r.t), {r.t})
  /\ FlushSession(r.client, sessions[r.client])

(* Times are natural numbers.                                              *)
LEMMA TimeType == \A t \in Time : t \in Nat /\ t \in Int
BY SessionAssumption, SMT DEF Time

(* Bins are numbered by natural numbers, in the order of time.             *)
LEMMA BinType ==
  ASSUME NEW t \in Nat
  PROVE  /\ Bin(t) \in Nat /\ BinSize * Bin(t) <= t
         /\ t < BinSize * Bin(t) + BinSize
<1>1. BinSize \in Nat /\ BinSize > 0
  BY SessionAssumption, SMT
<1>2. /\ t \div BinSize \in Nat /\ t % BinSize \in 0 .. BinSize - 1
      /\ t = BinSize * (t \div BinSize) + (t % BinSize)
  BY <1>1, SMT
<1> DEFINE q == t \div BinSize
           m == t % BinSize
<1>3. q \in Nat /\ m \in 0 .. BinSize - 1 /\ t = BinSize * q + m
  BY <1>2
<1> HIDE DEF q, m
<1>4. BinSize * q <= t /\ t < BinSize * q + BinSize
  BY <1>1, <1>3, SMT
<1> QED
  BY <1>3, <1>4 DEF q, Bin

LEMMA BinMonotone ==
  ASSUME NEW a \in Nat, NEW b \in Nat, a <= b
  PROVE  Bin(a) <= Bin(b)
<1>1. BinSize \in Nat /\ BinSize > 0
  BY SessionAssumption, SMT
<1>2. /\ Bin(a) \in Nat /\ BinSize * Bin(a) <= a
      /\ Bin(b) \in Nat /\ b < BinSize * Bin(b) + BinSize
  BY BinType
<1> DEFINE p == Bin(a)
           q == Bin(b)
<1>3. p \in Nat /\ BinSize * p <= a /\ q \in Nat /\ b < BinSize * q + BinSize
  BY <1>2
<1> HIDE DEF p, q
<1>4. ASSUME p > q PROVE FALSE
  <2>1. p - (q + 1) \in Nat /\ p = (q + 1) + (p - (q + 1))
    BY <1>3, <1>4, SMT
  <2>2. PICK k \in Nat : p = (q + 1) + k
    BY <2>1
  <2>3. BinSize * p = BinSize * q + BinSize + BinSize * k /\ BinSize * k >= 0
    BY <1>1, <1>3, <2>2, SMT
  <2>4. BinSize * p \in Int /\ BinSize * q \in Int /\ BinSize * k \in Int
    BY <1>1, <1>3, <2>2, SMT
  <2> QED
    BY <1>1, <1>3, <2>3, <2>4, SMT
<1>5. p <= q
  BY <1>3, <1>4, SMT
<1> QED
  BY <1>5 DEF p, q

(* flush_session adds the session's line, and queues it if there is room.  *)
LEMMA FlushAdds ==
  ASSUME EngineType, NEW c \in Clients, NEW s \in SessionState, FlushSession(c, s)
  PROVE  /\ Adds(c, s)
         /\ lines' \in Seq(Line) /\ DOMAIN lines \subseteq DOMAIN lines'
         /\ influxQ' \in Seq(DOMAIN lines') /\ Len(influxQ') <= InfluxCapacity
<1>1. /\ lines \in Seq(Line) /\ influxQ \in Seq(DOMAIN lines) /\ Len(influxQ) <= InfluxCapacity
      /\ InfluxCapacity \in Nat
  BY SessionAssumption DEF EngineType, TypeOK
<1>2. CASE s.packets = {}
  BY <1>1, <1>2 DEF FlushSession, Adds
<1>3. CASE s.packets # {}
  <2> DEFINE l == LineOf(c, s)
             n == Len(lines) + 1
  <2>1. lines' = Append(lines, l) /\ influxQ' = IF l.queued THEN Append(influxQ, n) ELSE influxQ
    BY <1>3 DEF FlushSession
  <2>2. /\ l \in Line /\ l.client = c /\ l.session = s.first_seen /\ l.bin = s.bin
        /\ l.packets = s.packets /\ l.queued = (Len(influxQ) < InfluxCapacity)
    BY DEF LineOf, Line, SessionState
  <2> HIDE DEF l
  <2>3. /\ lines' \in Seq(Line) /\ DOMAIN lines' = 1 .. n /\ DOMAIN lines = 1 .. n - 1 /\ n \in Nat
        /\ lines'[n] = l /\ \A i \in DOMAIN lines : lines'[i] = lines[i]
    BY <1>1, <2>1, <2>2, SMT
  <2>4. /\ n \notin DOMAIN lines /\ DOMAIN lines' = DOMAIN lines \cup {n}
        /\ \A i \in DOMAIN lines : i < n
    BY <2>3, SMT
  <2> HIDE DEF n
  <2>5. Adds(c, s)
    BY <1>3, <2>2, <2>3, <2>4 DEF Adds
  <2>6. influxQ \in Seq(DOMAIN lines')
    BY <1>1, <2>4, SeqMonotonic
  <2>7. CASE ~l.queued
    BY <1>1, <2>1, <2>3, <2>4, <2>5, <2>6, <2>7
  <2>8. CASE l.queued
    <3>1. /\ Append(influxQ, n) \in Seq(DOMAIN lines') /\ Len(Append(influxQ, n)) = Len(influxQ) + 1
          /\ Len(influxQ) \in Nat
      BY <2>4, <2>6, AppendProperties, LenProperties
    <3>2. Len(influxQ) < InfluxCapacity
      BY <2>2, <2>8
    <3>3. Len(Append(influxQ, n)) <= InfluxCapacity
      BY <1>1, <3>1, <3>2, SMT
    <3> QED
      BY <2>1, <2>3, <2>4, <2>5, <2>8, <3>1, <3>3
  <2> QED
    BY <2>7, <2>8
<1> QED
  BY <1>2, <1>3

(* The session that Process leaves for the client, given the one it starts *)
(* from.                                                                   *)
LEMMA NextSession ==
  ASSUME NEW base \in SessionState, NEW t \in Time, NEW newer \in BOOLEAN, Bin(t) \in Nat
  PROVE  Is([base EXCEPT !.last_seen = t, !.bin = IF newer THEN Bin(t) ELSE base.bin,
                         !.packets = (IF newer THEN {} ELSE base.packets) \cup {t}],
            base.first_seen, t, IF newer THEN Bin(t) ELSE base.bin,
            IF newer THEN {t} ELSE base.packets \cup {t})
<1>1. CASE newer
  BY <1>1 DEF Is, SessionState
<1>2. CASE ~newer
  BY <1>2 DEF Is, SessionState
<1> QED
  BY <1>1, <1>2

(* What Process does is one of the four, and only to the record's client.  *)
LEMMA ProcessCases ==
  ASSUME EngineType, NEW r \in Record, Process(r)
  PROVE  /\ DOMAIN sessions' = DOMAIN sessions \cup {r.client}
         /\ \A d \in DOMAIN sessions : d # r.client => sessions'[d] = sessions[d]
         /\ First(r) \/ Extends(r) \/ StartsBin(r) \/ Restarts(r)
<1> DEFINE c == r.client
           old == IF c \in DOMAIN sessions THEN sessions[c] ELSE NewSession(r.t)
           stale == r.t - old.last_seen > SessionTimeout
           base == IF stale THEN NewSession(r.t) ELSE old
           newer == Bin(r.t) > base.bin
           s == [base EXCEPT !.last_seen = r.t, !.bin = IF newer THEN Bin(r.t) ELSE base.bin,
                             !.packets = (IF newer THEN {} ELSE base.packets) \cup {r.t}]
<1>1. /\ r.t \in Time /\ r.t \in Nat /\ Bin(r.t) \in Nat /\ ~(Bin(r.t) > Bin(r.t))
      /\ SessionTimeout \in Nat /\ ~(r.t - r.t > SessionTimeout)
  <2>1. r.t \in Time /\ r.t \in Nat
    BY SessionAssumption, SMT DEF Record, Time
  <2>2. Bin(r.t) \in Nat
    BY <2>1, BinType
  <2>3. SessionTimeout \in Nat
    BY SessionAssumption
  <2> QED
    BY <2>1, <2>2, <2>3, SMT
<1>2. /\ IF stale \/ newer THEN FlushSession(c, old) ELSE UNCHANGED <<lines, influxQ>>
      /\ sessions' = [d \in DOMAIN sessions \cup {c} |-> IF d # c THEN sessions[d] ELSE s]
  BY Zenon DEF Process
<1>3. /\ DOMAIN sessions' = DOMAIN sessions \cup {c} /\ sessions'[c] = s
      /\ \A d \in DOMAIN sessions : d # c => sessions'[d] = sessions[d]
  <2> HIDE DEF s, old
  <2> QED
    BY <1>2
<1>4. Is(NewSession(r.t), r.t, r.t, Bin(r.t), {})
  BY <1>1 DEF NewSession, Is, SessionState
<1>5. ASSUME base \in SessionState
      PROVE  Is(sessions'[c], base.first_seen, r.t, IF newer THEN Bin(r.t) ELSE base.bin,
                IF newer THEN {r.t} ELSE base.packets \cup {r.t})
  <2>1. newer \in BOOLEAN
    OBVIOUS
  <2> HIDE DEF base, newer
  <2>2. Is(s, base.first_seen, r.t, IF newer THEN Bin(r.t) ELSE base.bin,
           IF newer THEN {r.t} ELSE base.packets \cup {r.t})
    BY <1>1, <1>5, <2>1, NextSession
  <2> QED
    BY <1>3, <2>2
<1>6. ASSUME base = NewSession(r.t)
      PROVE  ~newer /\ Is(sessions'[c], r.t, r.t, Bin(r.t), {r.t})
  <2>1. base \in SessionState /\ base.first_seen = r.t /\ base.bin = Bin(r.t) /\ base.packets = {}
    BY <1>4, <1>6 DEF Is
  <2>2. ~newer
    BY <1>1, <2>1
  <2>3. {} \cup {r.t} = {r.t}
    OBVIOUS
  <2> HIDE DEF base, newer
  <2> QED
    BY <1>5, <2>1, <2>2, <2>3
<1>7. CASE c \notin DOMAIN sessions
  <2>1. old = NewSession(r.t)
    BY <1>7
  <2>2. old.last_seen = r.t
    BY <1>4, <2>1 DEF Is
  <2>3. ~stale
    BY <1>1, <2>2
  <2>4. base = NewSession(r.t)
    BY <2>1, <2>3
  <2>5. UNCHANGED <<lines, influxQ>>
    BY <1>2, <1>6, <2>3, <2>4
  <2> QED
    BY <1>3, <1>6, <1>7, <2>4, <2>5 DEF First
<1>8. CASE c \in DOMAIN sessions
  <2>1. old = sessions[c] /\ sessions[c] \in SessionState /\ sessions[c].bin \in Nat
    BY <1>8 DEF EngineType, TypeOK, SessionState
  <2>2. stale <=> Stale(r)
    BY <2>1 DEF Stale
  <2>3. CASE stale
    <3>1. base = NewSession(r.t) /\ FlushSession(c, sessions[c])
      BY <1>2, <2>1, <2>3
    <3> QED
      BY <1>3, <1>6, <1>8, <2>2, <2>3, <3>1 DEF Restarts
  <2>4. CASE ~stale
    <3>1. base = sessions[c] /\ base \in SessionState
      BY <2>1, <2>4
    <3>2. newer <=> Bin(r.t) > sessions[c].bin
      BY <3>1
    <3>3. CASE newer
      <4>1. FlushSession(c, sessions[c])
        BY <1>2, <2>1, <3>3
      <4>2. Is(sessions'[c], sessions[c].first_seen, r.t, Bin(r.t), {r.t})
        <5> HIDE DEF newer, base
        <5> QED
          BY <1>5, <3>1, <3>3
      <4> QED
        BY <1>3, <1>8, <2>2, <2>4, <3>2, <3>3, <4>1, <4>2 DEF StartsBin
    <3>4. CASE ~newer
      <4>1. UNCHANGED <<lines, influxQ>>
        BY <1>2, <2>4, <3>4
      <4>2. Is(sessions'[c], sessions[c].first_seen, r.t, sessions[c].bin,
               sessions[c].packets \cup {r.t})
        <5> HIDE DEF newer, base
        <5> QED
          BY <1>5, <3>1, <3>4
      <4>3. Bin(r.t) <= sessions[c].bin
        BY <1>1, <2>1, <3>2, <3>4, SMT
      <4> QED
        BY <1>3, <1>8, <2>2, <2>4, <4>1, <4>2, <4>3 DEF Extends
    <3> QED
      BY <3>3, <3>4
  <2> QED
    BY <2>3, <2>4
<1> QED
  BY <1>3, <1>7, <1>8

\* A batch that the sink may hand over: new records, in an order that the skew allows.
BatchOk(batch) ==
  /\ batch \in Seq(Record)
  /\ \A i \in DOMAIN batch : CanFollow(batch[i], arrived)
  /\ \A i, j \in DOMAIN batch :
       i < j => /\ batch[i].client # batch[j].client \/ batch[i].t # batch[j].t
                /\ batch[i].t - Skew <= batch[j].t

(* The batches received are such batches.                                  *)
LEMMA ReceiveCases ==
  ASSUME TypeOK, ReceiveRecords
  PROVE  \E batch : BatchOk(batch) /\ ReceiveBatch(batch)
<1>1. ASSUME NEW r \in Record, CanFollow(r, arrived), ReceiveBatch(<<r>>)
      PROVE  BatchOk(<<r>>)
  <2>1. <<r>> \in Seq(Record) /\ DOMAIN <<r>> = {1} /\ <<r>>[1] = r
    BY SMT
  <2>2. \A i, j \in DOMAIN <<r>> : ~(i < j)
    BY <2>1, SMT
  <2> QED
    BY <1>1, <2>1, <2>2 DEF BatchOk
<1>2. ASSUME NEW r1 \in Record, NEW r2 \in Record, CanFollow(r1, arrived),
             CanFollow(r2, Take(r1, arrived)), ReceiveBatch(<<r1, r2>>)
      PROVE  BatchOk(<<r1, r2>>)
  <2>1. arrived \in [Clients -> SUBSET Time] /\ r1.client \in Clients /\ r2.client \in Clients
    BY DEF TypeOK, Record
  <2> DEFINE taken == Take(r1, arrived)
  <2>2. /\ \A c \in Clients : arrived[c] \subseteq taken[c]
        /\ r1.t \in taken[r1.client]
    BY <2>1 DEF Take
  <2> HIDE DEF taken
  <2>3. CanFollow(r2, arrived)
    BY <1>2, <2>1, <2>2 DEF CanFollow, taken
  <2>4. (r1.client # r2.client \/ r1.t # r2.t) /\ r1.t - Skew <= r2.t
    BY <1>2, <2>1, <2>2 DEF CanFollow, taken
  <2> DEFINE b == <<r1, r2>>
  <2>5. b \in Seq(Record) /\ DOMAIN b = {1, 2} /\ b[1] = r1 /\ b[2] = r2
    BY SMT
  <2> HIDE DEF b
  <2>6. \A i, j \in DOMAIN b : i < j => i = 1 /\ j = 2
    BY <2>5, SMT
  <2>7. BatchOk(b)
    BY <1>2, <2>3, <2>4, <2>5, <2>6 DEF BatchOk
  <2> QED
    BY <2>7 DEF b
<1> QED
  BY <1>1, <1>2 DEF ReceiveRecords

-----------------------------------------------------------------------------
(* Types.                                                                  *)

(* The initial state is well typed.                                        *)
LEMMA InitEngineType == Init => EngineType
<1> SUFFICES ASSUME Init PROVE EngineType
  OBVIOUS
<1>1. 0 \in Time
  BY SessionAssumption, SMT DEF Time
<1>2. /\ <<>> \in Seq(Record) /\ <<>> \in Seq(Line) /\ <<>> \in Seq(DOMAIN lines)
      /\ Len(<<>>) = 0 /\ 0 <= InfluxCapacity /\ 0 <= PayloadLines
  BY EmptySeq, SessionAssumption, SMT
<1> QED
  BY <1>1, <1>2 DEF Init, EngineType, TypeOK

\* One client's turn in a pass over the sessions: of a cleanup, of the shutdown.
CleanOne(c) ==
  /\ unchecked' = unchecked \ {c}
  /\ IF passTime - sessions[c].last_seen > SessionTimeout
     THEN /\ FlushSession(c, sessions[c])
          /\ sessions' = [d \in DOMAIN sessions \ {c} |-> sessions[d]]
     ELSE UNCHANGED <<sessions, lines, influxQ>>

ShutOne(c) ==
  /\ unchecked' = unchecked \ {c}
  /\ FlushSession(c, sessions[c])
  /\ sessions' = [sessions EXCEPT ![c].packets = {}]

(* Every step keeps the state well typed.                                  *)
LEMMA NextEngineType == EngineType /\ [Next]_vars => EngineType'
<1> SUFFICES ASSUME EngineType, [Next]_vars PROVE EngineType'
  OBVIOUS
<1>0. TypeOK /\ lines \in Seq(Line)
  BY DEF EngineType
<1>2. ASSUME Tick PROVE EngineType'
  <2>1. now' \in Time
    BY <1>0, <1>2, SessionAssumption, SMT DEF Tick, TypeOK, Time
  <2> QED
    BY <1>0, <1>2, <2>1 DEF Tick, EngineType, TypeOK, engine, export
<1>3. ASSUME ReceiveRecords PROVE EngineType'
  <2>1. PICK batch : BatchOk(batch) /\ ReceiveBatch(batch)
    BY <1>0, <1>3, ReceiveCases
  <2>2. batch \in Seq(Record) /\ \A i \in DOMAIN batch : batch[i].t \in Time
    <3>1. batch \in Seq(Record) /\ DOMAIN batch = 1 .. Len(batch)
      BY <2>1, LenProperties DEF BatchOk
    <3>2. \A i \in DOMAIN batch : batch[i] \in Record
      BY <3>1, ElementOfSeq
    <3> QED
      BY <3>1, <3>2 DEF Record
  <2>3. arrived' \in [Clients -> SUBSET Time]
    BY <1>0, <2>1, <2>2 DEF ReceiveBatch, TypeOK
  <2> QED
    BY <1>0, <2>1, <2>2, <2>3 DEF ReceiveBatch, EngineType, TypeOK, export
<1>4. ASSUME lines' \in Seq(Line), DOMAIN lines \subseteq DOMAIN lines',
             influxQ' \in Seq(DOMAIN lines'), Len(influxQ') <= InfluxCapacity,
             unchecked' \subseteq DOMAIN sessions', DOMAIN sessions' \subseteq Clients,
             sessions' \in [DOMAIN sessions' -> SessionState],
             todo' \in Seq(Record),
             UNCHANGED <<now, arrived, worker, passTime, influx_tx, export>>
      PROVE  EngineType'
  <2>1. payload' \in Seq(DOMAIN lines')
    BY <1>0, <1>4, SeqMonotonic DEF TypeOK, export
  <2> QED
    BY <1>0, <1>4, <2>1 DEF EngineType, TypeOK, export
<1>5. ASSUME ProcessRecord PROVE EngineType'
  <2> DEFINE r == Head(todo)
  <2>1. /\ r \in Record /\ todo' \in Seq(Record) /\ Process(r)
        /\ UNCHANGED <<now, arrived, worker, unchecked, passTime, influx_tx, export>>
    BY <1>0, <1>5, HeadTailProperties DEF ProcessRecord, TypeOK
  <2> HIDE DEF r
  <2>2. r.client \in Clients /\ r.t \in Time
    BY <2>1 DEF Record
  <2>3. /\ DOMAIN sessions' = DOMAIN sessions \cup {r.client}
        /\ \A d \in DOMAIN sessions : d # r.client => sessions'[d] = sessions[d]
        /\ First(r) \/ Extends(r) \/ StartsBin(r) \/ Restarts(r)
    BY <2>1, ProcessCases
  <2>4. /\ DOMAIN sessions \subseteq Clients /\ unchecked \subseteq DOMAIN sessions
        /\ \A d \in DOMAIN sessions : sessions[d] \in SessionState
    BY <1>0 DEF TypeOK
  <2>5. sessions'[r.client] \in SessionState
    BY <2>3 DEF First, Extends, StartsBin, Restarts, Is
  <2>6. sessions' \in [DOMAIN sessions' -> SessionState]
    <3>1. sessions' = [d \in DOMAIN sessions' |-> sessions'[d]]
      BY <2>1 DEF Process
    <3>2. \A d \in DOMAIN sessions' : sessions'[d] \in SessionState
      BY <2>3, <2>4, <2>5
    <3> QED
      BY <3>1, <3>2
  <2>7. /\ lines' \in Seq(Line) /\ DOMAIN lines \subseteq DOMAIN lines'
        /\ influxQ' \in Seq(DOMAIN lines') /\ Len(influxQ') <= InfluxCapacity
    <3>1. CASE UNCHANGED <<lines, influxQ>>
      BY <1>0, <3>1 DEF TypeOK
    <3>2. CASE r.client \in DOMAIN sessions /\ FlushSession(r.client, sessions[r.client])
      BY <2>2, <2>4, <3>2, FlushAdds
    <3> QED
      BY <2>3, <3>1, <3>2 DEF First, Extends, StartsBin, Restarts
  <2> QED
    BY <1>4, <2>1, <2>2, <2>3, <2>4, <2>6, <2>7
<1>6. ASSUME NEW c \in unchecked,
             CleanOne(c) \/ ShutOne(c),
             UNCHANGED <<now, arrived, worker, todo, passTime, influx_tx, export>>
      PROVE  EngineType'
  <2>1. c \in Clients /\ sessions[c] \in SessionState /\ c \in DOMAIN sessions
    BY <1>0 DEF TypeOK
  <2>2. /\ lines' \in Seq(Line) /\ DOMAIN lines \subseteq DOMAIN lines'
        /\ influxQ' \in Seq(DOMAIN lines') /\ Len(influxQ') <= InfluxCapacity
    <3>1. CASE UNCHANGED <<lines, influxQ>>
      BY <1>0, <3>1 DEF TypeOK
    <3>2. CASE FlushSession(c, sessions[c])
      BY <2>1, <3>2, FlushAdds
    <3> QED
      BY <1>6, <3>1, <3>2 DEF CleanOne, ShutOne
  <2>3. /\ unchecked' \subseteq DOMAIN sessions' /\ DOMAIN sessions' \subseteq Clients
        /\ sessions' \in [DOMAIN sessions' -> SessionState]
    <3>1. /\ sessions \in [DOMAIN sessions -> SessionState] /\ DOMAIN sessions \subseteq Clients
          /\ unchecked \subseteq DOMAIN sessions
      BY <1>0 DEF TypeOK
    <3>2. CASE UNCHANGED sessions /\ unchecked' = unchecked \ {c}
      BY <3>1, <3>2
    <3>3. CASE /\ sessions' = [d \in DOMAIN sessions \ {c} |-> sessions[d]]
               /\ unchecked' = unchecked \ {c}
      BY <3>1, <3>3
    <3>4. CASE /\ sessions' = [sessions EXCEPT ![c].packets = {}]
               /\ unchecked' = unchecked \ {c}
      <4>1. [sessions[c] EXCEPT !.packets = {}] \in SessionState
        BY <2>1 DEF SessionState
      <4>2. sessions' = [sessions EXCEPT ![c] = [sessions[c] EXCEPT !.packets = {}]]
        BY <3>4
      <4> QED
        BY <3>1, <3>4, <4>1, <4>2
    <3> QED
      BY <1>6, <3>2, <3>3, <3>4 DEF CleanOne, ShutOne
  <2> QED
    BY <1>0, <1>4, <1>6, <2>2, <2>3 DEF TypeOK
<1>7. ASSUME CleanSession \/ ShutdownSession PROVE EngineType'
  BY <1>6, <1>7 DEF CleanSession, ShutdownSession, CleanOne, ShutOne
<1>8. ASSUME BeginCleanup \/ BeginShutdown PROVE EngineType'
  BY <1>0, <1>8 DEF BeginCleanup, BeginShutdown, BeginPass, EngineType, TypeOK, export
<1>9. ASSUME EndCleanup \/ DropSenders \/ JoinExporter \/ BeginPost \/ ExporterEnds \/ UNCHANGED vars
      PROVE  EngineType'
  BY <1>0, <1>9 DEF EndCleanup, DropSenders, JoinExporter, BeginPost, ExporterEnds, vars, engine,
                    export, EngineType, TypeOK
<1>10. ASSUME CollectLine PROVE EngineType'
  <2>1. /\ influxQ \in Seq(DOMAIN lines) /\ Len(influxQ) <= InfluxCapacity /\ influxQ # <<>>
        /\ payload \in Seq(DOMAIN lines) /\ Len(payload) < PayloadLines
        /\ InfluxCapacity \in Nat /\ PayloadLines \in Nat
    BY <1>0, <1>10, SessionAssumption DEF TypeOK, CollectLine
  <2>2. influxQ' \in Seq(DOMAIN lines) /\ Len(influxQ') <= InfluxCapacity
    <3>1. Tail(influxQ) \in Seq(DOMAIN lines) /\ Len(Tail(influxQ)) = Len(influxQ) - 1
          /\ Len(influxQ) \in Nat
      BY <2>1, HeadTailProperties, LenProperties
    <3>2. Len(Tail(influxQ)) <= InfluxCapacity
      BY <2>1, <3>1, SMT
    <3> QED
      BY <1>10, <3>1, <3>2 DEF CollectLine
  <2>3. Head(influxQ) \in DOMAIN lines
    BY <2>1, HeadTailProperties
  <2>4. payload' \in Seq(DOMAIN lines) /\ Len(payload') <= PayloadLines
    <3> DEFINE e == Head(influxQ)
    <3>1. Append(payload, e) \in Seq(DOMAIN lines) /\ Len(Append(payload, e)) = Len(payload) + 1
          /\ Len(payload) \in Nat
      BY <2>1, <2>3, AppendProperties, LenProperties
    <3>2. payload' = Append(payload, e) \/ payload' = payload
      BY <1>10 DEF CollectLine
    <3> HIDE DEF e
    <3>3. Len(Append(payload, e)) <= PayloadLines /\ Len(payload) <= PayloadLines
      BY <2>1, <3>1, SMT
    <3> QED
      BY <2>1, <3>1, <3>2, <3>3
  <2> QED
    BY <1>0, <1>10, <2>2, <2>4 DEF CollectLine, EngineType, TypeOK, engine
<1>11. ASSUME EndPost PROVE EngineType'
  <2>1. <<>> \in Seq(DOMAIN lines) /\ Len(<<>>) = 0 /\ 0 <= PayloadLines
    BY EmptySeq, SessionAssumption, SMT
  <2> QED
    BY <1>0, <1>11, <2>1 DEF EndPost, EngineType, TypeOK, engine
<1> QED
  BY <1>2, <1>3, <1>5, <1>7, <1>8, <1>9, <1>10, <1>11 DEF Next, Pass, Exporter, Finished

(* Every reachable state is well typed, and the exporter's queue and its   *)
(* payload keep their bounds.                                              *)
THEOREM EngineTypeCorrect == Spec => [](EngineType /\ TypeOK)
<1>1. EngineType => TypeOK
  BY DEF EngineType
<1> QED
  BY <1>1, InitEngineType, NextEngineType, PTL DEF Spec

-----------------------------------------------------------------------------
(* Control: who is where, and what is left.                                *)

\* The passes over all sessions are over.
PassesOver == worker \in {"joining", "stopped"}

\* Records are left to process only while a batch is being processed, an empty
\* bin means that the shutdown has flushed it, the senders are dropped when
\* every bin is empty, and the exporter ends after them, with nothing in hand.
ControlInv ==
  /\ todo # <<>> => worker = "processing"
  /\ \A c \in DOMAIN sessions :
       /\ sessions[c].packets = {} => worker = "flushing" \/ PassesOver
       /\ worker = "flushing" => c \in unchecked \/ sessions[c].packets = {}
       /\ PassesOver => sessions[c].packets = {}
  /\ influx_tx = {} <=> PassesOver
  /\ exporter = "stopped" => PassesOver /\ influxQ = <<>> /\ payload = <<>>
  /\ worker = "stopped" => exporter = "stopped"
  /\ passTime <= now

(* The initial state satisfies it.                                         *)
LEMMA InitControl == Init => ControlInv
BY SMT DEF Init, ControlInv, PassesOver

(* Every step keeps it.                                                    *)
LEMMA NextControl == EngineType /\ ControlInv /\ [Next]_vars => ControlInv'
<1> SUFFICES ASSUME EngineType, ControlInv, [Next]_vars PROVE ControlInv'
  OBVIOUS
<1>0. /\ TypeOK /\ now \in Int /\ passTime \in Int /\ passTime <= now
      /\ unchecked \subseteq DOMAIN sessions /\ DOMAIN sessions \subseteq Clients
      /\ \A c \in DOMAIN sessions : sessions[c] \in SessionState
  <2>1. TypeOK /\ now \in Time /\ passTime \in Time /\ passTime <= now
    BY DEF EngineType, TypeOK, ControlInv
  <2>2. now \in Int /\ passTime \in Int
    BY <2>1, TimeType
  <2> QED
    BY <2>1, <2>2 DEF TypeOK
<1>1. ASSUME Tick PROVE ControlInv'
  <2>1. passTime' <= now'
    BY <1>0, <1>1, SMT DEF Tick, engine
  <2> QED
    BY <1>1, <2>1 DEF Tick, ControlInv, PassesOver, engine, export
<1>2. ASSUME NEW batch, ReceiveBatch(batch) PROVE ControlInv'
  BY <1>2 DEF ReceiveBatch, ControlInv, PassesOver, export
<1>3. ASSUME ProcessRecord PROVE ControlInv'
  <2> DEFINE r == Head(todo)
  <2>1. /\ r \in Record /\ Process(r) /\ worker = "processing" /\ worker' = "processing"
        /\ UNCHANGED <<now, unchecked, passTime, influx_tx, export>>
    BY <1>0, <1>3, HeadTailProperties DEF ProcessRecord, TypeOK
  <2> HIDE DEF r
  <2>2. /\ DOMAIN sessions' = DOMAIN sessions \cup {r.client}
        /\ \A d \in DOMAIN sessions : d # r.client => sessions'[d] = sessions[d]
        /\ First(r) \/ Extends(r) \/ StartsBin(r) \/ Restarts(r)
    BY <2>1, ProcessCases
  <2>3. sessions'[r.client].packets # {}
    BY <2>2 DEF First, Extends, StartsBin, Restarts, Is
  <2>4. \A c \in DOMAIN sessions' : sessions'[c].packets # {}
    BY <2>1, <2>2, <2>3 DEF ControlInv, PassesOver
  <2> QED
    BY <2>1, <2>4 DEF ControlInv, PassesOver, export
<1>4. ASSUME BeginCleanup PROVE ControlInv'
  <2>1. now <= now
    BY <1>0, SMT
  <2> QED
    BY <1>4, <2>1 DEF BeginCleanup, BeginPass, ControlInv, PassesOver, export
<1>5. ASSUME BeginShutdown PROVE ControlInv'
  <2>1. now <= now
    BY <1>0, SMT
  <2> QED
    BY <1>5, <2>1 DEF BeginShutdown, BeginPass, ControlInv, PassesOver, export
<1>6. ASSUME CleanSession PROVE ControlInv'
  <2>1. PICK c \in unchecked : CleanOne(c)
    BY <1>6 DEF CleanSession, CleanOne
  <2>2. /\ worker = "cleaning"
        /\ UNCHANGED <<now, worker, todo, passTime, influx_tx, export>>
    BY <1>6 DEF CleanSession
  <2>3. \A d \in DOMAIN sessions' : d \in DOMAIN sessions /\ sessions'[d] = sessions[d]
    BY <2>1 DEF CleanOne
  <2> QED
    BY <2>2, <2>3 DEF ControlInv, PassesOver, export
<1>7. ASSUME ShutdownSession PROVE ControlInv'
  <2>1. PICK c \in unchecked : ShutOne(c)
    BY <1>7 DEF ShutdownSession, ShutOne
  <2>2. /\ worker = "flushing"
        /\ UNCHANGED <<now, worker, todo, passTime, influx_tx, export>>
    BY <1>7 DEF ShutdownSession
  <2>3. /\ unchecked' = unchecked \ {c} /\ DOMAIN sessions' = DOMAIN sessions
        /\ \A d \in DOMAIN sessions : d # c => sessions'[d] = sessions[d]
        /\ sessions'[c].packets = {}
    BY <1>0, <2>1 DEF ShutOne, SessionState
  <2> QED
    BY <2>2, <2>3 DEF ControlInv, PassesOver, export
<1>8. ASSUME EndCleanup \/ DropSenders \/ JoinExporter PROVE ControlInv'
  BY <1>8 DEF EndCleanup, DropSenders, JoinExporter, ControlInv, PassesOver, export
<1>9. ASSUME CollectLine \/ BeginPost \/ EndPost \/ ExporterEnds \/ UNCHANGED vars PROVE ControlInv'
  BY <1>9 DEF CollectLine, BeginPost, EndPost, ExporterEnds, ControlInv, PassesOver, vars, engine,
              export
<1> QED
  BY <1>1, <1>2, <1>3, <1>4, <1>5, <1>6, <1>7, <1>8, <1>9
     DEF Next, ReceiveRecords, Pass, Exporter, Finished

(* When the session worker has stopped, every bin has been flushed and     *)
(* every line has left the queue and the exporter's hands.                 *)
THEOREM StopLeavesNothing == Spec => []StopFlushesAll
<1>1. ControlInv => StopFlushesAll
  BY DEF ControlInv, PassesOver, StopFlushesAll
<1> QED
  BY <1>1, InitControl, NextControl, InitEngineType, NextEngineType, PTL DEF Spec

-----------------------------------------------------------------------------
(* What a step does to packets, sessions and lines.                        *)

\* Nothing, except that time may pass.
Still == now <= now' /\ UNCHANGED <<arrived, todo, sessions, lines>>

\* A batch is received.
Receives(batch) ==
  /\ BatchOk(batch) /\ todo = <<>> /\ todo' = batch
  /\ \A c \in Clients : arrived'[c] = arrived[c] \cup Unprocessed(c)'
  /\ UNCHANGED <<now, sessions, lines>>

\* A record is processed.
Processes(r) ==
  /\ todo # <<>> /\ r = Head(todo) /\ r \in Record /\ todo' = Tail(todo)
  /\ \A c \in DOMAIN sessions : sessions[c].packets # {}
  /\ DOMAIN sessions' = DOMAIN sessions \cup {r.client}
  /\ \A d \in DOMAIN sessions : d # r.client => sessions'[d] = sessions[d]
  /\ First(r) \/ Extends(r) \/ StartsBin(r) \/ Restarts(r)
  /\ UNCHANGED <<now, arrived>>

\* A stale session is removed in a cleanup.
Removes(c) ==
  /\ c \in DOMAIN sessions /\ todo = <<>>
  /\ now - sessions[c].last_seen > SessionTimeout
  /\ Adds(c, sessions[c])
  /\ DOMAIN sessions' = DOMAIN sessions \ {c}
  /\ \A d \in DOMAIN sessions' : sessions'[d] = sessions[d]
  /\ UNCHANGED <<now, arrived, todo>>

\* A session is emptied by the shutdown.
Empties(c) ==
  /\ c \in DOMAIN sessions /\ todo = <<>>
  /\ Adds(c, sessions[c])
  /\ DOMAIN sessions' = DOMAIN sessions
  /\ \A d \in DOMAIN sessions : d # c => sessions'[d] = sessions[d]
  /\ Is(sessions'[c], sessions[c].first_seen, sessions[c].last_seen, sessions[c].bin, {})
  /\ UNCHANGED <<now, arrived, todo>>

(* Every step does one of these five things.                               *)
LEMMA StepCases ==
  ASSUME EngineType, ControlInv, [Next]_vars
  PROVE  \/ Still \/ (\E batch : Receives(batch)) \/ (\E r : Processes(r))
         \/ (\E c : Removes(c)) \/ (\E c : Empties(c))
<1>0. /\ TypeOK /\ now \in Int /\ passTime \in Int /\ passTime <= now /\ now <= now
      /\ unchecked \subseteq DOMAIN sessions /\ DOMAIN sessions \subseteq Clients
      /\ \A c \in DOMAIN sessions : sessions[c] \in SessionState
  <2>1. TypeOK /\ now \in Time /\ passTime \in Time /\ passTime <= now
    BY DEF EngineType, TypeOK, ControlInv
  <2>2. now \in Int /\ passTime \in Int
    BY <2>1, TimeType
  <2>3. now <= now
    BY <2>2, SMT
  <2> QED
    BY <2>1, <2>2, <2>3 DEF TypeOK
<1>1. ASSUME Tick PROVE Still
  <2>1. now <= now'
    BY <1>0, <1>1, SMT DEF Tick
  <2> QED
    BY <1>1, <2>1 DEF Tick, Still, engine
<1>2. ASSUME ReceiveRecords PROVE \E batch : Receives(batch)
  <2>1. PICK batch : BatchOk(batch) /\ ReceiveBatch(batch)
    BY <1>0, <1>2, ReceiveCases
  <2>2. todo = <<>> /\ todo' = batch /\ UNCHANGED <<now, sessions, lines>>
    BY <2>1 DEF ReceiveBatch, ControlInv
  <2>3. \A c \in Clients : arrived'[c] = arrived[c] \cup Unprocessed(c)'
    BY <2>1, <2>2 DEF ReceiveBatch, Unprocessed
  <2> QED
    BY <2>1, <2>2, <2>3 DEF Receives
<1>3. ASSUME ProcessRecord PROVE \E r : Processes(r)
  <2> DEFINE r == Head(todo)
  <2>1. /\ r \in Record /\ Process(r) /\ todo # <<>> /\ todo' = Tail(todo)
        /\ UNCHANGED <<now, arrived>> /\ worker = "processing"
    BY <1>0, <1>3, HeadTailProperties DEF ProcessRecord, TypeOK
  <2>2. \A c \in DOMAIN sessions : sessions[c].packets # {}
    BY <2>1 DEF ControlInv, PassesOver
  <2>3. r = Head(todo)
    OBVIOUS
  <2> HIDE DEF r
  <2>4. /\ DOMAIN sessions' = DOMAIN sessions \cup {r.client}
        /\ \A d \in DOMAIN sessions : d # r.client => sessions'[d] = sessions[d]
        /\ First(r) \/ Extends(r) \/ StartsBin(r) \/ Restarts(r)
    BY <2>1, ProcessCases
  <2> QED
    BY <2>1, <2>2, <2>3, <2>4 DEF Processes
<1>4. ASSUME CleanSession PROVE Still \/ \E c : Removes(c)
  <2>1. PICK c \in unchecked : CleanOne(c)
    BY <1>4 DEF CleanSession, CleanOne
  <2>2. todo = <<>> /\ UNCHANGED <<now, arrived, todo>>
    BY <1>4 DEF CleanSession, ControlInv
  <2>3. c \in DOMAIN sessions /\ c \in Clients /\ sessions[c] \in SessionState
    BY <1>0
  <2>4. CASE passTime - sessions[c].last_seen > SessionTimeout
    <3>1. /\ FlushSession(c, sessions[c])
          /\ DOMAIN sessions' = DOMAIN sessions \ {c}
          /\ \A d \in DOMAIN sessions' : sessions'[d] = sessions[d]
      BY <2>1, <2>4 DEF CleanOne
    <3>2. Adds(c, sessions[c])
      BY <2>3, <3>1, FlushAdds
    <3>3. now - sessions[c].last_seen > SessionTimeout
      <4>1. sessions[c].last_seen \in Int /\ SessionTimeout \in Int
        BY <2>3, TimeType, SessionAssumption DEF SessionState
      <4> QED
        BY <1>0, <2>4, <4>1, SMT
    <3> QED
      BY <2>2, <2>3, <3>1, <3>2, <3>3 DEF Removes
  <2>5. CASE ~(passTime - sessions[c].last_seen > SessionTimeout)
    BY <1>0, <2>1, <2>2, <2>5 DEF CleanOne, Still
  <2> QED
    BY <2>4, <2>5
<1>5. ASSUME ShutdownSession PROVE \E c : Empties(c)
  <2>1. PICK c \in unchecked : ShutOne(c)
    BY <1>5 DEF ShutdownSession, ShutOne
  <2>2. todo = <<>> /\ UNCHANGED <<now, arrived, todo>>
    BY <1>5 DEF ShutdownSession, ControlInv
  <2>3. c \in DOMAIN sessions /\ c \in Clients /\ sessions[c] \in SessionState
    BY <1>0
  <2>4. /\ DOMAIN sessions' = DOMAIN sessions
        /\ \A d \in DOMAIN sessions : d # c => sessions'[d] = sessions[d]
        /\ sessions'[c] = [sessions[c] EXCEPT !.packets = {}]
    BY <2>1, <2>3 DEF ShutOne
  <2>5. Is(sessions'[c], sessions[c].first_seen, sessions[c].last_seen, sessions[c].bin, {})
    BY <2>3, <2>4 DEF Is, SessionState
  <2>6. Adds(c, sessions[c])
    BY <2>1, <2>3, FlushAdds DEF ShutOne
  <2> QED
    BY <2>2, <2>3, <2>4, <2>5, <2>6 DEF Empties
<1>6. ASSUME \/ BeginCleanup \/ BeginShutdown \/ EndCleanup \/ DropSenders \/ JoinExporter
             \/ CollectLine \/ BeginPost \/ EndPost \/ ExporterEnds \/ UNCHANGED vars
      PROVE  Still
  BY <1>0, <1>6
     DEF BeginCleanup, BeginShutdown, BeginPass, EndCleanup, DropSenders, JoinExporter,
         CollectLine, BeginPost, EndPost, ExporterEnds, vars, engine, export, Still
<1> QED
  BY <1>1, <1>2, <1>3, <1>4, <1>5, <1>6 DEF Next, Pass, Exporter, Finished

-----------------------------------------------------------------------------
(* The order of the packets.                                               *)

\* The packets of client c that have been processed.
Processed(c) == arrived[c] \ Unprocessed(c)

\* No two records of the batch are the same packet, and each is in order.
TodoOrder ==
  \A i, j \in DOMAIN todo :
    i < j => /\ todo[i].client # todo[j].client \/ todo[i].t # todo[j].t
             /\ todo[i].t - Skew <= todo[j].t

\* The lines of a client hold processed packets of the client.
LinesOrder ==
  \A c \in Clients : \A i \in DOMAIN lines :
    lines[i].client = c => lines[i].session \in Processed(c) /\ lines[i].packets \subseteq Processed(c)

\* Packets are processed at most Skew out of order, a session holds processed
\* packets of its client and has seen the last of them, and so do the lines.
OrderInv ==
  /\ TodoOrder
  /\ \A c \in Clients : Unprocessed(c) \subseteq arrived[c]
  /\ \A c, d \in Clients : \A p \in Processed(c), u \in Unprocessed(d) : p - Skew <= u
  /\ \A c \in DOMAIN sessions :
       /\ sessions[c].first_seen \in Processed(c) /\ sessions[c].packets \subseteq Processed(c)
       /\ \A p \in Processed(c) : p - Skew <= sessions[c].last_seen
  /\ LinesOrder

(* A step that receives packets processes none.                            *)
LEMMA ReceiveProcesses ==
  ASSUME EngineType, NEW batch, Receives(batch)
  PROVE  /\ \A c \in Clients : /\ Unprocessed(c) = {} /\ Processed(c)' = Processed(c)
                               /\ Processed(c) = arrived[c] /\ Unprocessed(c)' \subseteq arrived'[c]
                               /\ Unprocessed(c)' \cap arrived[c] = {}
         /\ \A c \in Clients : \A u \in Unprocessed(c)' :
              /\ now - Delay <= u /\ u \in Time
              /\ \A d \in Clients : \A p \in arrived[d] : p - Skew <= u
<1>1. todo = <<>> /\ DOMAIN <<>> = {} /\ todo' = batch /\ batch \in Seq(Record)
  BY SMT DEF Receives, BatchOk
<1>2. \A c \in Clients : Unprocessed(c) = {}
  BY <1>1 DEF Unprocessed
<1>3. \A i \in DOMAIN batch : CanFollow(batch[i], arrived) /\ batch[i] \in Record
  <2>1. DOMAIN batch = 1 .. Len(batch)
    BY <1>1, LenProperties
  <2>2. \A i \in DOMAIN batch : batch[i] \in Record
    BY <1>1, <2>1, ElementOfSeq
  <2> QED
    BY <2>2 DEF Receives, BatchOk
<1>4. \A c \in Clients : \A u \in Unprocessed(c)' :
         \E i \in DOMAIN batch : batch[i].client = c /\ batch[i].t = u
  BY <1>1 DEF Unprocessed
<1>5. \A c \in Clients : \A u \in Unprocessed(c)' :
        /\ now - Delay <= u /\ u \in Time /\ u \notin arrived[c]
        /\ \A d \in Clients : \A p \in arrived[d] : p - Skew <= u
  BY <1>3, <1>4 DEF CanFollow, Record
<1>6. \A c \in Clients : arrived'[c] = arrived[c] \cup Unprocessed(c)'
  BY DEF Receives
<1> QED
  BY <1>2, <1>5, <1>6 DEF Processed

(* A step that processes a record moves this packet, and no other.         *)
LEMMA ProcessMoves ==
  ASSUME EngineType, TodoOrder, NEW r, Processes(r)
  PROVE  /\ r.client \in Clients /\ r.t \in Time /\ r.t \in Unprocessed(r.client)
         /\ \A c \in Clients :
              Unprocessed(c)' = IF c = r.client THEN Unprocessed(c) \ {r.t} ELSE Unprocessed(c)
         /\ \A c \in Clients : \A u \in Unprocessed(c)' : r.t - Skew <= u
         /\ TodoOrder'
<1>1. /\ todo \in Seq(Record) /\ todo # <<>> /\ r = Head(todo) /\ todo' = Tail(todo) /\ r \in Record
      /\ TodoOrder
  BY DEF EngineType, TypeOK, Processes
<1>2. /\ DOMAIN todo = 1 .. Len(todo) /\ Len(todo) \in Nat /\ 1 \in DOMAIN todo /\ r = todo[1]
      /\ DOMAIN todo' = 1 .. Len(todo) - 1
      /\ \A i \in DOMAIN todo' : todo'[i] = todo[i + 1]
  BY <1>1, SMT
<1>3. /\ \A i \in DOMAIN todo' : i + 1 \in DOMAIN todo /\ 1 < i + 1
      /\ \A i \in DOMAIN todo : i = 1 \/ (i - 1 \in DOMAIN todo' /\ (i - 1) + 1 = i)
      /\ \A i, j \in DOMAIN todo' : i < j => i + 1 < j + 1
  BY <1>2, SMT
<1>4. r.client \in Clients /\ r.t \in Time
  BY <1>1 DEF Record
<1>5. r.t \in Unprocessed(r.client)
  BY <1>2 DEF Unprocessed
<1>6. TodoOrder'
  BY <1>1, <1>2, <1>3 DEF TodoOrder
<1>7. \A i \in DOMAIN todo' : /\ todo'[i].client # r.client \/ todo'[i].t # r.t
                              /\ r.t - Skew <= todo'[i].t
  <2> TAKE i \in DOMAIN todo'
  <2> DEFINE j == i + 1
  <2>1. 1 \in DOMAIN todo /\ j \in DOMAIN todo /\ 1 < j /\ todo'[i] = todo[j]
    BY <1>2, <1>3
  <2> HIDE DEF j
  <2>2. /\ todo[1].client # todo[j].client \/ todo[1].t # todo[j].t
        /\ todo[1].t - Skew <= todo[j].t
    BY <1>1, <2>1 DEF TodoOrder
  <2> QED
    BY <1>2, <2>1, <2>2
<1>8. ASSUME NEW c \in Clients
      PROVE  /\ Unprocessed(c)' = IF c = r.client THEN Unprocessed(c) \ {r.t} ELSE Unprocessed(c)
             /\ \A u \in Unprocessed(c)' : r.t - Skew <= u
  <2>1. \A u : u \in Unprocessed(c)' <=>
                 \E i \in DOMAIN todo' : todo'[i].client = c /\ todo'[i].t = u
    BY DEF Unprocessed
  <2>2. \A u : u \in Unprocessed(c) <=>
                 \E i \in DOMAIN todo : todo[i].client = c /\ todo[i].t = u
    BY DEF Unprocessed
  <2>3. \A u \in Unprocessed(c)' : /\ u \in Unprocessed(c) /\ ~(c = r.client /\ u = r.t)
                                   /\ r.t - Skew <= u
    BY <1>2, <1>3, <1>7, <2>1, <2>2
  <2>4. \A u \in Unprocessed(c) : u \in Unprocessed(c)' \/ (c = r.client /\ u = r.t)
    BY <1>2, <1>3, <2>1, <2>2
  <2> QED
    BY <2>3, <2>4
<1> QED
  BY <1>4, <1>5, <1>6, <1>8

(* The lines after a line was added are the ones of before and that one.   *)
LEMMA AddedLine ==
  ASSUME NEW c, NEW s, Adds(c, s)
  PROVE  /\ \A i \in DOMAIN lines : i \in DOMAIN lines' /\ lines'[i] = lines[i]
         /\ \A i \in DOMAIN lines' :
              \/ i \in DOMAIN lines /\ lines'[i] = lines[i]
              \/ /\ \A j \in DOMAIN lines : j < i
                 /\ lines'[i].client = c /\ lines'[i].session = s.first_seen
                 /\ lines'[i].bin = s.bin /\ lines'[i].packets = s.packets /\ s.packets # {}
BY DEF Adds

(* The processed packets after a step that processes a record.             *)
LEMMA ProcessedGrows ==
  ASSUME EngineType, OrderInv, NEW r, Processes(r)
  PROVE  /\ \A c \in Clients :
              Processed(c)' = IF c = r.client THEN Processed(c) \cup {r.t} ELSE Processed(c)
         /\ r.t \notin Processed(r.client)
         /\ \A c \in Clients : \A p \in Processed(c) : p - Skew <= r.t
<1>1. /\ r.client \in Clients /\ r.t \in Time /\ r.t \in Unprocessed(r.client)
      /\ \A c \in Clients :
           Unprocessed(c)' = IF c = r.client THEN Unprocessed(c) \ {r.t} ELSE Unprocessed(c)
  BY ProcessMoves DEF OrderInv
<1>2. arrived' = arrived /\ \A c \in Clients : Unprocessed(c) \subseteq arrived[c]
  BY DEF OrderInv, Processes
<1>3. \A c \in Clients : \A p \in Processed(c) : p - Skew <= r.t
  BY <1>1 DEF OrderInv
<1> QED
  BY <1>1, <1>2, <1>3 DEF Processed

(* A line added for a session that holds processed packets of its client.  *)
LEMMA LinesProcessed ==
  ASSUME OrderInv, NEW c \in DOMAIN sessions, Adds(c, sessions[c]), c \in Clients,
         \A d \in Clients : Processed(d) \subseteq Processed(d)'
  PROVE  LinesOrder'
<1>1. sessions[c].first_seen \in Processed(c) /\ sessions[c].packets \subseteq Processed(c)
  BY DEF OrderInv
<1>2. ASSUME NEW d \in Clients, NEW i \in DOMAIN lines', lines'[i].client = d
      PROVE  lines'[i].session \in Processed(d)' /\ lines'[i].packets \subseteq Processed(d)'
  <2>1. CASE i \in DOMAIN lines /\ lines'[i] = lines[i]
    BY <1>2, <2>1 DEF OrderInv, LinesOrder
  <2>2. CASE /\ lines'[i].client = c /\ lines'[i].session = sessions[c].first_seen
             /\ lines'[i].packets = sessions[c].packets
    BY <1>1, <1>2, <2>2
  <2> QED
    BY <2>1, <2>2, AddedLine
<1> QED
  BY <1>2 DEF LinesOrder

(* Every step keeps the order.                                             *)
LEMMA NextOrder == EngineType /\ ControlInv /\ OrderInv /\ EngineType' /\ [Next]_vars => OrderInv'
<1> SUFFICES ASSUME EngineType, ControlInv, OrderInv, EngineType', [Next]_vars PROVE OrderInv'
  OBVIOUS
<1>0. /\ DOMAIN sessions \subseteq Clients /\ lines \in Seq(Line)
      /\ arrived \in [Clients -> SUBSET Time]
      /\ \A c \in DOMAIN sessions : sessions[c] \in SessionState
      /\ \A i \in DOMAIN lines : lines[i].client \in Clients
  <2>1. lines \in Seq(Line)
    BY DEF EngineType
  <2>2. \A i \in DOMAIN lines : lines[i] \in Line
    BY <2>1, ElementOfSeq, LenProperties
  <2> QED
    BY <2>1, <2>2 DEF EngineType, TypeOK, Line
<1>1. CASE Still
  BY <1>1 DEF Still, OrderInv, TodoOrder, LinesOrder, Processed, Unprocessed
<1>2. ASSUME NEW batch, Receives(batch) PROVE OrderInv'
  <2>1. /\ \A c \in Clients : /\ Processed(c)' = Processed(c) /\ Processed(c) = arrived[c]
                              /\ Unprocessed(c)' \subseteq arrived'[c]
        /\ \A c \in Clients : \A u \in Unprocessed(c)' :
             \A d \in Clients : \A p \in arrived[d] : p - Skew <= u
    BY <1>2, ReceiveProcesses
  <2>2. TodoOrder'
    BY <1>2 DEF Receives, BatchOk, TodoOrder
  <2>3. UNCHANGED <<sessions, lines>>
    BY <1>2 DEF Receives
  <2>4. LinesOrder'
    BY <2>1, <2>3 DEF OrderInv, LinesOrder
  <2> QED
    BY <1>0, <2>1, <2>2, <2>3, <2>4 DEF OrderInv
<1>3. ASSUME NEW r, Processes(r) PROVE OrderInv'
  <2> DEFINE c == r.client
  <2>1. /\ c \in Clients /\ r.t \in Time
        /\ \A d \in Clients :
             Unprocessed(d)' = IF d = c THEN Unprocessed(d) \ {r.t} ELSE Unprocessed(d)
        /\ \A d \in Clients : \A u \in Unprocessed(d)' : r.t - Skew <= u
        /\ TodoOrder'
    BY <1>3, ProcessMoves DEF OrderInv
  <2>2. /\ \A d \in Clients : Processed(d)' = IF d = c THEN Processed(d) \cup {r.t} ELSE Processed(d)
        /\ \A d \in Clients : \A p \in Processed(d) : p - Skew <= r.t
    BY <1>3, ProcessedGrows
  <2>3. /\ DOMAIN sessions' = DOMAIN sessions \cup {c} /\ arrived' = arrived
        /\ \A d \in DOMAIN sessions : d # c => sessions'[d] = sessions[d]
        /\ First(r) \/ Extends(r) \/ StartsBin(r) \/ Restarts(r)
    BY <1>3 DEF Processes
  <2> HIDE DEF c
  <2>4. \A d \in Clients : Processed(d) \subseteq Processed(d)'
    BY <2>2
  <2>5. \A d \in Clients : Unprocessed(d)' \subseteq arrived'[d]
    BY <2>1, <2>3 DEF OrderInv
  <2>6. \A d, e \in Clients : \A p \in Processed(d)', u \in Unprocessed(e)' : p - Skew <= u
    BY <2>1, <2>2 DEF OrderInv
  <2>7. r.t - Skew <= r.t
    BY <2>1, TimeType, SessionAssumption, SMT
  <2>8. /\ sessions'[c].first_seen \in Processed(c)' /\ sessions'[c].packets \subseteq Processed(c)'
        /\ sessions'[c].last_seen = r.t
    <3>1. CASE First(r) \/ Restarts(r)
      BY <2>1, <2>2, <3>1 DEF First, Restarts, Is, c
    <3>2. CASE Extends(r) \/ StartsBin(r)
      BY <2>1, <2>2, <3>2 DEF Extends, StartsBin, Is, c, OrderInv
    <3> QED
      BY <2>3, <3>1, <3>2
  <2>9. \A p \in Processed(c)' : p - Skew <= sessions'[c].last_seen
    BY <2>1, <2>2, <2>7, <2>8
  <2>10. \A d \in DOMAIN sessions' :
           /\ sessions'[d].first_seen \in Processed(d)' /\ sessions'[d].packets \subseteq Processed(d)'
           /\ \A p \in Processed(d)' : p - Skew <= sessions'[d].last_seen
    <3> TAKE d \in DOMAIN sessions'
    <3>1. CASE d = c
      BY <2>8, <2>9, <3>1
    <3>2. CASE d # c
      BY <1>0, <2>2, <2>3, <3>2 DEF OrderInv
    <3> QED
      BY <3>1, <3>2
  <2>11. LinesOrder'
    <3>1. CASE UNCHANGED lines
      BY <2>4, <3>1 DEF OrderInv, LinesOrder
    <3>2. CASE c \in DOMAIN sessions /\ FlushSession(c, sessions[c])
      <4>1. Adds(c, sessions[c])
        BY <1>0, <3>2, FlushAdds
      <4> QED
        BY <2>1, <2>4, <3>2, <4>1, LinesProcessed
    <3> QED
      BY <2>3, <3>1, <3>2 DEF First, Extends, StartsBin, Restarts, c
  <2> QED
    BY <2>1, <2>5, <2>6, <2>10, <2>11 DEF OrderInv
<1>4. ASSUME NEW c, c \in DOMAIN sessions, Adds(c, sessions[c]), UNCHANGED <<arrived, todo>>,
             \A d \in DOMAIN sessions' :
               /\ d \in DOMAIN sessions /\ sessions'[d].first_seen = sessions[d].first_seen
               /\ sessions'[d].last_seen = sessions[d].last_seen
               /\ sessions'[d].packets \subseteq sessions[d].packets
      PROVE  OrderInv'
  <2>1. \A d \in Clients : Processed(d)' = Processed(d) /\ Unprocessed(d)' = Unprocessed(d)
    BY <1>4 DEF Processed, Unprocessed
  <2>2. c \in DOMAIN sessions /\ c \in Clients
    BY <1>0, <1>4
  <2>3. LinesOrder'
    BY <1>4, <2>1, <2>2, LinesProcessed
  <2>4. TodoOrder'
    BY <1>4 DEF OrderInv, TodoOrder
  <2> QED
    BY <1>0, <1>4, <2>1, <2>3, <2>4 DEF OrderInv
<1>5. ASSUME NEW c, Removes(c) PROVE OrderInv'
  BY <1>4, <1>5 DEF Removes
<1>6. ASSUME NEW c, Empties(c) PROVE OrderInv'
  <2>1. \A d \in DOMAIN sessions' :
               /\ d \in DOMAIN sessions /\ sessions'[d].first_seen = sessions[d].first_seen
               /\ sessions'[d].last_seen = sessions[d].last_seen
               /\ sessions'[d].packets \subseteq sessions[d].packets
    BY <1>6 DEF Empties, Is
  <2> QED
    BY <1>4, <1>6, <2>1 DEF Empties
<1> QED
  BY <1>1, <1>2, <1>3, <1>5, <1>6, StepCases

(* The initial state satisfies it.                                         *)
LEMMA InitOrder == Init => OrderInv
<1> SUFFICES ASSUME Init PROVE OrderInv
  OBVIOUS
<1>1. todo = <<>> /\ lines = <<>> /\ DOMAIN <<>> = {} /\ DOMAIN sessions = {}
  BY SMT DEF Init
<1>2. \A c \in Clients : arrived[c] = {} /\ Unprocessed(c) = {}
  BY <1>1 DEF Init, Unprocessed
<1> QED
  BY <1>1, <1>2 DEF OrderInv, TodoOrder, LinesOrder, Processed

-----------------------------------------------------------------------------
(* The packets in the lines.                                               *)

\* The packets of client c that are in a line.
Lined(c) == UNION {lines[i].packets : i \in LinesOf(c)}

\* No packet of a client is in two lines.
LinesApart ==
  \A i, j \in DOMAIN lines :
    i # j /\ lines[i].client = lines[j].client => lines[i].packets \cap lines[j].packets = {}

\* A packet that has been processed is in the open bin of its client or in one line.
CountInv ==
  /\ \A c \in Clients : Processed(c) = Open(c) \cup Lined(c) /\ Open(c) \cap Lined(c) = {}
  /\ LinesApart

(* A session's line adds the session's packets to those of its client.     *)
LEMMA AddsLined ==
  ASSUME NEW c, NEW s, Adds(c, s)
  PROVE  /\ \A d : Lined(d)' = IF d = c THEN Lined(d) \cup s.packets ELSE Lined(d)
         /\ LinesApart /\ s.packets \cap Lined(c) = {} => LinesApart'
<1>1. CASE s.packets = {} /\ lines' = lines
  BY <1>1 DEF Lined, LinesOf, LinesApart
<1>2. CASE s.packets # {}
  <2>1. PICK n : /\ n \notin DOMAIN lines /\ DOMAIN lines' = DOMAIN lines \cup {n}
                 /\ \A i \in DOMAIN lines : lines'[i] = lines[i]
                 /\ lines'[n].client = c /\ lines'[n].packets = s.packets
    BY <1>2 DEF Adds
  <2>2. \A d, t : t \in Lined(d) <=>
                    \E i \in DOMAIN lines : lines[i].client = d /\ t \in lines[i].packets
    BY DEF Lined, LinesOf
  <2>3. \A d, t : t \in Lined(d)' <=>
                    \E i \in DOMAIN lines' : lines'[i].client = d /\ t \in lines'[i].packets
    BY DEF Lined, LinesOf
  <2>4. \A d, t : t \in Lined(d)' <=> t \in Lined(d) \/ (d = c /\ t \in s.packets)
    BY <2>1, <2>2, <2>3
  <2>5. \A d : Lined(d)' = IF d = c THEN Lined(d) \cup s.packets ELSE Lined(d)
    BY <2>4
  <2>6. ASSUME LinesApart, s.packets \cap Lined(c) = {} PROVE LinesApart'
    <3>1. \A i \in DOMAIN lines : lines[i].client = c => lines[i].packets \cap s.packets = {}
      BY <2>2, <2>6
    <3> QED
      BY <2>1, <2>6, <3>1 DEF LinesApart
  <2> QED
    BY <2>5, <2>6
<1> QED
  BY <1>1, <1>2 DEF Adds

(* Every step keeps the count.                                             *)
LEMMA NextCount ==
  EngineType /\ ControlInv /\ OrderInv /\ CountInv /\ [Next]_vars => CountInv'
<1> SUFFICES ASSUME EngineType, ControlInv, OrderInv, CountInv, [Next]_vars PROVE CountInv'
  OBVIOUS
<1>0. DOMAIN sessions \subseteq Clients /\ \A c \in DOMAIN sessions : sessions[c] \in SessionState
  BY DEF EngineType, TypeOK
<1>1. CASE Still
  BY <1>1 DEF Still, CountInv, LinesApart, Processed, Unprocessed, Open, Lined, LinesOf
<1>2. ASSUME NEW batch, Receives(batch) PROVE CountInv'
  <2>1. \A c \in Clients : Processed(c)' = Processed(c)
    BY <1>2, ReceiveProcesses
  <2>2. (\A c : Open(c)' = Open(c) /\ Lined(c)' = Lined(c)) /\ LinesApart'
    BY <1>2 DEF Receives, Open, Lined, LinesOf, CountInv, LinesApart
  <2> QED
    BY <2>1, <2>2 DEF CountInv
<1>3. ASSUME NEW r, Processes(r) PROVE CountInv'
  <2> DEFINE c == r.client
  <2>1. /\ \A d \in Clients : Processed(d)' = IF d = c THEN Processed(d) \cup {r.t} ELSE Processed(d)
        /\ r.t \notin Processed(c) /\ c \in Clients
    BY <1>3, ProcessedGrows, ProcessMoves DEF OrderInv
  <2>2. /\ DOMAIN sessions' = DOMAIN sessions \cup {c}
        /\ \A d \in DOMAIN sessions : d # c => sessions'[d] = sessions[d]
        /\ First(r) \/ Extends(r) \/ StartsBin(r) \/ Restarts(r)
    BY <1>3 DEF Processes
  <2>3. \A d \in Clients : d # c => Open(d)' = Open(d)
    BY <2>2 DEF Open
  <2>4. Open(c)' = sessions'[c].packets
    BY <2>2 DEF Open
  <2>5. CASE First(r) \/ Extends(r)
    <3>1. Open(c)' = Open(c) \cup {r.t}
      BY <2>4, <2>5 DEF First, Extends, Is, Open, c
    <3>2. (\A d : Lined(d)' = Lined(d)) /\ LinesApart'
      BY <2>5 DEF First, Extends, Lined, LinesOf, CountInv, LinesApart
    <3> QED
      BY <2>1, <2>3, <3>1, <3>2 DEF CountInv
  <2>6. CASE StartsBin(r) \/ Restarts(r)
    <3>1. /\ Open(c)' = {r.t} /\ c \in DOMAIN sessions /\ FlushSession(c, sessions[c])
          /\ Open(c) = sessions[c].packets
      BY <2>4, <2>6 DEF StartsBin, Restarts, Is, Open, c
    <3>2. Adds(c, sessions[c])
      BY <1>0, <2>1, <3>1, FlushAdds
    <3>3. /\ \A d : Lined(d)' = IF d = c THEN Lined(d) \cup Open(c) ELSE Lined(d)
          /\ LinesApart'
      BY <2>1, <3>1, <3>2, AddsLined DEF CountInv
    <3> QED
      BY <2>1, <2>3, <3>1, <3>3 DEF CountInv
  <2> QED
    BY <2>2, <2>5, <2>6
<1>4. ASSUME NEW c, c \in DOMAIN sessions, Adds(c, sessions[c]), UNCHANGED <<arrived, todo>>,
             Open(c)' = {}, \A d \in Clients : d # c => Open(d)' = Open(d)
      PROVE  CountInv'
  <2>1. c \in Clients /\ Open(c) = sessions[c].packets
    BY <1>0, <1>4 DEF Open
  <2>2. /\ \A d : Lined(d)' = IF d = c THEN Lined(d) \cup Open(c) ELSE Lined(d)
        /\ LinesApart'
    BY <1>4, <2>1, AddsLined DEF CountInv
  <2>3. \A d \in Clients : Processed(d)' = Processed(d)
    BY <1>4 DEF Processed, Unprocessed
  <2> QED
    BY <1>4, <2>1, <2>2, <2>3 DEF CountInv
<1>5. ASSUME NEW c, Removes(c) PROVE CountInv'
  <2>1. Open(c)' = {} /\ \A d \in Clients : d # c => Open(d)' = Open(d)
    BY <1>5 DEF Removes, Open
  <2> QED
    BY <1>4, <1>5, <2>1 DEF Removes
<1>6. ASSUME NEW c, Empties(c) PROVE CountInv'
  <2>1. Open(c)' = {} /\ \A d \in Clients : d # c => Open(d)' = Open(d)
    BY <1>6 DEF Empties, Open, Is
  <2> QED
    BY <1>4, <1>6, <2>1 DEF Empties
<1> QED
  BY <1>1, <1>2, <1>3, <1>5, <1>6, StepCases

(* The initial state satisfies it.                                         *)
LEMMA InitCount == Init => CountInv
<1> SUFFICES ASSUME Init PROVE CountInv
  OBVIOUS
<1>1. todo = <<>> /\ lines = <<>> /\ DOMAIN <<>> = {} /\ DOMAIN sessions = {}
  BY SMT DEF Init
<1>2. \A c \in Clients : arrived[c] = {} /\ Open(c) = {} /\ Lined(c) = {}
  BY <1>1 DEF Init, Open, Lined, LinesOf
<1> QED
  BY <1>1, <1>2 DEF CountInv, LinesApart, Processed

(* Every packet taken counts in one line, or in the open bin of its client, *)
(* or is still to be processed: PacketsConserved.                          *)
THEOREM NoPacketLost == Spec => []PacketsConserved
<1>1. OrderInv /\ CountInv => PacketsConserved
  <2> SUFFICES ASSUME OrderInv, CountInv, NEW c \in Clients
               PROVE  /\ arrived[c] = Open(c) \cup Unprocessed(c) \cup
                                      UNION {lines[i].packets : i \in LinesOf(c)}
                      /\ \A i \in LinesOf(c) :
                           /\ lines[i].packets \cap (Open(c) \cup Unprocessed(c)) = {}
                           /\ \A j \in LinesOf(c) :
                                i # j => lines[i].packets \cap lines[j].packets = {}
    BY DEF PacketsConserved
  <2>1. /\ Processed(c) = Open(c) \cup Lined(c) /\ Open(c) \cap Lined(c) = {}
        /\ Unprocessed(c) \subseteq arrived[c] /\ Processed(c) = arrived[c] \ Unprocessed(c)
    BY DEF OrderInv, CountInv, Processed
  <2>2. \A i \in LinesOf(c) : lines[i].packets \subseteq Lined(c) /\ i \in DOMAIN lines
                              /\ lines[i].client = c
    BY DEF Lined, LinesOf
  <2>3. arrived[c] = Open(c) \cup Unprocessed(c) \cup Lined(c)
    BY <2>1
  <2>4. \A i \in LinesOf(c) : lines[i].packets \cap (Open(c) \cup Unprocessed(c)) = {}
    BY <2>1, <2>2
  <2>5. \A i, j \in LinesOf(c) : i # j => lines[i].packets \cap lines[j].packets = {}
    BY <2>2 DEF CountInv, LinesApart
  <2> QED
    BY <2>3, <2>4, <2>5 DEF Lined
<1> QED
  BY <1>1, InitEngineType, NextEngineType, InitControl, NextControl, InitOrder, NextOrder,
     InitCount, NextCount, PTL DEF Spec

-----------------------------------------------------------------------------
(* The points of the lines.                                                *)

\* The lines of a session so far are for bins before its open one.
BinsClosed(c) ==
  \A i \in DOMAIN lines :
    lines[i].client = c /\ lines[i].session = sessions[c].first_seen =>
      lines[i].bin < sessions[c].bin

PointInv ==
  /\ PointsUnique
  /\ \A c \in DOMAIN sessions : sessions[c].packets # {} => BinsClosed(c)

(* A line is for a new point if its session has no line for its bin.       *)
LEMMA AddsPoint ==
  ASSUME EngineType, PointsUnique, NEW c \in DOMAIN sessions, Adds(c, sessions[c]),
         sessions[c].packets # {} => BinsClosed(c)
  PROVE  PointsUnique'
<1>1. CASE lines' = lines
  BY <1>1 DEF PointsUnique, Point
<1>2. CASE lines' # lines
  <2>1. sessions[c].packets # {}
    BY <1>2 DEF Adds
  <2>2. PICK n : /\ n \notin DOMAIN lines /\ DOMAIN lines' = DOMAIN lines \cup {n}
                 /\ \A i \in DOMAIN lines : lines'[i] = lines[i]
                 /\ lines'[n].client = c /\ lines'[n].session = sessions[c].first_seen
                 /\ lines'[n].bin = sessions[c].bin
    BY <1>2 DEF Adds
  <2>3. sessions[c].bin \in Int
    BY DEF EngineType, TypeOK, SessionState
  <2>4. ASSUME NEW i \in DOMAIN lines, lines[i].client = c,
               lines[i].session = sessions[c].first_seen, lines[i].bin = sessions[c].bin
        PROVE  FALSE
    <3>1. lines[i].bin < sessions[c].bin
      BY <2>1, <2>4 DEF BinsClosed
    <3> QED
      BY <2>3, <2>4, <3>1, SMT
  <2>5. \A i \in DOMAIN lines : Point(lines[i]) # Point(lines'[n])
    BY <2>2, <2>4 DEF Point
  <2>6. \A i \in DOMAIN lines : lines'[i] = lines[i]
    BY <2>2
  <2> SUFFICES ASSUME NEW i \in DOMAIN lines', NEW j \in DOMAIN lines', i # j,
                      Point(lines'[i]) = Point(lines'[j])
               PROVE  FALSE
    BY DEF PointsUnique, Point
  <2> QED
    BY <2>2, <2>5, <2>6 DEF PointsUnique
<1> QED
  BY <1>1, <1>2

(* Every step keeps the points apart.                                      *)
LEMMA NextPoint ==
  EngineType /\ ControlInv /\ OrderInv /\ PointInv /\ EngineType' /\ [Next]_vars => PointInv'
<1> SUFFICES ASSUME EngineType, ControlInv, OrderInv, PointInv, EngineType', [Next]_vars
             PROVE PointInv'
  OBVIOUS
<1>0. DOMAIN sessions \subseteq Clients /\ \A c \in DOMAIN sessions : sessions[c] \in SessionState
  BY DEF EngineType, TypeOK
<1>1. CASE UNCHANGED <<sessions, lines>>
  BY <1>1 DEF PointInv, PointsUnique, BinsClosed, Point
<1>2. ASSUME NEW c \in DOMAIN sessions, Adds(c, sessions[c]),
             \A d \in DOMAIN sessions' : d # c => d \in DOMAIN sessions /\ sessions'[d] = sessions[d]
      PROVE  /\ PointsUnique'
             /\ \A d \in DOMAIN sessions' :
                  d # c => (sessions'[d].packets # {} => BinsClosed(d)')
  <2>1. PointsUnique'
    BY <1>2, AddsPoint DEF PointInv
  <2>2. ASSUME NEW d \in DOMAIN sessions', d # c, sessions'[d].packets # {}
        PROVE  BinsClosed(d)'
    <3>1. sessions'[d] = sessions[d] /\ BinsClosed(d)
      BY <1>2, <2>2 DEF PointInv
    <3>2. \A i \in DOMAIN lines' : lines'[i].client = d => i \in DOMAIN lines /\ lines'[i] = lines[i]
      BY <1>2, <2>2, AddedLine
    <3> QED
      BY <3>1, <3>2 DEF BinsClosed
  <2> QED
    BY <2>1, <2>2
<1>3. ASSUME NEW r, Processes(r) PROVE PointInv'
  <2> DEFINE c == r.client
  <2>1. /\ r.t \notin Processed(c) /\ c \in Clients /\ r.t \in Nat /\ Bin(r.t) \in Nat
    BY <1>3, ProcessedGrows, ProcessMoves, TimeType, BinType DEF OrderInv
  <2>2. /\ DOMAIN sessions' = DOMAIN sessions \cup {c}
        /\ \A d \in DOMAIN sessions : d # c => sessions'[d] = sessions[d]
        /\ First(r) \/ Extends(r) \/ StartsBin(r) \/ Restarts(r)
        /\ \A d \in DOMAIN sessions : sessions[d].packets # {} 
    BY <1>3 DEF Processes
  <2>3. \A i \in DOMAIN lines : lines[i].client = c => lines[i].session # r.t
    BY <2>1 DEF OrderInv, LinesOrder
  <2>4. CASE First(r) \/ Extends(r)
    <3>1. lines' = lines
      BY <2>4 DEF First, Extends
    <3>2. PointsUnique'
      BY <3>1 DEF PointInv, PointsUnique, Point
    <3>3. \A d \in DOMAIN sessions : d # c => BinsClosed(d)'
      BY <2>2, <3>1 DEF PointInv, BinsClosed
    <3>4. CASE First(r)
      <4>1. BinsClosed(c)'
        BY <2>3, <3>1, <3>4 DEF First, Is, BinsClosed, c
      <4> QED
        BY <2>2, <3>2, <3>3, <4>1 DEF PointInv
    <3>5. CASE Extends(r)
      <4>1. BinsClosed(c)
        BY <2>2, <3>5 DEF Extends, PointInv, c
      <4>2. BinsClosed(c)'
        BY <3>1, <3>5, <4>1 DEF Extends, Is, BinsClosed, c
      <4> QED
        BY <2>2, <3>2, <3>3, <4>2 DEF PointInv
    <3> QED
      BY <2>4, <3>4, <3>5
  <2>5. CASE StartsBin(r) \/ Restarts(r)
    <3>1. c \in DOMAIN sessions /\ FlushSession(c, sessions[c])
      BY <2>5 DEF StartsBin, Restarts, c
    <3>2. Adds(c, sessions[c])
      BY <1>0, <2>1, <3>1, FlushAdds
    <3>3. /\ PointsUnique'
          /\ \A d \in DOMAIN sessions' : d # c => (sessions'[d].packets # {} => BinsClosed(d)')
      BY <1>2, <2>2, <3>1, <3>2
    <3>4. CASE StartsBin(r)
      <4>1. /\ sessions'[c].first_seen = sessions[c].first_seen /\ sessions'[c].bin = Bin(r.t)
            /\ sessions[c].bin < Bin(r.t)
        <5>1. sessions[c].bin \in Int
          BY <1>0, <3>1 DEF SessionState
        <5>2. Bin(r.t) > sessions[c].bin
          BY <3>4 DEF StartsBin, c
        <5>3. sessions[c].bin < Bin(r.t)
          BY <2>1, <5>1, <5>2, SMT
        <5> QED
          BY <3>4, <5>3 DEF StartsBin, Is, c
      <4>2. ASSUME NEW i \in DOMAIN lines', lines'[i].client = c,
                   lines'[i].session = sessions[c].first_seen
            PROVE  lines'[i].bin < Bin(r.t)
        <5>1. CASE i \in DOMAIN lines /\ lines'[i] = lines[i]
          <6>1. lines[i].bin < sessions[c].bin
            BY <2>2, <3>1, <4>2, <5>1 DEF PointInv, BinsClosed
          <6>2. lines[i].bin \in Int /\ sessions[c].bin \in Int
            <7>1. lines \in Seq(Line) /\ lines[i] \in Line
              BY <5>1, ElementOfSeq, LenProperties DEF EngineType
            <7> QED
              BY <1>0, <3>1, <7>1 DEF Line, SessionState
          <6> QED
            BY <2>1, <4>1, <5>1, <6>1, <6>2, SMT
        <5>2. CASE lines'[i].bin = sessions[c].bin
          BY <4>1, <5>2
        <5> QED
          BY <3>2, <5>1, <5>2, AddedLine
      <4>3. BinsClosed(c)'
        BY <4>1, <4>2 DEF BinsClosed
      <4> QED
        BY <3>3, <4>3 DEF PointInv
    <3>5. CASE Restarts(r)
      <4>1. sessions'[c].first_seen = r.t
        BY <3>5 DEF Restarts, Is, c
      <4>2. sessions[c].first_seen # r.t
        BY <2>1, <3>1 DEF OrderInv
      <4>3. \A i \in DOMAIN lines' : lines'[i].client = c => lines'[i].session # r.t
        BY <2>3, <3>2, <4>2, AddedLine
      <4>4. BinsClosed(c)'
        BY <4>1, <4>3 DEF BinsClosed
      <4> QED
        BY <3>3, <4>4 DEF PointInv
    <3> QED
      BY <2>5, <3>4, <3>5
  <2> QED
    BY <2>2, <2>4, <2>5
<1>4. ASSUME NEW c, Removes(c) PROVE PointInv'
  BY <1>2, <1>4 DEF Removes, PointInv
<1>5. ASSUME NEW c, Empties(c) PROVE PointInv'
  BY <1>2, <1>5 DEF Empties, Is, PointInv
<1> QED
  BY <1>1, <1>3, <1>4, <1>5, StepCases DEF Still, Receives

(* No line replaces another in InfluxDB: PointsUnique.                     *)
THEOREM PointsNeverCollide == Spec => []PointsUnique
<1>1. Init => PointInv
  <2> SUFFICES ASSUME Init PROVE PointInv
    OBVIOUS
  <2>1. lines = <<>> /\ DOMAIN <<>> = {} /\ DOMAIN sessions = {}
    BY SMT DEF Init
  <2> QED
    BY <2>1 DEF PointInv, PointsUnique
<1>2. PointInv => PointsUnique
  BY DEF PointInv
<1> QED
  BY <1>1, <1>2, InitEngineType, NextEngineType, InitControl, NextControl, InitOrder, NextOrder,
     NextPoint, PTL DEF Spec

-----------------------------------------------------------------------------
(* The bins of the packets.                                                *)

\* Packet t may count in bin b: its own, or one that the skew allows.
InBin(t, b) == Bin(t) <= b /\ (Bin(t) < b => Skew > 0 /\ Bin(t + Skew) >= b)

\* An open bin is the bin of a processed packet, and holds what it may.
BinInv ==
  /\ BinsHoldTheirPackets
  /\ \A c \in DOMAIN sessions :
       /\ \E p \in Processed(c) : sessions[c].bin = Bin(p)
       /\ \A t \in sessions[c].packets : InBin(t, sessions[c].bin)

(* A late packet may count in the bin of an earlier one.                   *)
LEMMA LateInBin ==
  ASSUME NEW p \in Nat, NEW t \in Nat, p - Skew <= t, Bin(t) <= Bin(p)
  PROVE  InBin(t, Bin(p))
<1>1. Skew \in Nat /\ t + Skew \in Nat /\ p <= t + Skew
  BY SessionAssumption, SMT
<1>2. Bin(p) <= Bin(t + Skew)
  BY <1>1, BinMonotone
<1>3. Bin(p) \in Nat /\ Bin(t) \in Nat /\ Bin(t + Skew) \in Nat
  BY <1>1, BinType
<1>4. ASSUME Skew = 0 PROVE Bin(p) <= Bin(t)
  <2>1. p <= t
    BY <1>1, <1>4, SMT
  <2> QED
    BY <2>1, BinMonotone
<1>5. Bin(t + Skew) >= Bin(p)
  BY <1>2, <1>3, SMT
<1>6. Bin(t) < Bin(p) => Skew > 0
  BY <1>1, <1>3, <1>4, SMT
<1> QED
  BY <1>5, <1>6 DEF InBin

(* A packet may count in its own bin.                                      *)
LEMMA OwnBin == \A t \in Nat : InBin(t, Bin(t))
<1> TAKE t \in Nat
<1>1. Bin(t) \in Nat /\ Skew \in Nat
  BY BinType, SessionAssumption
<1>2. t - Skew <= t /\ Bin(t) <= Bin(t)
  BY <1>1, SMT
<1> QED
  BY <1>2, LateInBin

(* Every step keeps the packets in their bins.                             *)
LEMMA NextBin ==
  EngineType /\ ControlInv /\ OrderInv /\ BinInv /\ [Next]_vars => BinInv'
<1> SUFFICES ASSUME EngineType, ControlInv, OrderInv, BinInv, [Next]_vars PROVE BinInv'
  OBVIOUS
<1>0. /\ DOMAIN sessions \subseteq Clients /\ \A c \in DOMAIN sessions : sessions[c] \in SessionState
      /\ arrived \in [Clients -> SUBSET Time]
      /\ \A c \in Clients : Processed(c) \subseteq Nat
  <2>1. arrived \in [Clients -> SUBSET Time]
    BY DEF EngineType, TypeOK
  <2> QED
    BY <2>1, TimeType DEF EngineType, TypeOK, Processed
<1>1. \A i \in DOMAIN lines : \A t \in lines[i].packets : InBin(t, lines[i].bin)
  BY DEF BinInv, BinsHoldTheirPackets, InBin
<1>2. ASSUME \A i \in DOMAIN lines' : \A t \in lines'[i].packets : InBin(t, lines'[i].bin)
      PROVE  BinsHoldTheirPackets'
  BY <1>2 DEF BinsHoldTheirPackets, InBin
<1>3. ASSUME UNCHANGED lines PROVE BinsHoldTheirPackets'
  BY <1>1, <1>2, <1>3
<1>4. ASSUME NEW c \in DOMAIN sessions, Adds(c, sessions[c]) PROVE BinsHoldTheirPackets'
  <2>1. \A t \in sessions[c].packets : InBin(t, sessions[c].bin)
    BY DEF BinInv
  <2>2. ASSUME NEW i \in DOMAIN lines', NEW t \in lines'[i].packets
        PROVE  InBin(t, lines'[i].bin)
    <3>1. CASE i \in DOMAIN lines /\ lines'[i] = lines[i]
      BY <1>1, <2>2, <3>1
    <3>2. CASE lines'[i].bin = sessions[c].bin /\ lines'[i].packets = sessions[c].packets
      BY <2>1, <2>2, <3>2
    <3> QED
      BY <1>4, <3>1, <3>2, AddedLine
  <2> QED
    BY <1>2, <2>2
<1>5. ASSUME \A c \in Clients : Processed(c) \subseteq Processed(c)', BinsHoldTheirPackets',
             NEW e,
             \A d \in DOMAIN sessions' : d # e => d \in DOMAIN sessions /\ sessions'[d] = sessions[d],
             e \in DOMAIN sessions' =>
               /\ \E p \in Processed(e)' : sessions'[e].bin = Bin(p)
               /\ \A t \in sessions'[e].packets : InBin(t, sessions'[e].bin)
      PROVE  BinInv'
  <2>1. ASSUME NEW d \in DOMAIN sessions', d # e
        PROVE  /\ \E p \in Processed(d)' : sessions'[d].bin = Bin(p)
               /\ \A t \in sessions'[d].packets : InBin(t, sessions'[d].bin)
    <3>1. d \in DOMAIN sessions /\ sessions'[d] = sessions[d] /\ d \in Clients
      BY <1>0, <1>5, <2>1
    <3> QED
      BY <1>5, <3>1 DEF BinInv
  <2>2. \A d \in DOMAIN sessions' :
          /\ \E p \in Processed(d)' : sessions'[d].bin = Bin(p)
          /\ \A t \in sessions'[d].packets : InBin(t, sessions'[d].bin)
    BY <1>5, <2>1
  <2>3. (\A d \in DOMAIN sessions :
          /\ \E p \in Processed(d) : sessions[d].bin = Bin(p)
          /\ \A t \in sessions[d].packets : InBin(t, sessions[d].bin))'
    BY <2>2 DEF InBin, Bin
  <2> QED
    BY <1>5, <2>3 DEF BinInv
<1>6. CASE Still
  BY <1>6 DEF Still, BinInv, BinsHoldTheirPackets, Processed, Unprocessed
<1>7. ASSUME NEW batch, Receives(batch) PROVE BinInv'
  <2>1. \A c \in Clients : Processed(c)' = Processed(c)
    BY <1>7, ReceiveProcesses
  <2> QED
    BY <1>0, <1>7, <2>1 DEF Receives, BinInv, BinsHoldTheirPackets
<1>8. ASSUME NEW r, Processes(r) PROVE BinInv'
  <2> DEFINE c == r.client
  <2>1. /\ \A d \in Clients : Processed(d)' = IF d = c THEN Processed(d) \cup {r.t} ELSE Processed(d)
        /\ \A p \in Processed(c) : p - Skew <= r.t
        /\ c \in Clients /\ r.t \in Nat
    BY <1>8, ProcessedGrows, ProcessMoves, TimeType DEF OrderInv
  <2>2. /\ DOMAIN sessions' = DOMAIN sessions \cup {c}
        /\ \A d \in DOMAIN sessions : d # c => sessions'[d] = sessions[d]
        /\ First(r) \/ Extends(r) \/ StartsBin(r) \/ Restarts(r)
    BY <1>8 DEF Processes
  <2>3. BinsHoldTheirPackets'
    <3>1. CASE UNCHANGED lines
      BY <1>3, <3>1
    <3>2. CASE c \in DOMAIN sessions /\ FlushSession(c, sessions[c])
      BY <1>0, <1>4, <3>2, FlushAdds
    <3> QED
      BY <2>2, <3>1, <3>2 DEF First, Extends, StartsBin, Restarts, c
  <2>4. /\ \E p \in Processed(c)' : sessions'[c].bin = Bin(p)
        /\ \A t \in sessions'[c].packets : InBin(t, sessions'[c].bin)
    <3>1. CASE First(r) \/ StartsBin(r) \/ Restarts(r)
      <4>1. sessions'[c].bin = Bin(r.t) /\ sessions'[c].packets = {r.t}
        BY <3>1 DEF First, StartsBin, Restarts, Is, c
      <4>2. r.t \in Processed(c)' /\ InBin(r.t, Bin(r.t))
        BY <2>1, OwnBin
      <4> QED
        BY <4>1, <4>2
    <3>2. CASE Extends(r)
      <4>1. /\ c \in DOMAIN sessions /\ Bin(r.t) <= sessions[c].bin
            /\ sessions'[c].bin = sessions[c].bin
            /\ sessions'[c].packets = sessions[c].packets \cup {r.t}
        BY <3>2 DEF Extends, Is, c
      <4>2. PICK p \in Processed(c) : sessions[c].bin = Bin(p)
        BY <4>1 DEF BinInv
      <4>3. p \in Nat /\ p - Skew <= r.t /\ p \in Processed(c)'
        BY <1>0, <2>1, <4>2
      <4>4. InBin(r.t, Bin(p))
        BY <2>1, <4>1, <4>2, <4>3, LateInBin
      <4>5. \A t \in sessions[c].packets : InBin(t, sessions[c].bin)
        BY <4>1 DEF BinInv
      <4> QED
        BY <4>1, <4>2, <4>3, <4>4, <4>5
    <3> QED
      BY <2>2, <3>1, <3>2
  <2>5. \A d \in Clients : Processed(d) \subseteq Processed(d)'
    BY <2>1
  <2> HIDE DEF c
  <2> QED
    BY <1>5, <2>2, <2>3, <2>4, <2>5
<1>9. ASSUME NEW c, Removes(c) PROVE BinInv'
  <2>1. \A d \in Clients : Processed(d) \subseteq Processed(d)'
    BY <1>9 DEF Removes, Processed, Unprocessed
  <2>2. BinsHoldTheirPackets'
    BY <1>4, <1>9 DEF Removes
  <2> QED
    BY <1>5, <1>9, <2>1, <2>2 DEF Removes
<1>10. ASSUME NEW c, Empties(c) PROVE BinInv'
  <2>1. \A d \in Clients : Processed(d)' = Processed(d)
    BY <1>10 DEF Empties, Processed, Unprocessed
  <2>2. BinsHoldTheirPackets'
    BY <1>4, <1>10 DEF Empties
  <2>3. /\ c \in DOMAIN sessions /\ c \in Clients /\ DOMAIN sessions' = DOMAIN sessions
        /\ sessions'[c].bin = sessions[c].bin
        /\ sessions'[c].packets = {}
        /\ \A d \in DOMAIN sessions : d # c => sessions'[d] = sessions[d]
    BY <1>0, <1>10 DEF Empties, Is
  <2>4. \E p \in Processed(c)' : sessions'[c].bin = Bin(p)
    BY <2>1, <2>3 DEF BinInv
  <2> QED
    BY <1>5, <2>1, <2>2, <2>3, <2>4
<1> QED
  BY <1>6, <1>7, <1>8, <1>9, <1>10, StepCases

(* A packet counts in its own bin, or, if it was late, in a later one that *)
(* the skew allows: BinsHoldTheirPackets.                                  *)
THEOREM BinsAreRight == Spec => []BinsHoldTheirPackets
<1>1. Init => BinInv
  <2> SUFFICES ASSUME Init PROVE BinInv
    OBVIOUS
  <2>1. lines = <<>> /\ DOMAIN <<>> = {} /\ DOMAIN sessions = {}
    BY SMT DEF Init
  <2> QED
    BY <2>1 DEF BinInv, BinsHoldTheirPackets
<1>2. BinInv => BinsHoldTheirPackets
  BY DEF BinInv
<1> QED
  BY <1>1, <1>2, InitEngineType, NextEngineType, InitControl, NextControl, InitOrder, NextOrder,
     NextBin, PTL DEF Spec

-----------------------------------------------------------------------------
(* The silences between sessions.                                          *)

\* Records come early enough that one cannot be late by a session's timeout.
Prompt == Delay + Skew <= SessionTimeout

\* Packet u follows packet t by a silence.
Gap(u, t) == u - t > SessionTimeout - Delay - Skew

\* A silence lies between the packets of the lines of client c that are of other
\* sessions than the one since u, and u.
Older(c, u) ==
  \A i \in DOMAIN lines :
    lines[i].client = c /\ lines[i].session # u =>
      /\ Prompt => lines[i].session < u
      /\ \A t \in lines[i].packets : Gap(u, t)

\* A client without a session has been silent so long that any record to come,
\* of the batch or of a later one, follows a silence.
Silent(c) ==
  \A p \in Processed(c) :
    /\ now - p > SessionTimeout - Skew
    /\ \A u \in Unprocessed(c) : Gap(u, p)

SplitInv ==
  /\ SplitNeedsSilence
  /\ \A c \in DOMAIN sessions : Older(c, sessions[c].first_seen)
  /\ \A c \in Clients \ DOMAIN sessions : Silent(c)

(* The lines of a client after one of its session since u was added.       *)
LEMMA AddsSplit ==
  ASSUME NEW c, NEW u \in Int, NEW s, Adds(c, s), s.first_seen = u, Older(c, u),
         SplitNeedsSilence, DOMAIN lines' \subseteq Int
  PROVE  /\ SplitNeedsSilence' /\ Older(c, u)'
         /\ \A d, v : d # c /\ Older(d, v) => Older(d, v)'
<1>1. /\ \A i \in DOMAIN lines : i \in DOMAIN lines' /\ lines'[i] = lines[i]
      /\ \A i \in DOMAIN lines' :
           \/ i \in DOMAIN lines /\ lines'[i] = lines[i]
           \/ /\ \A j \in DOMAIN lines : j < i
              /\ i \notin DOMAIN lines /\ lines'[i].client = c /\ lines'[i].session = u
  <2>1. \A i \in DOMAIN lines' : ~(i < i)
    BY SMT
  <2> QED
    BY <2>1, AddedLine
<1>2. Older(c, u)'
  BY <1>1 DEF Older
<1>3. \A d, v : d # c /\ Older(d, v) => Older(d, v)'
  BY <1>1 DEF Older
<1>4. SplitNeedsSilence'
  <2> SUFFICES ASSUME NEW i \in DOMAIN lines', NEW j \in DOMAIN lines', i < j,
                      lines'[i].client = lines'[j].client, lines'[i].session # lines'[j].session
               PROVE  /\ \A t \in lines'[i].packets : Gap(lines'[j].session, t)
                      /\ Prompt => lines'[i].session < lines'[j].session
    BY DEF SplitNeedsSilence, Gap, Prompt
  <2>1. CASE /\ i \in DOMAIN lines /\ lines'[i] = lines[i]
             /\ j \in DOMAIN lines /\ lines'[j] = lines[j]
    BY <2>1 DEF SplitNeedsSilence, Gap, Prompt
  <2>2. CASE /\ i \in DOMAIN lines /\ lines'[i] = lines[i]
             /\ lines'[j].client = c /\ lines'[j].session = u
    BY <2>2 DEF Older
  <2>3. CASE /\ \A k \in DOMAIN lines : k < i
             /\ lines'[i].client = c /\ lines'[i].session = u
    <3>1. j \notin DOMAIN lines
      <4>1. ~(j < i)
        BY SMT
      <4> QED
        BY <2>3, <4>1
    <3> QED
      BY <1>1, <2>3, <3>1
  <2> QED
    BY <1>1, <2>1, <2>2, <2>3
<1> QED
  BY <1>2, <1>3, <1>4

(* Every line is older than a session that starts after a silence.         *)
LEMMA StartsLater ==
  ASSUME NEW c \in Clients, NEW u \in Int, Processed(c) \subseteq Int, LinesOrder,
         \A p \in Processed(c) : Gap(u, p)
  PROVE  Older(c, u)
<1>1. {SessionTimeout, Delay, Skew} \subseteq Int
  BY SessionAssumption, SMT
<1>2. ASSUME Prompt PROVE \A p \in Processed(c) : p < u
  <2> TAKE p \in Processed(c)
  <2>1. u - p > SessionTimeout - Delay - Skew /\ p \in Int /\ Delay + Skew <= SessionTimeout
    BY <1>2 DEF Gap, Prompt
  <2> QED
    BY <1>1, <2>1, SMT
<1> QED
  BY <1>2 DEF Older, LinesOrder

(* Every step keeps the sessions apart.                                    *)
LEMMA NextSplit ==
  EngineType /\ ControlInv /\ OrderInv /\ SplitInv /\ EngineType' /\ OrderInv' /\ [Next]_vars
    => SplitInv'
<1> SUFFICES ASSUME EngineType, ControlInv, OrderInv, SplitInv, EngineType', OrderInv', [Next]_vars
             PROVE  SplitInv'
  OBVIOUS
<1>0. /\ DOMAIN sessions \subseteq Clients
      /\ \A c \in DOMAIN sessions : /\ sessions[c] \in SessionState /\ sessions[c].first_seen \in Int
                                    /\ sessions[c].last_seen \in Int
      /\ \A c \in Clients : Processed(c) \subseteq Int
      /\ DOMAIN lines' \subseteq Int
      /\ now \in Int /\ {SessionTimeout, Delay, Skew} \subseteq Nat
  <2>1. arrived \in [Clients -> SUBSET Time] /\ now \in Time
    BY DEF EngineType, TypeOK
  <2>2. now \in Int /\ \A c \in Clients : Processed(c) \subseteq Int
    BY <2>1, TimeType DEF Processed
  <2>3. DOMAIN lines' \subseteq Int
    <3>1. lines' \in Seq(Line)
      BY DEF EngineType
    <3> QED
      BY <3>1, LenProperties
  <2>4. /\ DOMAIN sessions \subseteq Clients
        /\ \A c \in DOMAIN sessions : sessions[c] \in SessionState
    BY DEF EngineType, TypeOK
  <2>5. \A c \in DOMAIN sessions : sessions[c].first_seen \in Int /\ sessions[c].last_seen \in Int
    BY <2>4, TimeType DEF SessionState
  <2>6. {SessionTimeout, Delay, Skew} \subseteq Nat
    BY SessionAssumption
  <2> QED
    BY <2>2, <2>3, <2>4, <2>5, <2>6
<1>1. CASE Still
  <2>1. UNCHANGED <<arrived, todo, sessions, lines>> /\ now <= now'
    BY <1>1 DEF Still
  <2>2. now' \in Int
    BY TimeType DEF EngineType, TypeOK, Time
  <2>3. ASSUME NEW c \in Clients, NEW p \in Processed(c), now - p > SessionTimeout - Skew
        PROVE  now' - p > SessionTimeout - Skew
    <3>1. p \in Int
      BY <1>0
    <3> QED
      BY <1>0, <2>1, <2>2, <2>3, <3>1, SMT
  <2>4. \A c \in Clients : Processed(c)' = Processed(c) /\ Unprocessed(c)' = Unprocessed(c)
    BY <2>1 DEF Processed, Unprocessed
  <2>5. \A c \in Clients : Silent(c) => Silent(c)'
    BY <2>3, <2>4 DEF Silent
  <2>6. SplitNeedsSilence' /\ \A c \in DOMAIN sessions : Older(c, sessions[c].first_seen)'
    BY <2>1 DEF SplitInv, SplitNeedsSilence, Older
  <2> QED
    BY <2>1, <2>5, <2>6 DEF SplitInv
<1>2. ASSUME NEW batch, Receives(batch) PROVE SplitInv'
  <2>1. /\ \A c \in Clients : Processed(c)' = Processed(c)
        /\ \A c \in Clients : \A u \in Unprocessed(c)' : now - Delay <= u /\ u \in Int
    BY <1>2, ReceiveProcesses, TimeType
  <2>2. UNCHANGED <<now, sessions, lines>>
    BY <1>2 DEF Receives
  <2>3. ASSUME NEW c \in Clients, NEW p \in Processed(c), now - p > SessionTimeout - Skew,
               NEW u \in Unprocessed(c)'
        PROVE  Gap(u, p)
    <3>1. p \in Int /\ now - Delay <= u /\ u \in Int
      BY <1>0, <2>1
    <3>2. u - p > SessionTimeout - Delay - Skew
      BY <1>0, <2>3, <3>1, SMT
    <3> QED
      BY <3>2 DEF Gap
  <2>4. \A c \in Clients : Silent(c) => Silent(c)'
    BY <2>1, <2>2, <2>3 DEF Silent
  <2>5. SplitNeedsSilence' /\ \A c \in DOMAIN sessions : Older(c, sessions[c].first_seen)'
    BY <2>2 DEF SplitInv, SplitNeedsSilence, Older
  <2> QED
    BY <2>2, <2>4, <2>5 DEF SplitInv
<1>3. ASSUME NEW r, Processes(r) PROVE SplitInv'
  <2> DEFINE c == r.client
  <2>1. /\ \A d \in Clients : Processed(d)' = IF d = c THEN Processed(d) \cup {r.t} ELSE Processed(d)
        /\ \A d \in Clients :
             Unprocessed(d)' = IF d = c THEN Unprocessed(d) \ {r.t} ELSE Unprocessed(d)
        /\ \A p \in Processed(c) : p - Skew <= r.t
        /\ c \in Clients /\ r.t \in Int /\ r.t \in Unprocessed(c)
    BY <1>3, ProcessedGrows, ProcessMoves, TimeType DEF OrderInv
  <2>2. /\ DOMAIN sessions' = DOMAIN sessions \cup {c} /\ now' = now
        /\ \A d \in DOMAIN sessions : d # c => sessions'[d] = sessions[d]
        /\ First(r) \/ Extends(r) \/ StartsBin(r) \/ Restarts(r)
    BY <1>3 DEF Processes
  <2>3. \A d \in Clients \ DOMAIN sessions' : Silent(d)'
    BY <2>1, <2>2 DEF SplitInv, Silent
  <2>4. ASSUME SplitNeedsSilence', NEW v, sessions'[c].first_seen = v, Older(c, v)',
               \A d, w : d # c /\ Older(d, w) => Older(d, w)'
        PROVE  SplitInv'
    <3>1. ASSUME NEW d \in DOMAIN sessions'
          PROVE  Older(d, sessions[d].first_seen)'
      <4>1. CASE d = c
        BY <2>4, <4>1 DEF Older
      <4>2. CASE d # c
        <5>1. PICK w : w = sessions[d].first_seen
          OBVIOUS
        <5>2. Older(d, w) /\ sessions'[d].first_seen = w
          BY <2>2, <4>2, <5>1 DEF SplitInv
        <5>3. Older(d, w)'
          BY <2>4, <4>2, <5>2
        <5> QED
          BY <5>2, <5>3 DEF Older
      <4> QED
        BY <4>1, <4>2
    <3> QED
      BY <2>3, <2>4, <3>1 DEF SplitInv
  <2>5. ASSUME UNCHANGED lines, NEW v, sessions'[c].first_seen = v, Older(c, v)
        PROVE  SplitInv'
    <3>1. SplitNeedsSilence' /\ \A d, w : Older(d, w) => Older(d, w)'
      BY <2>5 DEF SplitInv, SplitNeedsSilence, Older
    <3> QED
      BY <2>4, <2>5, <3>1
  <2>6. CASE First(r)
    <3>1. c \notin DOMAIN sessions /\ UNCHANGED lines /\ sessions'[c].first_seen = r.t
      BY <2>6 DEF First, Is, c
    <3>2. \A p \in Processed(c) : Gap(r.t, p)
      BY <2>1, <3>1 DEF SplitInv, Silent
    <3>3. Older(c, r.t)
      BY <1>0, <2>1, <3>2, StartsLater DEF OrderInv
    <3> QED
      BY <2>5, <3>1, <3>3
  <2>7. CASE Extends(r)
    <3>1. /\ c \in DOMAIN sessions /\ UNCHANGED lines
          /\ sessions'[c].first_seen = sessions[c].first_seen
      BY <2>7 DEF Extends, Is, c
    <3> QED
      BY <2>5, <3>1 DEF SplitInv
  <2>8. CASE StartsBin(r)
    <3>1. /\ c \in DOMAIN sessions /\ FlushSession(c, sessions[c])
          /\ sessions'[c].first_seen = sessions[c].first_seen
      BY <2>8 DEF StartsBin, Is, c
    <3>2. Adds(c, sessions[c])
      BY <1>0, <2>1, <3>1, FlushAdds
    <3>3. PICK v \in Int : sessions[c].first_seen = v /\ Older(c, v)
      BY <1>0, <3>1 DEF SplitInv
    <3>4. SplitNeedsSilence' /\ Older(c, v)' /\ \A d, w : d # c /\ Older(d, w) => Older(d, w)'
      BY <1>0, <3>2, <3>3, AddsSplit DEF SplitInv
    <3> QED
      BY <2>4, <3>1, <3>3, <3>4
  <2>9. CASE Restarts(r)
    <3>1. /\ c \in DOMAIN sessions /\ FlushSession(c, sessions[c])
          /\ sessions'[c].first_seen = r.t /\ r.t - sessions[c].last_seen > SessionTimeout
      BY <2>9 DEF Restarts, Stale, Is, c
    <3>2. Adds(c, sessions[c])
      BY <1>0, <2>1, <3>1, FlushAdds
    <3>3. PICK v \in Int : sessions[c].first_seen = v /\ Older(c, v)
      BY <1>0, <3>1 DEF SplitInv
    <3>4. SplitNeedsSilence' /\ \A d, w : d # c /\ Older(d, w) => Older(d, w)'
      BY <1>0, <3>2, <3>3, AddsSplit DEF SplitInv
    <3>5. \A p \in Processed(c) : Gap(r.t, p)
      <4> TAKE p \in Processed(c)
      <4>1. /\ p \in Int /\ p - Skew <= sessions[c].last_seen /\ sessions[c].last_seen \in Int
            /\ r.t - sessions[c].last_seen > SessionTimeout
        BY <1>0, <2>1, <3>1 DEF OrderInv
      <4>2. r.t - p > SessionTimeout - Delay - Skew
        BY <1>0, <2>1, <4>1, SMT
      <4> QED
        BY <4>2 DEF Gap
    <3>6. ASSUME NEW i \in DOMAIN lines', lines'[i].client = c
          PROVE  lines'[i].session \in Processed(c) /\ lines'[i].packets \subseteq Processed(c)
      <4>1. CASE i \in DOMAIN lines /\ lines'[i] = lines[i]
        BY <2>1, <3>6, <4>1 DEF OrderInv, LinesOrder
      <4>2. CASE /\ lines'[i].session = sessions[c].first_seen
                 /\ lines'[i].packets = sessions[c].packets
        BY <3>1, <4>2 DEF OrderInv
      <4> QED
        BY <3>2, <4>1, <4>2, AddedLine
    <3>7. ASSUME Prompt PROVE \A p \in Processed(c) : p < r.t
      <4> TAKE p \in Processed(c)
      <4>1. r.t - p > SessionTimeout - Delay - Skew /\ p \in Int /\ Delay + Skew <= SessionTimeout
        BY <1>0, <2>1, <3>5, <3>7 DEF Gap, Prompt
      <4> QED
        BY <1>0, <2>1, <4>1, SMT
    <3>8. Older(c, r.t)'
      BY <3>5, <3>6, <3>7 DEF Older, Gap
    <3> QED
      BY <2>4, <3>1, <3>4, <3>8
  <2> QED
    BY <2>2, <2>6, <2>7, <2>8, <2>9
<1>4. ASSUME NEW c \in DOMAIN sessions, Adds(c, sessions[c]), UNCHANGED <<now, arrived, todo>>,
             \A d \in DOMAIN sessions' :
               d \in DOMAIN sessions /\ sessions'[d].first_seen = sessions[d].first_seen,
             \A d \in Clients \ DOMAIN sessions' : Silent(d)
      PROVE  SplitInv'
  <2>1. PICK v \in Int : sessions[c].first_seen = v /\ Older(c, v)
    BY <1>0 DEF SplitInv
  <2>2. SplitNeedsSilence' /\ Older(c, v)' /\ \A d, w : d # c /\ Older(d, w) => Older(d, w)'
    BY <1>0, <1>4, <2>1, AddsSplit DEF SplitInv
  <2>3. ASSUME NEW d \in DOMAIN sessions' PROVE Older(d, sessions[d].first_seen)'
    <3>1. PICK w : w = sessions[d].first_seen
      OBVIOUS
    <3>2. Older(d, w) /\ sessions'[d].first_seen = w
      BY <1>4, <3>1 DEF SplitInv
    <3>3. Older(d, w)'
      BY <2>1, <2>2, <3>1, <3>2
    <3> QED
      BY <3>2, <3>3 DEF Older
  <2>4. \A d \in Clients \ DOMAIN sessions' : Silent(d)'
    BY <1>4 DEF Silent, Processed, Unprocessed
  <2> QED
    BY <2>2, <2>3, <2>4 DEF SplitInv
<1>5. ASSUME NEW c, Removes(c) PROVE SplitInv'
  <2>1. /\ c \in DOMAIN sessions /\ todo = <<>> /\ now - sessions[c].last_seen > SessionTimeout
        /\ Adds(c, sessions[c]) /\ UNCHANGED <<now, arrived, todo>>
        /\ DOMAIN sessions' = DOMAIN sessions \ {c}
        /\ \A d \in DOMAIN sessions' : sessions'[d] = sessions[d]
    BY <1>5 DEF Removes
  <2>2. Unprocessed(c) = {}
    <3>1. DOMAIN todo = {}
      BY <2>1, SMT
    <3> QED
      BY <3>1 DEF Unprocessed
  <2>3. \A p \in Processed(c) : now - p > SessionTimeout - Skew
    <3> TAKE p \in Processed(c)
    <3>1. p \in Int /\ p - Skew <= sessions[c].last_seen /\ sessions[c].last_seen \in Int
      BY <1>0, <2>1 DEF OrderInv
    <3> QED
      BY <1>0, <2>1, <3>1, SMT
  <2>4. \A d \in Clients \ DOMAIN sessions' : Silent(d)
    BY <2>1, <2>2, <2>3 DEF SplitInv, Silent
  <2> QED
    BY <1>4, <2>1, <2>4
<1>6. ASSUME NEW c, Empties(c) PROVE SplitInv'
  <2>1. /\ c \in DOMAIN sessions /\ Adds(c, sessions[c]) /\ UNCHANGED <<now, arrived, todo>>
        /\ DOMAIN sessions' = DOMAIN sessions
        /\ \A d \in DOMAIN sessions' : sessions'[d].first_seen = sessions[d].first_seen
    BY <1>6 DEF Empties, Is
  <2> QED
    BY <1>4, <2>1 DEF SplitInv
<1> QED
  BY <1>1, <1>2, <1>3, <1>5, <1>6, StepCases

(* A client's traffic is split into two sessions only at a silence, and    *)
(* the later session starts later if no record is late by more than the    *)
(* session timeout: SplitNeedsSilence.                                     *)
THEOREM SplitsAreSilences == Spec => []SplitNeedsSilence
<1>1. Init => SplitInv
  <2> SUFFICES ASSUME Init PROVE SplitInv
    OBVIOUS
  <2>1. todo = <<>> /\ lines = <<>> /\ DOMAIN <<>> = {} /\ DOMAIN sessions = {}
    BY SMT DEF Init
  <2>2. \A c \in Clients : Processed(c) = {}
    BY DEF Init, Processed
  <2> QED
    BY <2>1, <2>2 DEF SplitInv, SplitNeedsSilence, Silent
<1>2. SplitInv => SplitNeedsSilence
  BY DEF SplitInv
<1>3. EngineType /\ ControlInv /\ OrderInv /\ SplitInv /\ EngineType' /\ OrderInv' /\ [Next]_vars
      => SplitInv'
  BY NextSplit
<1> QED
  BY <1>1, <1>2, <1>3, InitEngineType, NextEngineType, InitControl, NextControl, InitOrder,
     NextOrder, PTL DEF Spec

-----------------------------------------------------------------------------
(* The way of the lines to the exporter.                                   *)

\* ExportInOrder, of any positions w in any lines L.
InOrder(w, L) ==
  /\ \A i \in DOMAIN w : L[w[i]].queued
  /\ \A i, j \in DOMAIN w : i < j => w[i] < w[j]
  /\ w # <<>> => \A k \in w[1] .. Len(L) : L[k].queued => \E i \in DOMAIN w : w[i] = k

(* Lines taken from the front leave the others in order.                   *)
LEMMA OrderSuffix ==
  ASSUME NEW L \in Seq(Line), NEW w \in Seq(Nat), NEW v \in Seq(Nat), NEW d \in Nat,
         Len(w) = Len(v) + d, \A i \in DOMAIN v : v[i] = w[i + d], InOrder(w, L)
  PROVE  InOrder(v, L)
<1>1. /\ Len(v) \in Nat /\ DOMAIN v = 1 .. Len(v) /\ DOMAIN w = 1 .. Len(w)
      /\ \A i \in DOMAIN v : i \in Nat /\ i >= 1 /\ i <= Len(v) /\ i + d \in DOMAIN w
  BY SMT
<1>2. \A i \in DOMAIN v : L[v[i]].queued
  BY <1>1 DEF InOrder
<1>3. ASSUME NEW i \in DOMAIN v, NEW j \in DOMAIN v, i < j PROVE v[i] < v[j]
  <2>1. i + d < j + d
    BY <1>1, <1>3, SMT
  <2> QED
    BY <1>1, <2>1 DEF InOrder
<1>4. ASSUME v # <<>>, NEW k \in v[1] .. Len(L), L[k].queued PROVE \E i \in DOMAIN v : v[i] = k
  <2>1. 1 \in DOMAIN v /\ 1 + d \in DOMAIN w /\ v[1] = w[1 + d] /\ w # <<>>
    <3>1. Len(v) # 0
      BY <1>4, EmptySeq
    <3>2. 1 \in DOMAIN v
      BY <1>1, <3>1, SMT
    <3>3. Len(w) # 0
      BY <1>1, <3>1, SMT
    <3> QED
      BY <1>1, <3>2, <3>3, EmptySeq
  <2>2. /\ 1 \in DOMAIN w /\ w[1] \in Nat /\ w[1 + d] \in Nat /\ k \in Int /\ w[1 + d] <= k
        /\ k <= Len(L) /\ Len(L) \in Nat
    BY <1>1, <2>1, SMT
  <2>3. w[1] <= w[1 + d]
    <3>1. CASE d = 0
      BY <2>2, <3>1, SMT
    <3>2. CASE d # 0
      <4>1. 1 < 1 + d
        BY <3>2, SMT
      <4>2. w[1] < w[1 + d]
        BY <2>1, <2>2, <4>1 DEF InOrder
      <4> QED
        BY <2>2, <4>2, SMT
    <3> QED
      BY <3>1, <3>2
  <2>4. k \in w[1] .. Len(L)
    BY <2>2, <2>3, SMT
  <2>5. PICK m \in DOMAIN w : w[m] = k
    BY <1>4, <2>1, <2>4 DEF InOrder
  <2>6. ~(m < 1 + d)
    <3>1. m < 1 + d => w[m] < w[1 + d]
      BY <2>1 DEF InOrder
    <3> QED
      BY <2>2, <2>5, <3>1, SMT
  <2>7. m - d \in DOMAIN v /\ (m - d) + d = m
    BY <1>1, <2>6, SMT
  <2> QED
    BY <2>5, <2>7
<1> QED
  BY <1>2, <1>3, <1>4 DEF InOrder

(* A line flushed goes to the end, or is lost and leaves the others be.    *)
LEMMA OrderGrows ==
  ASSUME NEW L \in Seq(Line), NEW l \in Line, NEW w \in Seq(DOMAIN L), NEW v,
         v = IF l.queued THEN Append(w, Len(L) + 1) ELSE w, InOrder(w, L)
  PROVE  InOrder(v, Append(L, l))
<1> DEFINE n == Len(L) + 1
           M == Append(L, l)
<1>1. /\ n \in Nat /\ DOMAIN L = 1 .. n - 1 /\ Len(M) = n /\ M[n] = l
      /\ \A i \in DOMAIN L : M[i] = L[i] /\ i < n /\ i \in Nat
      /\ Len(L) = n - 1
  BY SMT
<1> HIDE DEF n, M
<1>2. /\ Len(w) \in Nat /\ DOMAIN w = 1 .. Len(w) /\ \A i \in DOMAIN w : w[i] \in DOMAIN L
  BY SMT
<1>3. /\ \A i \in DOMAIN w : M[w[i]].queued /\ w[i] < n
      /\ \A i, j \in DOMAIN w : i < j => w[i] < w[j]
  BY <1>1, <1>2 DEF InOrder
<1>4. ASSUME w # <<>>, NEW k \in w[1] .. n - 1, M[k].queued PROVE \E i \in DOMAIN w : w[i] = k
  <2>1. 1 \in DOMAIN w
    <3>1. Len(w) # 0
      BY <1>4, EmptySeq
    <3> QED
      BY <1>2, <3>1, SMT
  <2>2. k \in DOMAIN L /\ k \in w[1] .. Len(L)
    BY <1>1, <1>2, <2>1, SMT
  <2>3. L[k].queued
    BY <1>1, <1>4, <2>2
  <2> QED
    BY <1>4, <2>2, <2>3 DEF InOrder
<1>5. CASE ~l.queued
  <2>1. v = w
    BY <1>5
  <2>2. ASSUME w # <<>>, NEW k \in w[1] .. n, M[k].queued PROVE \E i \in DOMAIN w : w[i] = k
    <3>1. k # n
      BY <1>1, <1>5, <2>2
    <3>2. 1 \in DOMAIN w
      <4>1. Len(w) # 0
        BY <2>2, EmptySeq
      <4> QED
        BY <1>2, <4>1, SMT
    <3>3. w[1] \in Nat
      BY <1>1, <1>2, <3>2
    <3>4. k \in w[1] .. n - 1
      BY <1>1, <3>1, <3>3, SMT
    <3> QED
      BY <1>4, <2>2, <3>4
  <2>3. InOrder(w, M)
    BY <1>1, <1>3, <2>2 DEF InOrder
  <2> QED
    BY <2>1, <2>3 DEF M
<1>6. CASE l.queued
  <2>1. v = Append(w, n)
    BY <1>6 DEF n
  <2>2. /\ Len(v) = Len(w) + 1 /\ DOMAIN v = 1 .. Len(w) + 1 /\ v[Len(w) + 1] = n
        /\ \A i \in DOMAIN w : v[i] = w[i]
    BY <2>1, <1>2, SMT
  <2>3. \A i \in DOMAIN v : i \in DOMAIN w \/ i = Len(w) + 1
    BY <1>2, <2>2, SMT
  <2>4. \A i \in DOMAIN v : M[v[i]].queued
    BY <1>1, <1>3, <1>6, <2>2, <2>3
  <2>5. ASSUME NEW i \in DOMAIN v, NEW j \in DOMAIN v, i < j PROVE v[i] < v[j]
    <3>1. i \in DOMAIN w
      BY <1>2, <2>2, <2>5, SMT
    <3> QED
      BY <1>3, <2>2, <2>3, <2>5, <3>1
  <2>6. ASSUME NEW k \in v[1] .. n, M[k].queued PROVE \E i \in DOMAIN v : v[i] = k
    <3>1. CASE k = n
      <4>1. Len(w) + 1 \in DOMAIN v
        BY <1>2, <2>2, SMT
      <4> QED
        BY <2>2, <3>1, <4>1
    <3>2. CASE k # n /\ w # <<>>
      <4>1. 1 \in DOMAIN w
        <5>1. Len(w) # 0
          BY <3>2, EmptySeq
        <5> QED
          BY <1>2, <5>1, SMT
      <4>2. v[1] = w[1] /\ w[1] \in Nat
        BY <1>1, <1>2, <2>2, <4>1
      <4>3. k \in w[1] .. n - 1
        BY <1>1, <3>2, <4>2, SMT
      <4>4. PICK i \in DOMAIN w : w[i] = k
        BY <1>4, <2>6, <3>2, <4>3
      <4> QED
        BY <1>2, <2>2, <4>4, SMT
    <3>3. CASE k # n /\ w = <<>>
      <4>1. Len(w) = 0
        BY <3>3, EmptySeq
      <4>2. v[1] = n
        BY <2>2, <4>1, SMT
      <4> QED
        BY <1>1, <3>3, <4>2, SMT
    <3> QED
      BY <3>1, <3>2, <3>3
  <2>7. InOrder(v, M)
    BY <1>1, <2>4, <2>5, <2>6 DEF InOrder
  <2> QED
    BY <2>7 DEF M
<1> QED
  BY <1>5, <1>6

\* Without a database no payload is collected.
ExportInv == ExportInOrder /\ (~configured => payload = <<>>)

(* The payload and the queue are positions.                                *)
LEMMA TransitType ==
  ASSUME EngineType
  PROVE  /\ payload \in Seq(DOMAIN lines) /\ influxQ \in Seq(DOMAIN lines)
         /\ InTransit \in Seq(DOMAIN lines) /\ InTransit \in Seq(Nat)
         /\ Len(payload) \in Nat /\ Len(influxQ) \in Nat
         /\ Len(InTransit) = Len(influxQ) + Len(payload)
         /\ \A i \in 1 .. Len(payload) + Len(influxQ) :
              InTransit[i] = IF i <= Len(payload) THEN payload[i] ELSE influxQ[i - Len(payload)]
<1>1. payload \in Seq(DOMAIN lines) /\ influxQ \in Seq(DOMAIN lines) /\ DOMAIN lines \subseteq Nat
  <2>1. lines \in Seq(Line)
    BY DEF EngineType
  <2>2. DOMAIN lines \subseteq Nat
    BY <2>1, SMT
  <2> QED
    BY <2>2 DEF EngineType, TypeOK
<1>2. /\ InTransit \in Seq(DOMAIN lines)
      /\ Len(InTransit) = Len(payload) + Len(influxQ)
      /\ \A i \in 1 .. Len(payload) + Len(influxQ) :
           InTransit[i] = IF i <= Len(payload) THEN payload[i] ELSE influxQ[i - Len(payload)]
  BY <1>1, ConcatProperties DEF InTransit
<1>3. InTransit \in Seq(Nat)
  BY <1>1, <1>2, SeqMonotonic
<1>4. Len(payload) \in Nat /\ Len(influxQ) \in Nat
  BY <1>1, LenProperties
<1>5. Len(payload) + Len(influxQ) = Len(influxQ) + Len(payload)
  BY <1>4, SMT
<1> QED
  BY <1>1, <1>2, <1>3, <1>4, <1>5

(* The same after a step.                                                  *)
LEMMA TransitTypeNext ==
  ASSUME EngineType'
  PROVE  /\ payload' \in Seq(DOMAIN lines') /\ influxQ' \in Seq(DOMAIN lines')
         /\ InTransit' \in Seq(Nat)
         /\ Len(payload') \in Nat /\ Len(influxQ') \in Nat
         /\ Len(InTransit') = Len(influxQ') + Len(payload')
         /\ \A i \in 1 .. Len(payload') + Len(influxQ') :
              InTransit'[i] = IF i <= Len(payload') THEN payload'[i] ELSE influxQ'[i - Len(payload')]
<1>1. payload' \in Seq(DOMAIN lines') /\ influxQ' \in Seq(DOMAIN lines') /\ DOMAIN lines' \subseteq Nat
  <2>1. lines' \in Seq(Line)
    BY DEF EngineType
  <2>2. DOMAIN lines' \subseteq Nat
    BY <2>1, SMT
  <2> QED
    BY <2>2 DEF EngineType, TypeOK
<1>2. /\ InTransit' \in Seq(DOMAIN lines')
      /\ Len(InTransit') = Len(payload') + Len(influxQ')
      /\ \A i \in 1 .. Len(payload') + Len(influxQ') :
           InTransit'[i] = IF i <= Len(payload') THEN payload'[i] ELSE influxQ'[i - Len(payload')]
  BY <1>1, ConcatProperties DEF InTransit
<1>3. InTransit' \in Seq(Nat)
  BY <1>1, <1>2, SeqMonotonic
<1>4. Len(payload') \in Nat /\ Len(influxQ') \in Nat
  BY <1>1, LenProperties
<1>5. Len(payload') + Len(influxQ') = Len(influxQ') + Len(payload')
  BY <1>4, SMT
<1> QED
  BY <1>1, <1>2, <1>3, <1>4, <1>5

(* A flush adds a line to those in transit, or loses it.                   *)
LEMMA FlushKeepsOrder ==
  ASSUME EngineType, ExportInv, NEW c \in Clients, NEW s \in SessionState, FlushSession(c, s),
         UNCHANGED export
  PROVE  ExportInv'
<1>1. lines \in Seq(Line) /\ InOrder(InTransit, lines) /\ UNCHANGED <<payload, configured>>
  BY DEF EngineType, ExportInv, ExportInOrder, InOrder, export
<1>2. CASE s.packets = {}
  BY <1>1, <1>2 DEF FlushSession, ExportInv, ExportInOrder, InTransit
<1>3. CASE s.packets # {}
  <2> DEFINE l == LineOf(c, s)
             n == Len(lines) + 1
  <2>1. lines' = Append(lines, l) /\ influxQ' = IF l.queued THEN Append(influxQ, n) ELSE influxQ
    BY <1>3 DEF FlushSession
  <2>2. l \in Line
    BY DEF LineOf, Line, SessionState
  <2>3. n \in Nat /\ DOMAIN lines \subseteq Nat
    BY <1>1, SMT
  <2> HIDE DEF l, n
  <2>4. InTransit' = IF l.queued THEN Append(InTransit, n) ELSE InTransit
    <3>1. payload \in Seq(Nat) /\ influxQ \in Seq(Nat)
      BY <2>3, TransitType, SeqMonotonic
    <3>2. payload \o Append(influxQ, n) = Append(payload \o influxQ, n)
      <4>1. payload \o (influxQ \o <<n>>) = (payload \o influxQ) \o <<n>>
        <5>1. <<n>> \in Seq(Nat)
          BY <2>3, SMT
        <5> QED
          BY <3>1, <5>1, ConcatAssociative
      <4>2. Append(influxQ, n) = influxQ \o <<n>>
        BY <2>3, <3>1, AppendIsConcat
      <4>3. payload \o influxQ \in Seq(Nat)
        BY <3>1, ConcatProperties
      <4>4. Append(payload \o influxQ, n) = (payload \o influxQ) \o <<n>>
        BY <2>3, <4>3, AppendIsConcat
      <4> QED
        BY <4>1, <4>2, <4>4
    <3> QED
      BY <1>1, <2>1, <3>2 DEF InTransit
  <2>5. InOrder(InTransit', Append(lines, l))
    BY <1>1, <2>2, <2>4, TransitType, OrderGrows DEF n
  <2> QED
    BY <1>1, <2>1, <2>5 DEF ExportInv, ExportInOrder, InOrder
<1> QED
  BY <1>2, <1>3

(* Every step keeps the lines in order.                                    *)
LEMMA NextExport == EngineType /\ EngineType' /\ ExportInv /\ [Next]_vars => ExportInv'
<1> SUFFICES ASSUME EngineType, EngineType', ExportInv, [Next]_vars PROVE ExportInv'
  OBVIOUS
<1>0. /\ lines \in Seq(Line) /\ InTransit \in Seq(Nat) /\ InOrder(InTransit, lines)
      /\ DOMAIN sessions \subseteq Clients /\ unchecked \subseteq DOMAIN sessions
      /\ \A c \in DOMAIN sessions : sessions[c] \in SessionState
  BY TransitType DEF EngineType, TypeOK, ExportInv, ExportInOrder, InOrder
<1>1. ASSUME UNCHANGED <<lines, influxQ, payload, configured>> PROVE ExportInv'
  BY <1>1 DEF ExportInv, ExportInOrder, InTransit
<1>2. ASSUME ProcessRecord PROVE ExportInv'
  <2> DEFINE r == Head(todo)
  <2>1. r \in Record /\ Process(r) /\ UNCHANGED export
    BY <1>2, HeadTailProperties DEF ProcessRecord, EngineType, TypeOK
  <2> HIDE DEF r
  <2>2. r.client \in Clients
    BY <2>1 DEF Record
  <2>3. CASE UNCHANGED <<lines, influxQ>>
    BY <1>1, <2>1, <2>3 DEF export
  <2>4. CASE r.client \in DOMAIN sessions /\ FlushSession(r.client, sessions[r.client])
    BY <1>0, <2>1, <2>2, <2>4, FlushKeepsOrder
  <2> QED
    BY <2>1, <2>3, <2>4, ProcessCases DEF First, Extends, StartsBin, Restarts
<1>3. ASSUME CleanSession PROVE ExportInv'
  <2>1. PICK c \in unchecked : FlushSession(c, sessions[c]) \/ UNCHANGED <<lines, influxQ>>
    BY <1>3 DEF CleanSession
  <2>2. UNCHANGED export
    BY <1>3 DEF CleanSession
  <2> QED
    BY <1>0, <1>1, <2>1, <2>2, FlushKeepsOrder DEF export
<1>4. ASSUME ShutdownSession PROVE ExportInv'
  <2>1. PICK c \in unchecked : FlushSession(c, sessions[c])
    BY <1>4 DEF ShutdownSession
  <2>2. UNCHANGED export
    BY <1>4 DEF ShutdownSession
  <2> QED
    BY <1>0, <2>1, <2>2, FlushKeepsOrder
<1>5. ASSUME NEW d \in Nat, Len(InTransit) = Len(InTransit') + d, UNCHANGED <<lines, configured>>,
             \A i \in DOMAIN InTransit' : InTransit'[i] = InTransit[i + d],
             ~configured => payload' = <<>>
      PROVE  ExportInv'
  <2>1. InTransit' \in Seq(Nat)
    BY TransitTypeNext
  <2>2. InOrder(InTransit', lines)
    BY <1>0, <1>5, <2>1, OrderSuffix
  <2> QED
    BY <1>5, <2>2 DEF ExportInv, ExportInOrder, InOrder
<1>6. ASSUME CollectLine PROVE ExportInv'
  <2>1. /\ influxQ # <<>> /\ influxQ' = Tail(influxQ) /\ UNCHANGED <<lines, configured>>
        /\ payload' = IF configured THEN Append(payload, Head(influxQ)) ELSE payload
    BY <1>6 DEF CollectLine
  <2> DEFINE p == Len(payload)
             q == Len(influxQ)
  <2>2. /\ influxQ \in Seq(DOMAIN lines) /\ payload \in Seq(DOMAIN lines)
        /\ p \in Nat /\ q \in Nat \ {0} /\ Head(influxQ) = influxQ[1]
        /\ Len(influxQ') = q - 1 /\ \A i \in 1 .. q - 1 : influxQ'[i] = influxQ[i + 1]
    <3>1. influxQ \in Seq(DOMAIN lines) /\ payload \in Seq(DOMAIN lines) /\ p \in Nat /\ q \in Nat
      BY TransitType
    <3>2. q # 0
      BY <2>1, <3>1, EmptySeq
    <3> QED
      BY <2>1, <3>1, <3>2, HeadTailProperties, SMT
  <2>3. CASE configured
    <3>1. /\ Len(payload') = p + 1 /\ payload'[p + 1] = influxQ[1]
          /\ \A i \in 1 .. p : payload'[i] = payload[i]
      BY <2>1, <2>2, <2>3, AppendProperties, HeadTailProperties
    <3>2. /\ Len(InTransit) = Len(InTransit') + 0 /\ DOMAIN InTransit' = 1 .. p + q
          /\ Len(payload') + Len(influxQ') = p + q
      BY <2>2, <3>1, TransitType, TransitTypeNext, SMT
    <3>3. ASSUME NEW i \in DOMAIN InTransit' PROVE InTransit'[i] = InTransit[i + 0]
      <4>1. /\ i \in 1 .. p + q /\ i + 0 = i
            /\ InTransit'[i] = IF i <= p + 1 THEN payload'[i] ELSE influxQ'[i - (p + 1)]
        <5>1. i \in 1 .. Len(payload') + Len(influxQ') /\ i + 0 = i
          BY <2>2, <3>2, <3>3, SMT
        <5> QED
          BY <3>1, <3>2, <5>1, TransitTypeNext
      <4>2. InTransit[i] = IF i <= p THEN payload[i] ELSE influxQ[i - p]
        BY <4>1, TransitType
      <4>3. CASE i <= p
        BY <2>2, <3>1, <4>1, <4>2, <4>3, SMT
      <4>4. CASE i = p + 1
        BY <2>2, <3>1, <4>1, <4>2, <4>4, SMT
      <4>5. CASE i > p + 1
        <5>1. i - (p + 1) \in 1 .. q - 1 /\ (i - (p + 1)) + 1 = i - p
          BY <2>2, <4>1, <4>5, SMT
        <5>2. influxQ'[i - (p + 1)] = influxQ[i - p]
          BY <2>2, <5>1
        <5> QED
          BY <2>2, <4>1, <4>2, <4>5, <5>2, SMT
      <4> QED
        BY <2>2, <4>1, <4>3, <4>4, <4>5, SMT
    <3> QED
      BY <1>5, <2>1, <2>3, <3>2, <3>3
  <2>4. CASE ~configured
    <3>1. payload = <<>> /\ payload' = <<>> /\ p = 0 /\ Len(payload') = 0
      BY <2>1, <2>4, EmptySeq DEF ExportInv
    <3>2. Len(InTransit) = Len(InTransit') + 1 /\ DOMAIN InTransit' = 1 .. q - 1
      BY <2>2, <3>1, TransitType, TransitTypeNext, SMT
    <3>3. ASSUME NEW i \in DOMAIN InTransit' PROVE InTransit'[i] = InTransit[i + 1]
      <4>1. i \in 1 .. q - 1 /\ i + 1 \in 1 .. q /\ ~(i <= 0) /\ ~(i + 1 <= 0) /\ i - 0 = i
            /\ (i + 1) - 0 = i + 1
        BY <2>2, <3>2, <3>3, SMT
      <4>2. InTransit'[i] = influxQ'[i]
        BY <2>2, <3>1, <4>1, TransitType, TransitTypeNext, SMT
      <4>3. InTransit[i + 1] = influxQ[i + 1]
        BY <2>2, <3>1, <4>1, TransitType, TransitTypeNext, SMT
      <4> QED
        BY <2>2, <4>1, <4>2, <4>3
    <3> QED
      BY <1>5, <2>1, <2>4, <3>1, <3>2, <3>3
  <2> QED
    BY <2>3, <2>4
<1>7. ASSUME EndPost PROVE ExportInv'
  <2>1. payload' = <<>> /\ UNCHANGED <<lines, influxQ, configured>>
    BY <1>7 DEF EndPost, engine
  <2> DEFINE p == Len(payload)
             q == Len(influxQ)
  <2>2. p \in Nat /\ q \in Nat /\ Len(influxQ') = q /\ Len(payload') = 0
    BY <2>1, TransitType, TransitTypeNext, EmptySeq
  <2>3. Len(InTransit) = Len(InTransit') + p /\ DOMAIN InTransit' = 1 .. q
    <3>1. /\ Len(InTransit) = q + p /\ Len(InTransit') = Len(influxQ') + Len(payload')
          /\ InTransit' \in Seq(Nat)
      BY TransitType, TransitTypeNext
    <3> QED
      BY <2>2, <3>1, SMT
  <2>4. ASSUME NEW i \in DOMAIN InTransit' PROVE InTransit'[i] = InTransit[i + p]
    <3>1. i \in 1 .. q /\ i + p \in 1 .. p + q /\ ~(i <= 0) /\ ~(i + p <= p) /\ i - 0 = i
          /\ (i + p) - p = i
      BY <2>2, <2>3, <2>4, SMT
    <3>2. InTransit'[i] = influxQ'[i]
      <4>1. i \in 1 .. Len(payload') + Len(influxQ') /\ ~(i <= Len(payload')) /\ i - Len(payload') = i
        BY <2>2, <3>1, SMT
      <4> QED
        BY <4>1, TransitTypeNext
    <3>3. InTransit[i + p] = influxQ[i]
      BY <3>1, TransitType
    <3> QED
      BY <2>1, <3>2, <3>3
  <2> QED
    BY <1>5, <2>1, <2>2, <2>3, <2>4
<1>8. ASSUME \/ Tick \/ ReceiveRecords \/ BeginCleanup \/ BeginShutdown \/ EndCleanup
             \/ DropSenders \/ JoinExporter \/ BeginPost \/ ExporterEnds \/ UNCHANGED vars
      PROVE  ExportInv'
  BY <1>1, <1>8
     DEF Tick, ReceiveRecords, ReceiveBatch, BeginCleanup, BeginShutdown, BeginPass, EndCleanup,
         DropSenders, JoinExporter, BeginPost, ExporterEnds, vars, engine, export
<1> QED
  BY <1>2, <1>3, <1>4, <1>6, <1>7, <1>8 DEF Next, Pass, Exporter, Finished

(* A full exporter queue loses the line that finds it full and no other:   *)
(* the lines queued reach the payloads once each and in order.             *)
THEOREM LinesInOrder == Spec => []ExportInOrder
<1>1. Init => ExportInv
  <2> SUFFICES ASSUME Init PROVE ExportInv
    OBVIOUS
  <2>1. payload = <<>> /\ influxQ = <<>> /\ <<>> \o <<>> = <<>> /\ DOMAIN <<>> = {}
    BY SMT DEF Init
  <2>2. InTransit = <<>>
    BY <2>1 DEF InTransit
  <2> QED
    BY <2>1, <2>2 DEF ExportInv, ExportInOrder
<1>2. ExportInv => ExportInOrder
  BY DEF ExportInv
<1> QED
  BY <1>1, <1>2, InitEngineType, NextEngineType, NextExport, PTL DEF Spec

-----------------------------------------------------------------------------
(* The work that is left.                                                  *)

\* The steps to the worker's next wait, and to the exporter's, with every line
\* taken for one to collect and to post.
WorkerLeft == CASE worker = "flushing" -> 2 [] worker \in {"cleaning", "joining"} -> 1 [] OTHER -> 0
ExporterLeft ==
  CASE exporter = "stopped" -> 0 [] exporter = "posting" -> 2
    [] exporter = "collecting" -> IF payload = <<>> THEN 1 ELSE 3
EngineWork ==
  4 * Len(todo) + 4 * Cardinality(unchecked) + 3 * Len(influxQ) + WorkerLeft + ExporterLeft
WorkDone == EngineWork \in Nat /\ EngineWork' \in Nat /\ EngineWork' < EngineWork

\* There are finitely many sessions, as each record opens one at most.
FiniteSessions == IsFiniteSet(DOMAIN sessions)

(* Every step keeps them finite.                                           *)
LEMMA NextFinite ==
  ASSUME EngineType, ControlInv, FiniteSessions, [Next]_vars
  PROVE  FiniteSessions'
<1>1. CASE Still
  BY <1>1 DEF Still, FiniteSessions
<1>2. ASSUME NEW batch, Receives(batch) PROVE FiniteSessions'
  BY <1>2 DEF Receives, FiniteSessions
<1>3. ASSUME NEW r, Processes(r) PROVE FiniteSessions'
  BY <1>3, FS_AddElement DEF Processes, FiniteSessions
<1>4. ASSUME NEW c, Removes(c) PROVE FiniteSessions'
  BY <1>4, FS_RemoveElement DEF Removes, FiniteSessions
<1>5. ASSUME NEW c, Empties(c) PROVE FiniteSessions'
  BY <1>5 DEF Empties, FiniteSessions
<1> QED
  BY <1>1, <1>2, <1>3, <1>4, <1>5, StepCases

(* The terms of EngineWork are natural numbers, before a step and after.   *)
LEMMA WorkTerms ==
  ASSUME EngineType, FiniteSessions
  PROVE  /\ Len(todo) \in Nat /\ IsFiniteSet(unchecked) /\ Cardinality(unchecked) \in Nat
         /\ Len(influxQ) \in Nat /\ WorkerLeft \in Nat /\ ExporterLeft \in Nat
<1>1. Len(todo) \in Nat /\ Len(influxQ) \in Nat
  BY LenProperties DEF EngineType, TypeOK
<1>2. IsFiniteSet(unchecked) /\ Cardinality(unchecked) \in Nat
  BY FS_Subset, FS_CardinalityType DEF EngineType, TypeOK, FiniteSessions
<1>3. WorkerLeft \in Nat /\ ExporterLeft \in Nat
  BY SMT DEF EngineType, TypeOK, WorkerLeft, ExporterLeft
<1> QED
  BY <1>1, <1>2, <1>3

LEMMA WorkTermsNext ==
  ASSUME EngineType', FiniteSessions'
  PROVE  /\ Len(todo') \in Nat /\ Cardinality(unchecked') \in Nat
         /\ Len(influxQ') \in Nat /\ WorkerLeft' \in Nat /\ ExporterLeft' \in Nat
<1>1. Len(todo') \in Nat /\ Len(influxQ') \in Nat
  BY LenProperties DEF EngineType, TypeOK
<1>2. Cardinality(unchecked') \in Nat
  BY FS_Subset, FS_CardinalityType DEF EngineType, TypeOK, FiniteSessions
<1>3. WorkerLeft' \in Nat /\ ExporterLeft' \in Nat
  BY SMT DEF EngineType, TypeOK, WorkerLeft, ExporterLeft
<1> QED
  BY <1>1, <1>2, <1>3

(* A flush queues one line at most.                                        *)
LEMMA FlushQueues ==
  ASSUME EngineType, NEW c \in Clients, NEW s \in SessionState, FlushSession(c, s)
  PROVE  Len(influxQ') <= Len(influxQ) + 1
<1>1. lines \in Seq(Line) /\ influxQ \in Seq(DOMAIN lines) /\ Len(influxQ) \in Nat
  BY LenProperties DEF EngineType, TypeOK
<1>2. influxQ' = influxQ \/ influxQ' = Append(influxQ, Len(lines) + 1)
  BY DEF FlushSession
<1>3. Len(lines) + 1 \in Nat /\ DOMAIN lines \subseteq Nat
  BY <1>1, SMT
<1>4. influxQ \in Seq(Nat)
  BY <1>1, <1>3, SeqMonotonic
<1>5. Len(Append(influxQ, Len(lines) + 1)) = Len(influxQ) + 1
  BY <1>3, <1>4, AppendProperties
<1> QED
  BY <1>1, <1>2, <1>5, SMT

(* A step that takes a record or a session, queues one line at most and    *)
(* leaves the rest alone is work done, and so is one that takes a line or  *)
(* moves a thread on.                                                      *)
LEMMA LessWork ==
  ASSUME EngineType, FiniteSessions, EngineType', FiniteSessions',
         \/ /\ \/ Len(todo') = Len(todo) - 1 /\ unchecked' = unchecked
               \/ Cardinality(unchecked') = Cardinality(unchecked) - 1 /\ todo' = todo
            /\ Len(influxQ') <= Len(influxQ) + 1
            /\ WorkerLeft' = WorkerLeft /\ ExporterLeft' = ExporterLeft
         \/ /\ UNCHANGED <<todo, unchecked>>
            /\ \/ Len(influxQ') = Len(influxQ) - 1 /\ ExporterLeft' <= ExporterLeft + 2
                  /\ WorkerLeft' = WorkerLeft
               \/ influxQ' = influxQ /\ WorkerLeft' < WorkerLeft /\ ExporterLeft' = ExporterLeft
               \/ influxQ' = influxQ /\ WorkerLeft' = WorkerLeft /\ ExporterLeft' < ExporterLeft
  PROVE  WorkDone
<1>1. PICK a \in Nat, b \in Nat, q \in Nat, w \in Nat, e \in Nat :
        a = Len(todo) /\ b = Cardinality(unchecked) /\ q = Len(influxQ) /\ w = WorkerLeft
        /\ e = ExporterLeft
  BY WorkTerms
<1>2. PICK a1 \in Nat, b1 \in Nat, q1 \in Nat, w1 \in Nat, e1 \in Nat :
        a1 = Len(todo') /\ b1 = Cardinality(unchecked') /\ q1 = Len(influxQ') /\ w1 = WorkerLeft'
        /\ e1 = ExporterLeft'
  BY WorkTermsNext
<1>3. \/ /\ (a1 = a - 1 /\ b1 = b) \/ (b1 = b - 1 /\ a1 = a)
         /\ q1 <= q + 1 /\ w1 = w /\ e1 = e
      \/ /\ a1 = a /\ b1 = b
         /\ \/ q1 = q - 1 /\ e1 <= e + 2 /\ w1 = w
            \/ q1 = q /\ w1 < w /\ e1 = e
            \/ q1 = q /\ w1 = w /\ e1 < e
  BY <1>1, <1>2, Zenon
<1>4. /\ 4 * a + 4 * b + 3 * q + w + e \in Nat /\ 4 * a1 + 4 * b1 + 3 * q1 + w1 + e1 \in Nat
      /\ 4 * a1 + 4 * b1 + 3 * q1 + w1 + e1 < 4 * a + 4 * b + 3 * q + w + e
  BY <1>3, SMT
<1>5. /\ EngineWork = 4 * a + 4 * b + 3 * q + w + e
      /\ EngineWork' = 4 * a1 + 4 * b1 + 3 * q1 + w1 + e1
  BY <1>1, <1>2, Zenon DEF EngineWork
<1> QED
  BY <1>4, <1>5 DEF WorkDone

(* The steps of the worker and of the exporter are such steps.             *)
LEMMA StepWork ==
  ASSUME EngineType, FiniteSessions, EngineType', FiniteSessions',
         ProcessRecord \/ Pass \/ Exporter
  PROVE  WorkDone
<1>0. /\ Len(todo) \in Nat /\ IsFiniteSet(unchecked) /\ Len(influxQ) \in Nat
      /\ unchecked \subseteq DOMAIN sessions /\ DOMAIN sessions \subseteq Clients
      /\ \A c \in DOMAIN sessions : sessions[c] \in SessionState
      /\ influxQ \in Seq(DOMAIN lines) /\ todo \in Seq(Record)
  BY WorkTerms DEF EngineType, TypeOK
<1>1. Len(influxQ) <= Len(influxQ) + 1
  BY <1>0, SMT
<1>2. CASE ProcessRecord
  <2> DEFINE r == Head(todo)
  <2>1. /\ r \in Record /\ Process(r) /\ Len(todo') = Len(todo) - 1
        /\ UNCHANGED <<worker, unchecked, export>>
    BY <1>0, <1>2, HeadTailProperties DEF ProcessRecord
  <2> HIDE DEF r
  <2>2. First(r) \/ Extends(r) \/ StartsBin(r) \/ Restarts(r)
    BY <2>1, ProcessCases
  <2>3. UNCHANGED influxQ \/ (r.client \in DOMAIN sessions /\ FlushSession(r.client, sessions[r.client]))
    BY <2>2 DEF First, Extends, StartsBin, Restarts
  <2>4. Len(influxQ') <= Len(influxQ) + 1
    BY <1>0, <1>1, <2>3, FlushQueues
  <2>5. WorkerLeft' = WorkerLeft /\ ExporterLeft' = ExporterLeft
    BY <2>1 DEF WorkerLeft, ExporterLeft, export
  <2> QED
    BY <2>1, <2>4, <2>5, LessWork
<1>3. CASE CleanSession \/ ShutdownSession
  <2>1. PICK c \in unchecked :
          unchecked' = unchecked \ {c} /\ (FlushSession(c, sessions[c]) \/ UNCHANGED influxQ)
    BY <1>3 DEF CleanSession, ShutdownSession
  <2>2. UNCHANGED <<todo, worker, export>>
    BY <1>3 DEF CleanSession, ShutdownSession
  <2>3. Cardinality(unchecked') = Cardinality(unchecked) - 1
    BY <1>0, <2>1, FS_RemoveElement
  <2>4. Len(influxQ') <= Len(influxQ) + 1
    BY <1>0, <1>1, <2>1, FlushQueues
  <2>5. WorkerLeft' = WorkerLeft /\ ExporterLeft' = ExporterLeft
    BY <2>2 DEF WorkerLeft, ExporterLeft, export
  <2> QED
    BY <2>2, <2>3, <2>4, <2>5, LessWork
<1>4. CASE EndCleanup \/ DropSenders \/ JoinExporter
  <2>1. UNCHANGED <<todo, unchecked, influxQ, export>>
    BY <1>4 DEF EndCleanup, DropSenders, JoinExporter
  <2>2. WorkerLeft' < WorkerLeft
    BY <1>4, SMT DEF EndCleanup, DropSenders, JoinExporter, WorkerLeft
  <2>3. ExporterLeft' = ExporterLeft
    BY <2>1 DEF ExporterLeft, export
  <2> QED
    BY <2>1, <2>2, <2>3, LessWork
<1>5. CASE CollectLine
  <2>1. UNCHANGED <<todo, unchecked, worker>> /\ exporter = "collecting" /\ exporter' = "collecting"
    BY <1>5 DEF CollectLine, engine
  <2>2. Len(influxQ') = Len(influxQ) - 1
    BY <1>0, <1>5, HeadTailProperties DEF CollectLine
  <2>3. ExporterLeft \in {1, 3} /\ ExporterLeft' \in {1, 3}
    BY <2>1 DEF ExporterLeft
  <2>4. ExporterLeft' <= ExporterLeft + 2
    <3>1. PICK e \in {1, 3}, e1 \in {1, 3} : e = ExporterLeft /\ e1 = ExporterLeft'
      BY <2>3
    <3>2. e1 <= e + 2
      BY SMT
    <3> QED
      BY <3>1, <3>2
  <2>5. WorkerLeft' = WorkerLeft
    BY <2>1 DEF WorkerLeft
  <2> QED
    BY <2>1, <2>2, <2>4, <2>5, LessWork
<1>6. CASE BeginPost \/ EndPost \/ ExporterEnds
  <2>1. UNCHANGED <<todo, unchecked, influxQ, worker>>
    BY <1>6 DEF BeginPost, EndPost, ExporterEnds, engine
  <2>2. ExporterLeft' < ExporterLeft
    BY <1>6, SMT DEF BeginPost, EndPost, ExporterEnds, ExporterLeft
  <2>3. WorkerLeft' = WorkerLeft
    BY <2>1 DEF WorkerLeft
  <2> QED
    BY <2>1, <2>2, <2>3, LessWork
<1> QED
  BY <1>2, <1>3, <1>4, <1>5, <1>6 DEF Pass, Exporter

\* A shutdown of the engine goes on.
ShuttingDown == worker \in {"flushing", "joining"}

(* Every step of the session worker on its batch, in a cleanup or in a     *)
(* shutdown, and every step of the exporter, leaves less to do, however the*)
(* two interleave: the lines that a flush adds are fewer than what it took.*)
(* Once a shutdown has begun nothing but time passes besides.              *)
EngineProgress ==
  [][/\ ProcessRecord \/ Pass \/ Exporter => WorkDone
     /\ ShuttingDown => Tick \/ WorkDone]_vars

(* From StepWork: batch, pass and shutdown end after EngineWork steps.     *)
THEOREM EngineMakesProgress == Spec => EngineProgress
<1>1. Init => FiniteSessions
  BY FS_EmptySet DEF Init, FiniteSessions
<1>2. ASSUME EngineType, ControlInv, FiniteSessions, EngineType', FiniteSessions', [Next]_vars
      PROVE  [/\ ProcessRecord \/ Pass \/ Exporter => WorkDone
              /\ ShuttingDown => Tick \/ WorkDone]_vars
  <2>1. ProcessRecord \/ Pass \/ Exporter => WorkDone
    BY <1>2, StepWork
  <2>2. ASSUME ShuttingDown, ~Tick, ~UNCHANGED vars PROVE WorkDone
    <3>1. ProcessRecord \/ Pass \/ Exporter
      BY <1>2, <2>2
         DEF Next, Finished, ShuttingDown, ReceiveRecords, ReceiveBatch, BeginCleanup, BeginShutdown
    <3> QED
      BY <2>1, <3>1
  <2> QED
    BY <2>1, <2>2
<1>3. EngineType /\ ControlInv /\ FiniteSessions /\ [Next]_vars => FiniteSessions'
  BY NextFinite
<1> QED
  BY <1>1, <1>2, <1>3, InitEngineType, NextEngineType, InitControl, NextControl, PTL
     DEF Spec, EngineProgress

\* What the steps of a shutdown and of the exporter wait for.
PassCanGoOn == worker = "flushing" \/ (worker = "joining" /\ exporter = "stopped")
ExporterCanGoOn ==
  \/ exporter = "posting"
  \/ /\ exporter = "collecting"
     /\ \/ influxQ # <<>> /\ Len(payload) < PayloadLines
        \/ payload # <<>> /\ (influxQ = <<>> \/ Len(payload) = PayloadLines)
        \/ payload = <<>> /\ influxQ = <<>> /\ influx_tx = {}

(* A shutdown of the engine is never stuck: while the worker waits for the *)
(* exporter, the exporter has a line to collect, a payload to post, or the *)
(* end of its queue to see, because both senders are gone.                 *)
EngineShutdownGoesOn == ShuttingDown => PassCanGoOn \/ ExporterCanGoOn

(* From ControlInv, and from the size of a payload not being zero.         *)
THEOREM EngineNeverStuck == Spec => []EngineShutdownGoesOn
<1>1. EngineType /\ ControlInv => EngineShutdownGoesOn
  <2> SUFFICES ASSUME EngineType, ControlInv, worker = "joining", exporter # "stopped",
                      exporter # "posting"
               PROVE  ExporterCanGoOn
    BY DEF EngineShutdownGoesOn, ShuttingDown, PassCanGoOn, ExporterCanGoOn
  <2>1. /\ exporter = "collecting" /\ influx_tx = {} /\ payload \in Seq(DOMAIN lines)
        /\ Len(payload) <= PayloadLines /\ PayloadLines \in Nat \ {0}
    BY SessionAssumption DEF EngineType, TypeOK, ControlInv, PassesOver
  <2>2. Len(payload) \in Nat /\ (payload = <<>> => Len(payload) = 0)
    BY <2>1, LenProperties, EmptySeq
  <2>3. Len(payload) < PayloadLines \/ (Len(payload) = PayloadLines /\ payload # <<>>)
    BY <2>1, <2>2, SMT
  <2> QED
    BY <2>1, <2>3 DEF ExporterCanGoOn
<1> QED
  BY <1>1, InitEngineType, NextEngineType, InitControl, NextControl, PTL DEF Spec
=============================================================================
