---------------------------- MODULE SessionEngine ----------------------------
(***************************************************************************)
(* The session layer of platforms/teams/sessions/mod.rs: the session       *)
(* worker takes batches of records, keeps one session per client, cuts its *)
(* traffic into bins, and pushes one line per bin with traffic into the    *)
(* bounded queue of the exporter thread, which posts the lines in payloads *)
(* to InfluxDB, or prints them when no database is configured.             *)
(*                                                                         *)
(* Time is a counter.  Records reach the worker at most Delay after their  *)
(* arrival and at most Skew out of order (the sink upstream collects them  *)
(* in batches, and the capture cores race for its channel).  A packet is   *)
(* its arrival time, which is unique per client: the clock has nanosecond  *)
(* resolution.  What the metrics make of a bin's packets is not modelled.  *)
(***************************************************************************)
EXTENDS Integers, Sequences, FiniteSets

CONSTANTS
  Clients,         \* client IP addresses
  BinSize,         \* BIN_SIZE_NS
  SessionTimeout,  \* SESSION_TIMEOUT_NS
  InfluxCapacity,  \* slots of the exporter's queue
  PayloadLines,    \* lines per payload
  Delay, Skew,     \* how late, and how much out of order, records come
  Traffic,         \* client -> times at which packets of its may arrive
  MaxBatch,        \* bound on the records of a batch, for model checking
  MaxTime          \* bound on the clock, for model checking

ASSUME SessionAssumption ==
  /\ BinSize \in Nat \ {0} /\ SessionTimeout \in Nat /\ BinSize <= SessionTimeout
  /\ InfluxCapacity \in Nat \ {0} /\ PayloadLines \in Nat \ {0}
  /\ {Delay, Skew, MaxBatch, MaxTime} \subseteq Nat
  /\ Traffic \in [Clients -> SUBSET Nat]

VARIABLES
  now,        \* the wall clock
  arrived,    \* arrival times of the records taken, per client (history)
  worker,     \* control state of the session worker
  todo,       \* the records of the batch still to process
  unchecked,  \* the sessions the current pass over all sessions has still to visit
  passTime,   \* the wall clock read when that pass began
  sessions,   \* client -> session state
  influx_tx,  \* handles on the exporter queue's sender: the engine's and a clone
  influxQ,    \* the exporter's queue: positions in lines
  lines,      \* every line flushed, in order (history)
  exporter,   \* control state of the exporter thread
  configured, \* url and token are set
  payload     \* lines of the payload being collected or posted

engine == <<worker, todo, unchecked, passTime, sessions, influx_tx>>
export == <<exporter, configured, payload>>
vars == <<now, arrived, engine, influxQ, lines, export>>

Time == 0 .. MaxTime
Record == [client : Clients, t : Time]
Bin(t) == t \div BinSize
SessionState == [first_seen : Time, last_seen : Time, bin : Nat, packets : SUBSET Time]

\* The session that a first record opens; its id is a hash of client and time.
NewSession(t) == [first_seen |-> t, last_seen |-> t, bin |-> Bin(t), packets |-> {}]

\* Mutant: the exporter's queue takes one line too many.
LaxLineOf(c, s) == [client |-> c, session |-> s.first_seen, bin |-> s.bin,
                    packets |-> s.packets, queued |-> Len(influxQ) <= InfluxCapacity]

\* A line stands for one point: client and session tags, and a timestamp.
Point(l) == <<l.client, l.session, l.bin>>
LineOf(c, s) == [client |-> c, session |-> s.first_seen, bin |-> s.bin,
                 packets |-> s.packets, queued |-> Len(influxQ) < InfluxCapacity]

Init ==
  /\ now = 0 /\ arrived = [c \in Clients |-> {}]
  /\ worker = "waiting" /\ todo = <<>> /\ unchecked = {} /\ passTime = 0
  /\ sessions = [c \in {} |-> NewSession(0)]
  /\ influx_tx = {"engine"}
  /\ influxQ = <<>> /\ lines = <<>>
  /\ exporter = "collecting" /\ configured \in BOOLEAN /\ payload = <<>>

-----------------------------------------------------------------------------
(* Records.                                                                *)

\* Whether record r may be the next one: recent, new, and not too late.
CanFollow(r, taken) ==
  /\ now - Delay <= r.t /\ r.t <= now
  /\ r.t \in Traffic[r.client] /\ r.t \notin taken[r.client]
  /\ \A c \in Clients : \A t \in taken[c] : t - Skew <= r.t

Take(r, taken) == [taken EXCEPT ![r.client] = @ \cup {r.t}]

Tick ==
  /\ now < MaxTime
  /\ now' = now + 1
  /\ UNCHANGED <<arrived, engine, influxQ, lines, export>>

\* A batch of one or more records.
ReceiveBatch(batch) ==
  /\ worker = "waiting"
  /\ worker' = "processing" /\ todo' = batch
  /\ arrived' = [c \in Clients |->
       arrived[c] \cup {batch[i].t : i \in {j \in DOMAIN batch : batch[j].client = c}}]
  /\ UNCHANGED <<now, unchecked, passTime, sessions, influx_tx, influxQ, lines, export>>

ReceiveRecords ==
  \E r1 \in Record :
    /\ CanFollow(r1, arrived)
    /\ \/ ReceiveBatch(<<r1>>)
       \/ /\ MaxBatch > 1
          /\ \E r2 \in Record : CanFollow(r2, Take(r1, arrived)) /\ ReceiveBatch(<<r1, r2>>)

-----------------------------------------------------------------------------
(* process_record.                                                         *)

\* flush_session and push_influx_line on session s of client c: nothing if the
\* bin is empty, else a line, lost if the exporter's queue is full.
FlushSession(c, s) ==
  IF s.packets = {}
  THEN UNCHANGED <<lines, influxQ>>
  ELSE LET l == LineOf(c, s)
       IN  /\ lines' = Append(lines, l)
           /\ influxQ' = IF l.queued THEN Append(influxQ, Len(lines) + 1) ELSE influxQ

\* Mutant: a stale session's bin is thrown away with it.
ProcessStaleUnflushed(r) ==
  LET c == r.client
      old == IF c \in DOMAIN sessions THEN sessions[c] ELSE NewSession(r.t)
      stale == r.t - old.last_seen > SessionTimeout
      base == IF stale THEN NewSession(r.t) ELSE old
      newer == Bin(r.t) > base.bin
  IN  /\ IF newer THEN FlushSession(c, base) ELSE UNCHANGED <<lines, influxQ>>
      /\ sessions' = [d \in DOMAIN sessions \cup {c} |->
           IF d # c THEN sessions[d]
           ELSE [base EXCEPT !.last_seen = r.t,
                             !.bin = IF newer THEN Bin(r.t) ELSE base.bin,
                             !.packets = (IF newer THEN {} ELSE base.packets) \cup {r.t}]]

\* Mutant: the bin is flushed but not advanced.
ProcessBinStuck(r) ==
  LET c == r.client
      old == IF c \in DOMAIN sessions THEN sessions[c] ELSE NewSession(r.t)
      stale == r.t - old.last_seen > SessionTimeout
      base == IF stale THEN NewSession(r.t) ELSE old
      newer == Bin(r.t) > base.bin
  IN  /\ IF stale \/ newer THEN FlushSession(c, old) ELSE UNCHANGED <<lines, influxQ>>
      /\ sessions' = [d \in DOMAIN sessions \cup {c} |->
           IF d # c THEN sessions[d]
           ELSE [base EXCEPT !.last_seen = r.t,
                             !.packets = (IF newer THEN {} ELSE base.packets) \cup {r.t}]]

\* The entry of the record's client; a stale session is flushed and starts
\* over, and a newer bin flushes the current one.  A record of an older bin
\* counts in the current one.
Process(r) ==
  LET c == r.client
      old == IF c \in DOMAIN sessions THEN sessions[c] ELSE NewSession(r.t)
      stale == r.t - old.last_seen > SessionTimeout
      base == IF stale THEN NewSession(r.t) ELSE old
      newer == Bin(r.t) > base.bin
  IN  /\ IF stale \/ newer THEN FlushSession(c, old) ELSE UNCHANGED <<lines, influxQ>>
      /\ sessions' = [d \in DOMAIN sessions \cup {c} |->
           IF d # c THEN sessions[d]
           ELSE [base EXCEPT !.last_seen = r.t,
                             !.bin = IF newer THEN Bin(r.t) ELSE base.bin,
                             !.packets = (IF newer THEN {} ELSE base.packets) \cup {r.t}]]

ProcessRecord ==
  /\ worker = "processing" /\ todo # <<>>
  /\ Process(Head(todo))
  /\ todo' = Tail(todo)
  /\ UNCHANGED <<now, arrived, worker, unchecked, passTime, influx_tx, export>>

-----------------------------------------------------------------------------
(* cleanup_stale_sessions and shutdown: a pass over all sessions.          *)

BeginPass(kind, tx) ==
  /\ worker' = kind
  /\ unchecked' = DOMAIN sessions /\ passTime' = now
  /\ influx_tx' = tx
  /\ UNCHANGED <<now, arrived, todo, sessions, influxQ, lines, export>>

\* After a batch, and when no batch came for 5 s.
BeginCleanup ==
  /\ worker = "waiting" \/ (worker = "processing" /\ todo = <<>>)
  /\ BeginPass("cleaning", {"engine", "clone"})

\* The sentinel, or a queue whose sender is gone.
BeginShutdown ==
  /\ worker = "waiting"
  /\ BeginPass("flushing", {"engine", "clone"})

\* Mutant: any session idle at all is taken for stale.
CleanSessionEager ==
  /\ worker = "cleaning"
  /\ \E c \in unchecked :
       /\ unchecked' = unchecked \ {c}
       /\ IF passTime > sessions[c].last_seen
          THEN /\ FlushSession(c, sessions[c])
               /\ sessions' = [d \in DOMAIN sessions \ {c} |-> sessions[d]]
          ELSE UNCHANGED <<sessions, lines, influxQ>>
  /\ UNCHANGED <<now, arrived, worker, todo, passTime, influx_tx, export>>

\* A session that was stale when the pass began is flushed and removed.
CleanSession ==
  /\ worker = "cleaning"
  /\ \E c \in unchecked :
       /\ unchecked' = unchecked \ {c}
       /\ IF passTime - sessions[c].last_seen > SessionTimeout
          THEN /\ FlushSession(c, sessions[c])
               /\ sessions' = [d \in DOMAIN sessions \ {c} |-> sessions[d]]
          ELSE UNCHANGED <<sessions, lines, influxQ>>
  /\ UNCHANGED <<now, arrived, worker, todo, passTime, influx_tx, export>>

EndCleanup ==
  /\ worker = "cleaning" /\ unchecked = {}
  /\ worker' = "waiting" /\ influx_tx' = {"engine"}
  /\ UNCHANGED <<now, arrived, todo, unchecked, passTime, sessions, influxQ, lines, export>>

\* Mutant: the pass of shutdown ends with the first session it flushes.
ShutdownFirstSession ==
  /\ worker = "flushing"
  /\ \E c \in unchecked :
       /\ unchecked' = {}
       /\ FlushSession(c, sessions[c])
       /\ sessions' = [sessions EXCEPT ![c].packets = {}]
  /\ UNCHANGED <<now, arrived, worker, todo, passTime, influx_tx, export>>

\* shutdown flushes every session.
ShutdownSession ==
  /\ worker = "flushing"
  /\ \E c \in unchecked :
       /\ unchecked' = unchecked \ {c}
       /\ FlushSession(c, sessions[c])
       /\ sessions' = [sessions EXCEPT ![c].packets = {}]
  /\ UNCHANGED <<now, arrived, worker, todo, passTime, influx_tx, export>>

\* Mutant: the clone of the sender lives until shutdown returns.
DropSendersForgetful ==
  /\ worker = "flushing" /\ unchecked = {}
  /\ worker' = "joining" /\ influx_tx' = {"clone"}
  /\ UNCHANGED <<now, arrived, todo, unchecked, passTime, sessions, influxQ, lines, export>>

\* Both handles go, so that the exporter sees the end of its queue.
DropSenders ==
  /\ worker = "flushing" /\ unchecked = {}
  /\ worker' = "joining" /\ influx_tx' = {}
  /\ UNCHANGED <<now, arrived, todo, unchecked, passTime, sessions, influxQ, lines, export>>

JoinExporter ==
  /\ worker = "joining" /\ exporter = "stopped"
  /\ worker' = "stopped"
  /\ UNCHANGED <<now, arrived, todo, unchecked, passTime, sessions, influx_tx, influxQ, lines,
                 export>>

-----------------------------------------------------------------------------
(* The exporter thread.                                                    *)

\* Mutant: the line that finds the payload full is taken and dropped.
CollectLineTooLate ==
  /\ exporter = "collecting" /\ influxQ # <<>>
  /\ influxQ' = Tail(influxQ)
  /\ payload' = IF configured /\ Len(payload) < PayloadLines
                THEN Append(payload, Head(influxQ)) ELSE payload
  /\ UNCHANGED <<now, arrived, engine, lines, exporter, configured>>

\* collect_payload takes a line while there is one and the payload has room;
\* drain_without_export prints each line as it comes.
CollectLine ==
  /\ exporter = "collecting" /\ influxQ # <<>> /\ Len(payload) < PayloadLines
  /\ influxQ' = Tail(influxQ)
  /\ payload' = IF configured THEN Append(payload, Head(influxQ)) ELSE payload
  /\ UNCHANGED <<now, arrived, engine, lines, exporter, configured>>

BeginPost ==
  /\ exporter = "collecting" /\ payload # <<>>
  /\ influxQ = <<>> \/ Len(payload) = PayloadLines
  /\ exporter' = "posting"
  /\ UNCHANGED <<now, arrived, engine, influxQ, lines, configured, payload>>

\* The request succeeds, or fails and its lines are given up.
EndPost ==
  /\ exporter = "posting"
  /\ exporter' = "collecting" /\ payload' = <<>>
  /\ UNCHANGED <<now, arrived, engine, influxQ, lines, configured>>

ExporterEnds ==
  /\ exporter = "collecting" /\ payload = <<>> /\ influxQ = <<>> /\ influx_tx = {}
  /\ exporter' = "stopped"
  /\ UNCHANGED <<now, arrived, engine, influxQ, lines, configured, payload>>

Finished == worker = "stopped" /\ UNCHANGED vars

-----------------------------------------------------------------------------
Pass == CleanSession \/ EndCleanup \/ ShutdownSession \/ DropSenders \/ JoinExporter
Exporter == CollectLine \/ BeginPost \/ EndPost \/ ExporterEnds

Next ==
  \/ Tick
  \/ ReceiveRecords
  \/ ProcessRecord
  \/ BeginCleanup
  \/ BeginShutdown
  \/ Pass
  \/ Exporter
  \/ Finished

Spec == Init /\ [][Next]_vars

\* A pass once begun goes on, requests end (they time out), and the exporter
\* collects; nothing makes batches arrive or shutdown begin.
FairSpec == Spec /\ WF_vars(Pass) /\ WF_vars(Exporter)

-----------------------------------------------------------------------------
(* Every variable holds a value of its type; the queue has its capacity.   *)
TypeOK ==
  /\ now \in Time /\ passTime \in Time
  /\ arrived \in [Clients -> SUBSET Time]
  /\ worker \in {"waiting", "processing", "cleaning", "flushing", "joining", "stopped"}
  /\ todo \in Seq(Record)
  /\ unchecked \subseteq DOMAIN sessions
  /\ DOMAIN sessions \subseteq Clients /\ sessions \in [DOMAIN sessions -> SessionState]
  /\ influx_tx \subseteq {"engine", "clone"}
  /\ influxQ \in Seq(DOMAIN lines) /\ Len(influxQ) <= InfluxCapacity
  /\ exporter \in {"collecting", "posting", "stopped"} /\ configured \in BOOLEAN
  /\ payload \in Seq(DOMAIN lines) /\ Len(payload) <= PayloadLines

\* The lines of client c, and the packets of its open bin.
LinesOf(c) == {i \in DOMAIN lines : lines[i].client = c}
Open(c) == IF c \in DOMAIN sessions THEN sessions[c].packets ELSE {}
Unprocessed(c) == {todo[i].t : i \in {j \in DOMAIN todo : todo[j].client = c}}

(* Every packet of a client counts in exactly one line, or in its open bin *)
(* or is still to be processed: bins, timeouts, clean-ups and the shutdown *)
(* lose none and count none twice.                                         *)
PacketsConserved ==
  \A c \in Clients :
    /\ arrived[c] = Open(c) \cup Unprocessed(c) \cup UNION {lines[i].packets : i \in LinesOf(c)}
    /\ \A i \in LinesOf(c) :
         /\ lines[i].packets \cap (Open(c) \cup Unprocessed(c)) = {}
         /\ \A j \in LinesOf(c) : i # j => lines[i].packets \cap lines[j].packets = {}

(* InfluxDB replaces a point that has the tags and the timestamp of an     *)
(* earlier one: no two lines are for the same point, so none is lost there.*)
PointsUnique ==
  \A i, j \in DOMAIN lines : i # j => Point(lines[i]) # Point(lines[j])

(* A packet counts in its own bin, or in a later one if it came late, and  *)
(* never in an earlier one.                                                *)
BinsHoldTheirPackets ==
  \A i \in DOMAIN lines : \A t \in lines[i].packets :
    /\ Bin(t) <= lines[i].bin
    /\ Bin(t) < lines[i].bin => Skew > 0 /\ Bin(t + Skew) >= lines[i].bin

(* A client's traffic is split into two sessions only at a silence: the    *)
(* first packet of the later session follows every packet of the earlier   *)
(* one by more than the session timeout less what the records can be late, *)
(* and the later session starts later unless they are too late for that.   *)
SplitNeedsSilence ==
  \A i, j \in DOMAIN lines :
    i < j /\ lines[i].client = lines[j].client /\ lines[i].session # lines[j].session =>
      /\ \A t \in lines[i].packets : lines[j].session - t > SessionTimeout - Delay - Skew
      /\ Delay + Skew <= SessionTimeout => lines[i].session < lines[j].session

(* A full queue loses the line that finds it full and no other: on the way *)
(* to the database, the lines that were queued stay in the order in which  *)
(* they were flushed, and none of them is skipped or taken twice.          *)
InTransit == payload \o influxQ
ExportInOrder ==
  /\ \A i \in DOMAIN InTransit : lines[InTransit[i]].queued
  /\ \A i, j \in DOMAIN InTransit : i < j => InTransit[i] < InTransit[j]
  /\ InTransit # <<>> =>
       \A k \in InTransit[1] .. Len(lines) :
         lines[k].queued => \E i \in DOMAIN InTransit : InTransit[i] = k

(* Once the worker has stopped, every packet is in a line and every line   *)
(* has been posted, printed or counted out: nothing is left in the engine, *)
(* in the queue or in the exporter's hands.                                *)
StopFlushesAll ==
  worker = "stopped" =>
    /\ \A c \in DOMAIN sessions : sessions[c].packets = {}
    /\ todo = <<>> /\ influxQ = <<>> /\ payload = <<>> /\ exporter = "stopped"

(* A shutdown of the engine ends: the exporter learns that no line will    *)
(* come any more, and the worker's join returns.                           *)
EngineShutdownCompletes == (worker = "flushing") ~> (worker = "stopped")
=============================================================================
