# Verification of the Teams capture service

The repository (`src/capture-service`) captures network traffic on several cores,
keeps the RTP packets of Microsoft Teams, writes them to a PCAP and a CSV file,
and computes quality-of-experience metrics per client that it exports to InfluxDB.
This directory holds TLA+ modules that model it, TLC configurations that check
them on small instances, and TLAPS proofs of the theorems that matter most.
Paths below are relative to `src/capture-service/src/`.

## 1. Inventory

The program is a pipeline of threads joined by bounded channels:

    capture cores --try_send--> packet channel --> PCAP writer thread --> PCAP file
         |
         +--------try_send--> record channel --> records thread --> CSV file
                                                      |
                                                      +--try_send--> session queue
                                                                          |
         session worker (sessions, bins, metrics) <-----------------------+
                |
                +--try_send--> line queue --> exporter thread --> InfluxDB

`main` starts the capture runtime, waits until it returns, calls `shutdown` of every
platform and prints the final counters; a statistics thread prints counters meanwhile.
In front of the queues each core parses a frame, asks the platforms in turn for it, and
tells the protocol of its payload.

| Component | State | Operations | What is hard | What makes it correct |
|---|---|---|---|---|
| Duplicate suppression (`channels/record.rs:174-215`) | per SSRC: newest sequence number, 64-bit mask | judge and admit a record | 16-bit wrap, shift widths, negation of `i16::MIN`, late packets | accepts exactly what a suppressor with unbounded numbers and memory accepts |
| Record sink (`channels/record.rs`) | record channel, `dedup_map`, `pending`, `seq`, session queue, `RecordStats` | try_send, row, size/time flush, shutdown, sentinel, panic | full queues, timeouts, stopping with work in flight, panics of either file or arithmetic | every record counted once, batches partition the rows, the sentinel is unambiguous, both threads end |
| PCAP sink (`channels/pcap.rs`) | packet channel, writer, two counters | try_send, write, Shutdown | full or dead channel, write errors | every frame counted once, stop completes |
| Teams platform (`platforms/teams/mod.rs`) | counters, senders, thread handles | `handle_packet` on every core, `shutdown`, final report | cores racing, shutdown order, joins | counters agree, no core waits, shutdown ends and leaves nothing behind |
| Session engine (`platforms/teams/sessions/mod.rs`) | client -> session, open bin, line queue, exporter | batch, clean-up, shutdown, export | late and reordered records, wall clock against arrival time, bounded line queue, joining the exporter | packets conserved over bins, one line per point, sessions split only at silences |
| Network metrics (`sessions/network_metrics.rs`) | per-SSRC last sequence number, counters of the bin | count a packet, reset a bin | loss arithmetic across wraps, bins and late packets | loss of a stream adds up |
| Media metrics (`sessions/media_metrics.rs`) | frames per stream, SSRC set, byte counters | count a packet, reset a bin | RTP timestamp wrap in a bin, streams outliving a bin | streams and bytes of a bin are those of its packets |
| Dispatcher, registry (`framework/`, `platforms/mod.rs`) | platforms in order, `non_target` | parse and route a frame | claimed packets that are not handled | no frame counted twice |
| Google Meet scaffold (`platforms/google_meet/`) | none | claims packets of Google's ranges, ignores them | documented as claiming nothing | takes no packet of Teams (that it claims nothing is finding 6) |
| Addresses (`teams/classify.rs`, `ip_ranges.rs`, both lists under `sessions/`) | none | numeric range tests, textual prefix tests in the session layer | three lists of the same servers | they agree: a claimed packet has a server end, and the other end is its client |
| Frame parser (`capture/frame.rs`) | offsets of one call | VLAN, IPv4, IPv6 extension headers, UDP | offsets advanced by lengths from the frame | offsets stay in the frame, headers in order, the walk ends |
| Protocol tests (`capture/protocol.rs`) | none | RFC 7983 first-byte tests in order | overlaps of the tests | the order makes them a partition by first byte |
| Record parser (`models/rtp_record.rs`) | none | bytes to `RtpRecord` | lengths agree with the protocol test; 16-bit arithmetic | a packet counted as RTP is long enough for a record |
| `main.rs` | - | install, run, shutdown, report; statistics thread | counters read while they move | - |

`PROJECT.json` lists the hazards of this code at the lines where they bite, and
the properties that would catch each going wrong.

## 2. Modules

| Module | Models |
|---|---|
| `DedupWindow` | the window test of one SSRC, as operators |
| `IdealDedup` | what duplicate suppression promises: indices that never wrap, unbounded memory |
| `DedupStream`, `MCDedupStream` | one stream through the window test, a network that loses, duplicates and reorders within a bound; implements `IdealDedup` |
| `RecordParams`, `RecordSink`, `MCRecordSink` | record channel, records thread, session queue; its parameters |
| `TimedRecordSink` | the record sink with the clock of `recv_timeout` |
| `PcapParams`, `PcapSink` | packet channel and PCAP writer; their parameters |
| `TeamsPlatform` | capture cores and `main`, composed with instances of both sinks |
| `FrameParser` | `parse_frame` as steps over offsets |
| `Addresses` | the range tests of both classifiers and of the session layer |
| `Demux` | the protocol tests and their order |
| `CapturePath`, `MCCapturePath` | a core from `dispatch_frame` to the finished record, composed of the three above |
| `SessionEngine`, `MCSessionEngine` | session worker and exporter thread |
| `NetworkMetrics` | packets and losses of a session per direction and bin |
| `MediaMetrics` | frames, streams and spans of a session per bin |
| `SessionMetrics`, `MCSessionMetrics` | both metrics of one session, driven by the same records |
| `DedupWindowProof`, `DedupStreamProof`, `RecordSinkProof`, `PcapSinkProof`, `TeamsPlatformProof`, `CapturePathProof`, `SessionEngineProof`, `SessionMetricsProof` | theorems and proofs |

### How state and actions correspond to the code

*DedupWindow.* The 64-bit mask is the set of its set bits, `Shift` is
`(mask << d) | 1` with the overflowing bits dropped, which is also what the
`diff >= 64` branch computes. `Diff` is the 16-bit subtraction read as `i16`.

*RecordSink.* Both channels are sequences; a receiver that is gone (`~Alive`,
`~sessionUp`) makes sends fail and drops what the channel held. `HandleRecord`
is one turn of the loop with everything it does: verdict, `dedup_map`, row,
counters, `pending`, and the size trigger's flush. `Timeout`, `HandleShutdown`
and `SendSentinel` are the other turns; the last is a step of its own because the
send of the sentinel waits for a slot. `Panic` is what unwinding does: receiver,
sender and `pending` are dropped. The 5 s timeout may fire whenever the channel is
empty and a sender exists: no property depends on its length. `TrySendRecord` is the core's
`try_send`, which may be called at any time; that no core calls it once the platform stops is a
fact about `main`, and so a guard of the environment's `OfferRecord` (`OfferPacket` in
`PcapSink`), which `TeamsPlatform` replaces by its cores. `csv`, `batches` and
`offered` are histories. `csv` is what was handed to the CSV writer; errors of
`writeln!` are ignored by the code and have no effect on its state.

*PcapSink.* `StartStopping` and `TrySendShutdown` are the loop in
`TeamsPlatform::shutdown` that sleeps and tries again; a turn that fails changes
nothing. A failed write is printed and the frame given up.

*TeamsPlatform.* A call of `handle_packet` for an RTP packet is three steps of its
core (count, offer the frame, offer the record), which interleave with the other
cores and with the threads. `BeginShutdown` requires that no call is in progress:
`main` calls `shutdown` after `runtime.run()` has returned (`main.rs:141-150`). The
per-protocol counters that are only discarded traffic are one counter, `ip` is the
sum of `ipv4` and `ipv6`.

*SessionEngine.* Time is a counter, a packet is its arrival time, one of those in `Traffic` of
its client. Where the engine
keeps metrics of the open bin, the model keeps the set of packets in it, so that a
line (one flush) can be compared with the packets it stands for. `Process` is the
whole of `process_record`, with both places that may flush. The clean-up and
the shutdown visit sessions one by one (in any order, as a `HashMap` does), because
each flush may find the line queue full or not. `passTime` is the wall clock read at
the start of a clean-up. `influx_tx` holds the handles on the line queue's sender.
Every record of the model has a Microsoft address on one side; records for which
`NetworkMetrics` finds none are not counted by the code and are left out.

*NetworkMetrics, MediaMetrics, SessionMetrics.* One object of each, from `new` until the
session replaces it. A stream's packets carry indices that never wrap, so that losses and
times can be compared with what is really there; sequence number and RTP timestamp are
what is left of the index on their circles. `ProcessRecord` hands a record to both, as the
end of `process_record` does, and chooses for each packet whether it is larger than 400 bytes
(`video`), which `MediaMetrics` tests packet by packet: one stream may mix both sizes; `Flush` is `flush_session`: both are exported and reset
together, `seq_state` and the entries of `streams` survive. Every packet has bytes, so
`has_data` is *some packets*, and bytes are counted in packets, those of small and of large ones
apart. `LossIsGapsOpened` says
precisely what the exported loss means: a packet that comes late stays counted as lost.

*CapturePath.* One core with one call at a time: cores share nothing here but atomic
counters. A frame is its length; what its bytes say is chosen at the step that reads
them, which covers every frame because no byte that is chosen is read twice. `reach` is
the end of the bytes read so far, and so an index out of bounds is `reach > len`.
`WalkChain` is one turn of the loop over extension headers. `ParseRecord` ends the core (`panicked`) when the 16-bit sum of the IPv6 length
overflows. `Route` looks at the addresses;
for a claimed packet `ends` keeps what the session layer will later make of the same two
addresses. The payload is chosen in `ClassifyPayload` with the length the parser found.
Addresses are tuples of octets or of 16-bit groups; a textual prefix is translated into
the groups whose digits begin that way (`2620:1ec` is also the beginning of
`2620:1ec0`). The sinks behind `Keep` are `TeamsPlatform`'s.

*TimedRecordSink.* `waited` is the age of the current `recv_timeout`, `age` that of the
partial batch. Time passes only while the thread waits.

## 3. Runs

| Run | Bounds | Shows |
|---|---|---|
| `dedup_stream` | 12 sequence numbers, window of 4, displacement up to 5, 16 indices | `ImplementsIdeal`: the mask test accepts exactly what the ideal suppressor accepts; `WindowFaithful`: the mask is the truth about the last packets |
| `record_sink` | 2 SSRCs, 4 records, batches of 2, channel of 2, session queue of 2 | accounting, partition of rows into batches, contents and order of the queue (two batches, or a batch and the sentinel), `dedup_map` against the rows; a partial batch is handed over once records stop; both threads end |
| `record_sink_overflow` | 1 SSRC, 3 records | finding: a record half the circle away ends the records thread |
| `record_sink_last_batch` | 1 SSRC, 3 records | finding: the last partial batch may be dropped |
| `record_sink_batch_window` | 1 SSRC, 3 records, batches of 3, window of 2 ticks | finding: a partial batch waits longer than the window |
| `teams_platform` | 2 cores, 3 packets, packet channel of 2, other queues of 1, failing writes, failing files | no core waits, frames are accounted for, shutdown completes unless the PCAP writer is gone, the final report adds up, nothing is left behind |
| `teams_platform_pcap_fails` | 2 cores, 3 packets, File::create may fail | finding: shutdown does not end |
| `session_engine` | a client with packets at any time and one with a single packet, clock to 6, bins of 2, timeout of 3, records up to 1 late and 1 out of order, line queue of 2, payloads of 2 | packets conserved, points unique, bins right, splits only at silences; the lines queued reach the payloads in order and only those that find the queue full are lost; shutdown flushes both sessions and ends |
| `session_metrics` | a stream from a server (5 packets, small or large each, 2 per frame), one to a server, one between servers; circles of 6 sequence numbers and 10 timestamps, displacement up to 2 | losses over bins, wraps and late packets are the gaps opened; each packet counts once; frames, streams and span of a bin are those of its packets (the run ends when the indices are used up, so deadlock is not checked) |
| `capture_path` | 2 frames of 14 lengths around the end of every header, extension headers of 4 sizes, 14 IPv4 and 22 IPv6 addresses at the edges of all ranges, 12 first and 7 second bytes | no index leaves the frame, calls return or panic, headers are in order, the first byte decides, no frame is counted twice, every RTP packet is long enough for a record |
| `capture_path_server_end` | the same | finding: claimed packets without a server end |
| `capture_path_meet` | the same | finding: Google Meet claims packets, which are in no counter |

Why the bounds are enough: capacities of one or two make *full* and *empty* both
frequent, and a batch size of two makes partial and full batches alternate. On the
circle of twelve numbers 16 indices wrap, and a displacement of 5 exceeds the window
of 4, so too-late packets occur. In `record_sink` the circle has six numbers of which
three occur (0, 2, 5): newer, late, too late, wrapped, repeated, and exactly half the
circle apart. In `session_metrics` the stream from a server wraps both circles, the one of timestamps within a
bin as well, and only its packets differ in size: the sizes of the others change no state but a
byte counter. In `capture_path` the
field of the IPv6 length has modulus 100 instead of 65536, and each
fact about a packet concerns one frame, so two are enough for the counters. `PendingHandedOver` is
conditional on what `MaxRecords` would otherwise make true for free: that records stop. The clock of
`session_engine` covers three bins and two session timeouts.

`SplitNeedsSilence` is as sharp as it can be: with a bound one larger TLC finds a
session split by a shorter silence. That the later session also starts later is
promised only if the records are not later than the timeout: with a timeout of 2 and
both delays at 2 TLC finds two sessions of one client that overlap. The code has a timeout
of 120 s (`sessions/mod.rs:28`). It depends on how late records reach the engine,
which the record sink does not bound (finding 5).

### Fairness

Threads of the operating system run: each worker thread has weak fairness on the
disjunction of its steps, and so has `main` once it shuts down. Nothing makes packets
arrive, capture end or the platform stop, and no action is strongly fair. In
`CapturePath` a core goes on with the frame it has (weak fairness of its two kinds of steps).
In `SessionEngine` an HTTP request ends (it succeeds or fails); reads and writes are bounded
by two seconds in the code, connecting by the HTTP client's own limit.

### Findings

1. *Shutdown hangs if the PCAP file cannot be created.* `shutdown` retries until
   `try_send` succeeds (`platforms/teams/mod.rs:200`); a channel whose receiver
   panicked never takes the message. (`ShutdownCompletes` in `teams_platform_pcap_fails`.)
2. *A record exactly 32768 sequence numbers away panics the records thread* in a
   build with overflow checks, such as the one `build.sh` makes (`channels/record.rs:199`).
   The theorems and the other runs take that panic as given and show what survives it.
3. *The last partial batch may be dropped at shutdown* when the session queue is full
   (`channels/record.rs:134`), against `AddingNewPlatform.md:320-321`.
4. *Packets of 2603:1063::/38 are claimed and then skipped.* The classifier takes them for
   Teams (`platforms/teams/ip_ranges.rs:39`), but no prefix of the session layer's two lists
   matches them (`network_metrics.rs:5`, `sessions/mod.rs:58`): both metrics skip the packet,
   and `get_client_ip` takes the source for the client. The other
   ranges of the classifier have their prefixes. (`ServerEndKnown` in `capture_path_server_end`.)
5. *A partial batch may wait longer than `BATCH_WINDOW`.* `recv_timeout` starts anew with
   every message, duplicates included (`channels/record.rs:171`), against the comment at
   `record.rs:49`. (`BatchWindowHolds` in `record_sink_batch_window`.)
6. *Google Meet claims packets.* Its ranges are filled in (`google_meet/ip_ranges.rs:34-47`), so its
   packets are claimed, ignored, and missing from every counter, `non_target` included; the comments
   (`google_meet/mod.rs:9-15`, `ip_ranges.rs:6-8`, `main.rs:129-130`) and `ARCHITECTURE.md:50` say
   that it claims nothing. (`MeetClaimsNothing` in `capture_path_meet`.)

Seen while modelling and too small for a run: the exit message of the records thread
prints `seq` as the number of batches dispatched though it numbers the refused ones too
(`record.rs:309`), and `csv_records` counts rows whose `writeln!` failed (`record.rs:223,240`).
`frame.rs:31` says that the payload's offset may equal the frame's length; it may exceed it.
`dispatcher.rs:98` says "count and drop" and does not count. A bin in which RTP timestamps wrap
gets a span of almost the whole circle (`media_metrics.rs:105`), against the comment at
`media_metrics.rs:82` that sorting gets the correct ordering: `SpanOfBin` states the span that
comes out, in that case the circle less the one gap between two frames that holds the wrap. A
packet between two servers is uplink for the network metrics and downlink for the media metrics;
`PacketsCountedOnce` and `MediaOfBin` state both as they are. An IPv6 header that declares 65496
bytes or more makes `payload_len + 40` overflow (`rtp_record.rs:74`), which a debug build answers
with a panic of the core; the panic is an outcome of `ParseRecord`, and `CallReturns` names it.

## 4. Proofs

Every theorem holds for all values of the constants that satisfy the named assumptions
(`DedupAssumption`, `RecordAssumption` and the like: sizes are positive, the window is at
most half the circle, the circle is even). The invariants below were checked by TLC on the
runs of section 3 before they were proved.

**Record sink.** `RecordSinkProof`, for every capacity, batch size, window, set of SSRCs and
number of records:

| Theorem | Property | Inductive invariant |
|---|---|---|
| `TypeCorrect` | `TypeOK` | itself; the step of `AcceptRecord` needs that `Admit` keeps offsets in the window (`DedupWindowProof!AdmitType`), that of the size trigger that `pending` is emptied as soon as it is full |
| `RecordsAccounted` | `InboundAccounting` | `AccountInv`: nothing is queued behind `Shutdown` (`ShutdownIsLast`), and the sum is kept by a receive only if the message taken was a record, and by `SendSentinel`, which drops the channel, only because nothing is left behind `Shutdown` (`LoopLeft`) |
| `SentinelCorrect` | `SentinelUnambiguous` | `SentinelInv` |
| `RowsPartitioned` | `RowsBatchedOnce` | `RowsInv`: the cuts `Upto` are increasing and each batch is the slice between two cuts, stated over prefixes that grow (`RowsGrow`, `RowsFlush`) |
| `QueueCorrect` | `QueueKeepsBatches` | `QueueInv`, with `RowsInv` and `SentinelInv`: a batch enters the queue when it gets its number, and a receive takes the first |
| `MapTrueToRows` | `DedupMatchesRows` | `MapInv`, the property with `TypeOK`: a step of the window is one of `DedupWindowProof`'s cases (forward, far forward, late), in each of which `max_seq - o` on the circle names the same number before and after |
| `DuplicatesAreCopies` | `DropsOnlyCopies`, an action property stated in the proof module | `MapInv`: a record counted as duplicate is on a bit that is set, hence has a row, or lies behind the window |

**One stream.** `DedupStreamProof` proves `TypeOK`, `WindowFaithful` and the refinement of
`IdealDedup` (`StreamImplementsIdeal`) for any circle, any window, any displacement below half
the circle and any number of packets. The inductive invariant `MirrorInv` adds to the first two that
the newest index was accepted; the
refinement then is one lemma about the arithmetic: for two indices less than half the circle
apart, `Diff` of their sequence numbers is their difference.

**PCAP sink and platform.** `PcapSinkProof` proves `TypeOK` (`PcapTypeCorrect`) and `FramesAccounted`
(`EveryFrameAccounted`) of the PCAP sink for every capacity and number of frames. The
inductive invariant `SinkInv` adds to them that the channel holds packets and, only when the
owner has stopped, one `Shutdown` at its end, without which a receive would not be known to
take a frame. `TeamsPlatformProof` proves that the composed platform implements that sink
(`PlatformImplementsPcapSink`: every step of a core, of `main` or of a thread is a step of
`PcapSink` or leaves it alone; `CallsEnd`, that senders are open while a core may be in a call,
gives the guards of `OfferPacket` and `OfferRecord`), and so keeps `FramesAccounted` for any number of cores
(`PlatformFramesAccounted`).
`TeamsPlatformProof` also proves that the platform implements the record sink
(`PlatformImplementsRecordSink`), so what `RecordSinkProof` shows holds in the platform. From the
invariants of both sinks and `PlatformInv` it proves `TypeOK`, `NothingLeftBehind` and
`FinalReportAddsUp` for any finite set of cores. `PlatformInv` counts the cores inside a call:
between its three steps a core has counted an RTP packet whose frame (`Packing`) or record
(`Busy`) no sink knows of yet, so that `rtp` is the frames offered plus the first kind, and the
records offered plus both; once `main` is stopping no core is in a call.

**Session engine.** `SessionEngineProof`, for any set of clients, any clock, delays, bin width,
timeout and queue capacity. `StepCases` splits a step into what it does to sessions and lines (a
packet joins, a bin is flushed, a session is replaced, the clean-up or the shutdown flushes one,
the exporter moves), and each invariant is proved over these cases:

| Theorem | Property | Inductive invariant |
|---|---|---|
| `EngineTypeCorrect` | `TypeOK` | `EngineType`, which adds that `lines` is a sequence of lines |
| `StopLeavesNothing` | `StopFlushesAll` | `ControlInv`: which handles on the sender exist in which state of worker and exporter, what a pass has left to visit, and that an empty bin means a shutdown under way |
| `NoPacketLost` | `PacketsConserved` | `OrderInv`: no packet still waiting is older than a processed one by more than `Skew`, sessions hold processed packets only; `CountInv`: what was processed is the open bin or in a line, and no packet in two lines |
| `PointsNeverCollide` | `PointsUnique` | `PointInv`: every line of a session has a bin before the session's open bin (`BinsClosed`) |
| `BinsAreRight` | `BinsHoldTheirPackets` | `BinInv`: the packets of the open bin are in it or late by at most `Skew` (`InBin`; `LateInBin`, `BinMonotone`) |
| `SplitsAreSilences` | `SplitNeedsSilence` | `SplitInv`: a silence lies between the lines of older sessions and the current one (`Older`), and a client without a session is silent (`Silent`) |
| `LinesInOrder` | `ExportInOrder` | `ExportInv`: with the property, that no payload is collected without a database |

The silence of `SplitsAreSilences` is proved without a hypothesis on the delays. `OrderInv` is what
makes it hold: a record that splits a session is compared with the last one processed, which may be
older than the newest by `Skew`. `ExportInv` reads the payload being collected and the queue as one
sequence (`InTransit`) of positions: a flush appends to it (`OrderGrows`), a collected line moves
inside it, and printing or posting takes a prefix off (`OrderSuffix`).

**Capture path.** `CapturePathProof` proves the seven invariants of `capture_path` for frames of any length, extension headers of any size, any addresses, and any number of frames
(assumptions `FrameAssumption` and `CaptureAssumption`: shapes of addresses, bytes are
bytes). All follow from one inductive invariant, `IInv`, a conjunction of

| Part | Says | Needed for |
|---|---|---|
| `Walking` | where the parser is in the frame at each stage, and that all it read is inside | `ReadsInsideFrame`, `HeadersInOrder` |
| `Classifying` | the payload whose protocol was found is the one behind `offset` | `FirstByteDecides`, and with the next for `RtpAlwaysRecorded` |
| `Recording` | records are made of RTP packets, which are long enough | `RtpAlwaysRecorded` |
| `Counting` | the counters in the middle of a call, one frame behind | `NoFrameCountedTwice` |
| `Addressed` | `ends` comes from two addresses (`ListsAgree`, `OtherEnd` are the facts about them) | `ClientIsOtherEnd` |

`TypeOK` is part of it because the walk's bound `offset <= len` is what makes the next read safe.

**Session metrics.** `SessionMetricsProof` proves the six invariants of `session_metrics` for any
finite set of streams and any packets, any even circle of sequence numbers, any number of
time stamps, packets per frame and gaps of a video. The set is finite in the code because an
SSRC has 32 bits (part of `NetworkAssumption`).

| Theorem | Property | Inductive invariant |
|---|---|---|
| `PacketsCounted`, `LossesAreGaps` | `PacketsCountedOnce`, `LossIsGapsOpened` | `LossInv`, both with `NetworkInv`: `seq_state` holds the low bits of the newest index of its stream, so `Diff` is a distance of indices (`DiffIsDistance`, from the arithmetic of `DedupWindowProof`) |
| `MediaIsOfBin` | `MediaOfBin` | `MetricsInv`: with `NetworkInv`, `MediaInv` says that the packets of the bin arrived before now and the streams entered come from a server; small and large packets are counted apart (`FromServerGrows`), and only a large one touches the entry of its stream (`StreamOfBinPacket`, `StreamOfBinKept`) |
| `MetricsTypeCorrect`, `StreamNumbersAddUp`, `SpanIsTime` | `TypeOK`, `StreamsAddUp`, `SpanOfBin` | follow from `MetricsInv`; the last by the fact that on one turn of the circle the extreme time stamps are those of the extreme ticks (`SpanOfTurn`), and over a wrap those on both sides of it (`SpanOverWrap`) |

The argument of `LossesAreGaps` is `GapOpens`: what a packet adds to the losses of its direction
is what it adds to the packets its stream misses plus the late ones. A newer packet opens the gap
behind it; a late one moves an index from missing to late; neither sum of another stream changes.
The sums of the properties are folds of the community modules, recursive over the subsets
of a set. The first lemmas of the module show that such a recursion has one solution on a finite set
(`SumsExist`, `SumsUnique`, from `MinimalSubset` in place of induction) and what happens
to the sum when one term changes (`SumChange`).

**Progress.** What a liveness property says under weak fairness has two halves that need no
fairness, and these are proved for all values of the constants: every step of the threads in
question lowers a natural number (an action property), and until they have ended the guard of one
of their steps is true (an invariant). The guards are written out, as `ENABLED` cannot be used.

| Part | Every step lowers | Some step can be taken |
|---|---|---|
| PCAP writer | `WriterMakesProgress`: `WriterWork` | `StoppedWriterGoesOn`: once `Shutdown` is sent, until the writer has ended |
| Record sink | `SinkMakesProgress`: `SinkWork`, over both threads and both queues | `StoppedSinkGoesOn`: once `Shutdown` is sent or the sender dropped, until both have ended |
| Platform | `ShutdownMakesProgress`: `ShutdownWork`, over `main` and the three threads | `ShutdownNeverStuck`: until shutdown is over, unless the PCAP writer has panicked before its `Shutdown` was sent |
| Session engine | `EngineMakesProgress`: `EngineWork`, in which a record or session to visit weighs more than the line it may add | `EngineNeverStuck`: while the engine shuts down |
| Capture core | `CallMakesProgress`: `CallWork`, and each extension header at least 8 bytes | (each stage of a call has its step; the choices of the model are its inputs) |

Each "some step" rests on an invariant about what waits in a queue: the `Shutdown` that was sent is
still to come (`ShutdownWaits`), both senders are gone when the engine joins the exporter
(`ControlInv`). The excepted case of `ShutdownNeverStuck` is a theorem, too: `NoPcapNoShutdown`
proves finding 1 for every number of cores and every capacity, as once `main` is in that loop and the
writer has panicked neither ever changes. `CallsNeverWait` proves for `handle_packet` that the
conditions of `SendPacket` and `SendRecord` hold at any core that has come to them, which is
`HandlePacketNeverWaits` with the guards in place of `ENABLED`. `PlatformRecordsSafe` states the
safety properties of the record sink for the composed platform. The bound `MaxPackets` is a number
in these theorems (`PlatformAssumption`), as large as one likes.

Only model-checked: `HandlePacketNeverWaits` in its own form, which is about `ENABLED`; and the live
properties themselves (`PendingHandedOver`, `BothThreadsStop`, `ShutdownUnlessNoPcap`, `CallReturns`,
`EngineShutdownCompletes`): the rule that puts the two halves and weak fairness together needs
`ENABLED`, which the prover does not have. `ShutdownCompletes` and the other properties of findings
are refuted by TLC.

## 5. Not modelled

Contents of frames and records beyond what the tests and the metrics look at; the
formatting of CSV rows and lines; jitter and mean values of the metrics, which are
floating-point arithmetic without state; the statistics thread, which only reads; link-layer
padding and IP fragments, which the code takes for payload (any payload bytes are in the
model, what they should mean is not); the capture runtime, the channels and the HTTP client,
which are modelled from how the code uses them (marked external in `PROJECT.json`).

## 6. Plan

Done: every component of section 1 but the statistics thread.

Every safety property of a passing run is a theorem (`HandlePacketNeverWaits` with its guards
written out), and the live ones but `PendingHandedOver` are proved up to the rule of weak fairness
(section 4, *Progress*). What is left is that rule itself, when the prover knows `ENABLED`, and a
composition of `CapturePath` with `TeamsPlatform`: they model the same call of `handle_packet`
from its two ends, what it does with the packet and what it does to the sinks.
