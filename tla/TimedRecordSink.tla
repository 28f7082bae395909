--------------------------- MODULE TimedRecordSink ---------------------------
(***************************************************************************)
(* RecordSink with time: recv_timeout gives up BATCH_WINDOW after it was   *)
(* called, and it is called anew for every message.  The thread is prompt: *)
(* time passes only while it waits in recv_timeout.  The clocks are ages,  *)
(* so that no bound on time is needed.                                     *)
(***************************************************************************)
EXTENDS RecordSink

CONSTANT BatchWindow  \* the timeout, in ticks

VARIABLES
  waited,   \* how long the current recv_timeout has waited
  age       \* how long pending has not been empty (history)

timedVars == <<vars, waited, age>>

TimedInit == Init /\ waited = 0 /\ age = 0

\* The other threads of the system take no time of the records thread's.
OtherThreads == (Producer \/ Session) /\ UNCHANGED <<waited, age>>

\* What recv_timeout returned is handled, and it is called again.
Handle ==
  /\ OpenCsv \/ HandleRecord \/ HandleShutdown \/ SendSentinel
  /\ waited' = 0
  /\ age' = IF pending' = <<>> THEN 0 ELSE age

TimeoutElapsed ==
  /\ waited = BatchWindow
  /\ Timeout
  /\ waited' = 0 /\ age' = 0

Tick ==
  /\ thread = "running" /\ recordCh = <<>> /\ owner # "dropped"
  /\ waited < BatchWindow
  /\ waited' = waited + 1
  /\ age' = IF pending = <<>> THEN 0 ELSE age + 1
  /\ UNCHANGED vars

TimedNext ==
  \/ OtherThreads \/ Handle \/ TimeoutElapsed \/ Tick
  \/ Finished /\ UNCHANGED <<waited, age>>

TimedSpec == TimedInit /\ [][TimedNext]_timedVars

-----------------------------------------------------------------------------
(* record.rs says of BATCH_WINDOW that it is the maximum time to wait      *)
(* before a partial batch is flushed.  A record or a duplicate that comes  *)
(* within the window starts the wait anew, and the batch waits on.         *)
BatchWindowHolds == age <= BatchWindow
=============================================================================
