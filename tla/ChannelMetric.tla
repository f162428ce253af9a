---------------------------- MODULE ChannelMetric ----------------------------
(***************************************************************************)
(* ENABLE_METRIC: the last outcomes of every channel, and the disabling of *)
(* a channel most of whose outcomes were failures.  Emit hands an outcome  *)
(* to a goroutine that sends it into one of two bounded Go channels; a     *)
(* consumer for successes and one for failures share the map store without *)
(* a lock.  Every read and every write of the map is a step of its own,    *)
(* the three reads of a judgement too, and when both consumers are at it   *)
(* the runtime may detect it and end the process.                          *)
(***************************************************************************)
EXTENDS Gateway, Integers, Sequences, FiniteSets

CONSTANTS
  QueueSize,               \* MetricQueueSize
  ThresholdNum, ThresholdDen,  \* MetricSuccessRateThreshold, as a fraction
  BufferSize,              \* MetricSuccessChanSize and MetricFailChanSize
  MaxEmits                 \* bound: outcomes

ASSUME MetricAssumption ==
  /\ NoChannel \notin Channels /\ QueueSize \in Nat /\ BufferSize \in Nat \ {0} /\ MaxEmits \in Nat
  /\ ThresholdNum \in Nat /\ ThresholdDen \in Nat \ {0}

VARIABLES
  store,     \* the outcomes kept of each channel, oldest first
  sending,   \* goroutines of Emit that wait to send: how many, by outcome and channel
  buffer,    \* metricSuccessChan and metricFailChan
  consumerPc, item, slice,   \* of each consumer: its step, its channel, the slice it has read
  successCount, low,         \* of consumeFail: what it counted, and whether successRate is
                             \*   below the threshold
  running,
  torn,      \* history: the success consumer wrote the window between the reads of the
             \*   judgement in progress
  taken,     \* history: how many outcomes the consumers took, by outcome and channel
  disabled,  \* history: whether MetricDisableChannel was started for a channel on a
             \*   "whole" window, on a "torn" one, or both
  emits

consumers == <<consumerPc, item, slice>>
judging == <<successCount, low, torn>>
metricVars == <<store, sending, buffer, consumers, judging, running, taken, disabled, emits>>

\* An outcome is TRUE for a success; it names its Go channel and its consumer.
Count(s, b) == Cardinality({k \in DOMAIN s : s[k] = b})

MetricInit ==
  /\ store = [c \in Channels |-> <<>>]
  /\ sending = [b \in BOOLEAN |-> [c \in Channels |-> 0]]
  /\ buffer = [b \in BOOLEAN |-> <<>>]
  /\ consumerPc = [b \in BOOLEAN |-> "idle"]
  /\ item = [b \in BOOLEAN |-> NoChannel] /\ slice = [b \in BOOLEAN |-> <<>>]
  /\ running = TRUE
  /\ taken = [b \in BOOLEAN |-> [c \in Channels |-> 0]]
  /\ successCount = 0 /\ low = FALSE /\ torn = FALSE
  /\ disabled = [c \in Channels |-> {}] /\ emits = 0

Emit(c, b) ==
  /\ emits < MaxEmits /\ emits' = emits + 1
  /\ sending' = [sending EXCEPT ![b][c] = @ + 1]
  /\ UNCHANGED <<store, buffer, consumers, judging, running, taken, disabled>>

Send(c, b) ==
  /\ sending[b][c] > 0 /\ Len(buffer[b]) < BufferSize
  /\ sending' = [sending EXCEPT ![b][c] = @ - 1]
  /\ buffer' = [buffer EXCEPT ![b] = Append(@, c)]
  /\ UNCHANGED <<store, consumers, judging, running, taken, disabled, emits>>

Goto(b, step) == consumerPc' = [consumerPc EXCEPT ![b] = step]

Take(b) ==
  /\ consumerPc[b] = "idle" /\ buffer[b] # <<>>
  /\ item' = [item EXCEPT ![b] = Head(buffer[b])]
  /\ buffer' = [buffer EXCEPT ![b] = Tail(@)]
  /\ taken' = [taken EXCEPT ![b][Head(buffer[b])] = @ + 1]
  /\ Goto(b, "trim_read")
  /\ UNCHANGED <<store, sending, slice, judging, running, disabled, emits>>

\* The oldest outcome goes only if there are more than QueueSize.
TrimRead(b) ==
  /\ consumerPc[b] = "trim_read"
  /\ Goto(b, IF Len(store[item[b]]) > QueueSize THEN "slice_read" ELSE "append_read")
  /\ UNCHANGED <<store, sending, buffer, item, slice, judging, running, taken, disabled, emits>>

\* The window is read again, to be cut; "slice bounds out of range" if it was reset.
SliceRead(b) ==
  /\ consumerPc[b] = "slice_read"
  /\ IF store[item[b]] = <<>> THEN running' = FALSE /\ UNCHANGED <<consumerPc, slice>>
     ELSE /\ slice' = [slice EXCEPT ![b] = store[item[b]]]
          /\ Goto(b, "trim") /\ UNCHANGED running
  /\ UNCHANGED <<store, sending, buffer, item, judging, taken, disabled, emits>>

\* A write of the success consumer into the window that consumeFail is judging.
Disturbs(b) == b /\ consumerPc[FALSE] \in {"rate", "judge"} /\ item[FALSE] = item[b]
Write(b, window) ==
  /\ store' = [store EXCEPT ![item[b]] = window]
  /\ torn' = (torn \/ Disturbs(b))
  /\ UNCHANGED <<sending, buffer, successCount, low, running, taken, disabled, emits>>

Trim(b) ==
  /\ consumerPc[b] = "trim" /\ Goto(b, "append_read")
  /\ Write(b, Tail(slice[b]))
  /\ UNCHANGED <<item, slice>>

AppendRead(b) ==
  /\ consumerPc[b] = "append_read" /\ Goto(b, "append")
  /\ slice' = [slice EXCEPT ![b] = store[item[b]]]
  /\ UNCHANGED <<store, sending, buffer, item, judging, running, taken, disabled, emits>>

Rest(b) ==
  /\ consumerPc' = [consumerPc EXCEPT ![b] = "idle"]
  /\ item' = [item EXCEPT ![b] = NoChannel] /\ slice' = [slice EXCEPT ![b] = <<>>]

AppendOutcome(b) ==
  /\ consumerPc[b] = "append"
  /\ Write(b, Append(slice[b], b))
  /\ IF b THEN Rest(b) ELSE Goto(b, "count") /\ UNCHANGED <<item, slice>>

\* The three reads of consumeFail: the range that counts the successes, the length for
\* successRate, and the length that must have come to QueueSize.
CountGood ==
  /\ consumerPc[FALSE] = "count" /\ Goto(FALSE, "rate")
  /\ successCount' = Count(store[item[FALSE]], TRUE) /\ torn' = FALSE
  /\ UNCHANGED <<store, sending, buffer, item, slice, low, running, taken, disabled, emits>>

RateRead ==
  /\ consumerPc[FALSE] = "rate" /\ Goto(FALSE, "judge")
  /\ low' = (successCount * ThresholdDen < ThresholdNum * Len(store[item[FALSE]]))
  /\ successCount' = 0   \* not looked at again
  /\ UNCHANGED <<store, sending, buffer, item, slice, torn, running, taken, disabled, emits>>

\* Faulty variant: the length of the window is not looked at.
JudgeEarly ==
  /\ consumerPc[FALSE] = "judge"
  /\ IF low THEN Goto(FALSE, "reset") /\ UNCHANGED <<item, slice>> ELSE Rest(FALSE)
  /\ UNCHANGED <<store, sending, buffer, judging, running, taken, disabled, emits>>

Judge ==
  /\ consumerPc[FALSE] = "judge"
  /\ IF Len(store[item[FALSE]]) >= QueueSize /\ low
     THEN Goto(FALSE, "reset") /\ UNCHANGED <<item, slice>> ELSE Rest(FALSE)
  /\ UNCHANGED <<store, sending, buffer, judging, running, taken, disabled, emits>>

Disable(c) ==
  disabled' = [disabled EXCEPT ![c] = @ \cup {IF torn THEN "torn" ELSE "whole"}]

\* Faulty variant: the consumer returns when it has disabled a channel.
ResetAndStop ==
  /\ consumerPc[FALSE] = "reset" /\ Goto(FALSE, "stopped")
  /\ store' = [store EXCEPT ![item[FALSE]] = <<>>]
  /\ Disable(item[FALSE])
  /\ UNCHANGED <<sending, buffer, item, slice, judging, running, taken, emits>>

\* The window starts anew, and a goroutine disables the channel.
Reset ==
  /\ consumerPc[FALSE] = "reset" /\ Rest(FALSE)
  /\ store' = [store EXCEPT ![item[FALSE]] = <<>>]
  /\ Disable(item[FALSE])
  /\ UNCHANGED <<sending, buffer, judging, running, taken, emits>>

\* "fatal error: concurrent map read and map write".
Fatal ==
  /\ \A b \in BOOLEAN : consumerPc[b] # "idle"
  /\ running' = FALSE
  /\ UNCHANGED <<store, sending, buffer, consumers, judging, taken, disabled, emits>>

Consume(b) ==
  \/ Take(b) \/ TrimRead(b) \/ SliceRead(b) \/ Trim(b) \/ AppendRead(b) \/ AppendOutcome(b)
  \/ ~b /\ (CountGood \/ RateRead \/ Judge \/ Reset)

MetricNext ==
  /\ running
  /\ \/ \E c \in Channels, b \in BOOLEAN : Emit(c, b) \/ Send(c, b)
     \/ \E b \in BOOLEAN : Consume(b)
     \/ Fatal

\* The goroutines are scheduled, and a send that waits is served in its turn.
MetricFairness ==
  /\ \A b \in BOOLEAN : WF_metricVars(running /\ Consume(b))
  /\ \A b \in BOOLEAN, c \in Channels : SF_metricVars(running /\ Send(c, b))
MetricSpec == MetricInit /\ [][MetricNext]_metricVars
MetricFairSpec == MetricSpec /\ MetricFairness

-----------------------------------------------------------------------------

\* A channel is disabled only after QueueSize outcomes of its own, too few of them
\* successes: enough failures were taken to make up such a window.  The rate is only
\* sure when the success consumer wrote nothing between the three reads of the window;
\* else a good channel may be disabled, but still not before QueueSize of its outcomes
\* were taken, among them a failure and the success that came in between.
DisabledForCause ==
  \A c \in Channels :
    /\ "whole" \in disabled[c] =>
         \E good \in 0..taken[TRUE][c], bad \in 0..taken[FALSE][c] :
           /\ good + bad >= QueueSize
           /\ good * ThresholdDen < ThresholdNum * (good + bad)
    /\ "torn" \in disabled[c] =>
         /\ taken[TRUE][c] + taken[FALSE][c] >= QueueSize
         /\ taken[TRUE][c] > 0 /\ taken[FALSE][c] > 0

\* Every outcome is consumed while the process runs, although the sends may block.
OutcomesConsumed ==
  \A b \in BOOLEAN, c \in Channels : sending[b][c] > 0 ~> (sending[b][c] = 0 /\ buffer[b] = <<>>) \/ ~running

-----------------------------------------------------------------------------
(* Statements that do not hold; see the observations in the README. *)

\* A disabled channel had failures enough.
AlwaysForCause == \A c \in Channels : "torn" \notin disabled[c]

\* The queue of outcomes has the size it is configured to have.
WindowBounded == \A c \in Channels : Len(store[c]) <= QueueSize

=============================================================================
