----------------------------- MODULE RelayRetry -----------------------------
(***************************************************************************)
(* The way of one request through the gateway: middleware.Distribute draws *)
(* a channel, controller.Relay has it served, and on an error draws again  *)
(* up to RetryTimes times.  The attempts share one gin context and one     *)
(* response writer.  What each attempt came to is reported to the monitor, *)
(* a failure by a goroutine of its own.  Other requests and administrators *)
(* change the set of channels meanwhile.                                   *)
(***************************************************************************)
EXTENDS Deployment, Integers, Sequences, FiniteSets

CONSTANTS
  Priorities,    \* ways to give the channels priorities
  Prompted,      \* channels that force a system prompt
  Modes,         \* helpers that may serve the request
  RetryTimes,
  MaxChanges     \* bound: changes of the set of channels

ASSUME RetryAssumption ==
  /\ IsFiniteSet(Channels)
  /\ NoChannel \notin Channels /\ Priorities \subseteq [Channels -> Int] /\ Prompted \subseteq Channels
  /\ Modes \subseteq {"text", "image", "audio", "proxy"} /\ CacheModes \subseteq BOOLEAN
  /\ AutoDisable \in BOOLEAN /\ RetryTimes \in Nat /\ MaxChanges \in Nat

VARIABLES
  priority,   \* of each channel
  mode,        \* which helper serves the request
  serving,    \* the channels that serve the group and the model
  named,      \* the channel the token names (SpecificChannelId), or NoChannel
  relayPc,
  channel,    \* in the context: the channel of the attempt,
  prompt,     \*   and the channel whose system prompt is forced, or NoChannel
  retryTimes, turnsLeft, lastFailed,   \* local variables of Relay (turnsLeft is its i)
  tries,      \* history: the attempts and what each came to
  failing,    \* goroutines of processChannelRelayError that have not run
  reports,    \* history: what the monitor was told, by attempt
  answers,    \* history: how often an answer was begun
  changes

setting == <<memoryCache, priority, mode>>
context == <<channel, prompt>>
locals == <<retryTimes, turnsLeft, lastFailed>>
retryVars == <<setting, serving, named, relayPc, context, locals, tries, failing, reports, answers, changes>>

-----------------------------------------------------------------------------
(* Drawing a channel. *)

\* The list of C as sort.Slice leaves it: every channel once, the highest priority first.
Sorted(s, C) ==
  /\ {s[k] : k \in DOMAIN s} = C
  /\ \A j, k \in DOMAIN s : j < k => priority[s[j]] >= priority[s[k]]
ByPriority(C) == CHOOSE s \in [1..Cardinality(C) -> C] : Sorted(s, C)

\* Faulty variant: the scan stops one channel early.
endIdxShort(channels) ==
  LET first == priority[channels[1]]
      others == {k \in 1..Len(channels) : priority[channels[k]] # first}
  IN  IF first > 0 /\ others # {} THEN (CHOOSE k \in others : \A j \in others : k <= j) - 2
      ELSE Len(channels)

\* Where CacheGetRandomSatisfiedChannel ends the first priority: the number of
\* channels that share it, or of all when it is not positive.
endIdx(channels) ==
  LET first == priority[channels[1]]
      others == {k \in 1..Len(channels) : priority[channels[k]] # first}
  IN  IF first > 0 /\ others # {} THEN (CHOOSE k \in others : \A j \in others : k <= j) - 1
      ELSE Len(channels)

FromCache(C, ignoreFirst) ==
  IF C = {} THEN {} ELSE
  LET channels == ByPriority(C)
      n == endIdx(channels)
  IN  IF ignoreFirst /\ n < Len(channels) THEN {channels[k] : k \in n + 1..Len(channels)}
      ELSE {channels[k] : k \in 1..n}

\* GetRandomSatisfiedChannel, by a query on the maximal priority.
First(C) == {c \in C : \A d \in C : priority[d] <= priority[c]}
FromTable(C, ignoreFirst) == IF ignoreFirst THEN C ELSE First(C)

Draws(ignoreFirst) == IF memoryCache THEN FromCache(serving, ignoreFirst) ELSE FromTable(serving, ignoreFirst)

-----------------------------------------------------------------------------
(* What an attempt comes to: the status of the error, if the channel had      *)
(* answered with success, and if anything was written to the client.  The     *)
(* helpers refuse before they ask the channel, pass on its error, fail to read *)
(* its answer (500, or 200 with an error in the body), or fail once the header *)
(* and a part of the body are written.  One status stands for each class that  *)
(* shouldRetry and the monitor tell apart.                                     *)

Outcome(st, served, wrote) == [st |-> st, served |-> served, wrote |-> wrote]
Success == Outcome(0, TRUE, TRUE)
Refused == {Outcome(st, FALSE, FALSE) : st \in {400, 403}}
Rejected == {Outcome(st, FALSE, FALSE) : st \in {401, 429}}
Unreadable == {Outcome(st, TRUE, FALSE) : st \in {200, 500}}
CutShort == {Outcome(500, TRUE, TRUE)}
Outcomes == {Success} \cup Refused \cup Rejected \cup Unreadable \cup CutShort

\* Text is charged after DoResponse has succeeded; an image by a deferred function,
\* unless the channel's status was an error; audio before the body is copied.
Charged(o) ==
  CASE mode = "text" -> o = Success
    [] mode = "image" -> o.served
    [] mode = "audio" -> o.wrote
    [] mode = "proxy" -> FALSE

shouldRetry(status) ==
  /\ named = NoChannel
  /\ \/ status = 429 \/ status \div 100 = 5
     \/ status # 400 /\ status \div 100 # 2

-----------------------------------------------------------------------------
RetryInit ==
  /\ memoryCache \in CacheModes /\ priority \in Priorities /\ mode \in Modes
  /\ serving = Channels
  /\ named \in Channels \cup {NoChannel}
  /\ relayPc = "distribute"
  /\ channel = NoChannel /\ prompt = NoChannel
  /\ retryTimes = 0 /\ turnsLeft = 0 /\ lastFailed = NoChannel
  /\ tries = <<>> /\ failing = {} /\ reports = {}
  /\ answers = 0 /\ changes = 0

\* A channel is enabled or disabled, or the routing table refreshed.
ChannelsChange ==
  /\ changes < MaxChanges /\ changes' = changes + 1
  /\ serving' \in SUBSET Channels
  /\ UNCHANGED <<named, relayPc, context, locals, tries, failing, reports, answers>>

\* SetupContextForSelectedChannel sets the prompt only if the channel has one.
SetupContext(c) ==
  /\ channel' = c
  /\ prompt' = IF c \in Prompted THEN c ELSE prompt

\* A named channel needs to be enabled, but not to serve the group and the model.
Distribute ==
  /\ relayPc = "distribute"
  /\ \E drawn \in IF named # NoChannel THEN {{}, {named}} ELSE {Draws(FALSE)} :
       \/ drawn = {} /\ relayPc' = "done" /\ answers' = answers + 1 /\ UNCHANGED context
       \/ (\E c \in drawn : SetupContext(c)) /\ relayPc' = "attempt" /\ UNCHANGED answers
  /\ UNCHANGED <<serving, named, locals, tries, failing, reports, changes>>

Try(o) ==
  tries' = Append(tries, [ch |-> channel, prompt |-> prompt, st |-> o.st, served |-> o.served,
                          wrote |-> o.wrote, charged |-> Charged(o)])

\* Only the first attempt's success is told to the monitor.
Succeed ==
  /\ relayPc = "attempt" /\ relayPc' = "done"
  /\ Try(Success)
  /\ reports' = IF tries = <<>> THEN reports \cup {<<1, channel, "success">>} ELSE reports
  /\ answers' = answers + 1
  /\ UNCHANGED <<serving, named, context, locals, failing, changes>>

\* Faulty variant: the goroutine is given the channel the request began with.
FailBlamingFirst(o) ==
  /\ relayPc = "attempt" /\ relayPc' = "retry"
  /\ Try(o)
  /\ failing' = failing \cup {<<Len(tries) + 1, IF tries = <<>> THEN channel ELSE tries[1].ch, o.st>>}
  /\ lastFailed' = channel
  /\ IF tries = <<>> THEN /\ retryTimes' = IF shouldRetry(o.st) THEN RetryTimes ELSE 0
                          /\ turnsLeft' = retryTimes'
     ELSE UNCHANGED <<retryTimes, turnsLeft>>
  /\ answers' = answers + (IF o.wrote THEN 1 ELSE 0)
  /\ UNCHANGED <<serving, named, context, reports, changes>>

\* Whether to retry is decided once, by the first error.
Fail(o) ==
  /\ relayPc = "attempt" /\ relayPc' = "retry"
  /\ Try(o)
  /\ failing' = failing \cup {<<Len(tries) + 1, channel, o.st>>}
  /\ lastFailed' = channel
  /\ IF tries = <<>> THEN /\ retryTimes' = IF shouldRetry(o.st) THEN RetryTimes ELSE 0
                          /\ turnsLeft' = retryTimes'
     ELSE UNCHANGED <<retryTimes, turnsLeft>>
  /\ answers' = answers + (IF o.wrote THEN 1 ELSE 0)
  /\ UNCHANGED <<serving, named, context, reports, changes>>

\* Faulty variant: a draw of the same channel does not count.
RetryFree ==
  /\ relayPc = "retry" /\ turnsLeft > 0
  /\ \/ Draws(turnsLeft # retryTimes) = {} /\ turnsLeft' = 0 /\ UNCHANGED <<relayPc, context>>
     \/ \E c \in Draws(turnsLeft # retryTimes) :
          \/ c = lastFailed /\ UNCHANGED <<turnsLeft, relayPc, context>>
          \/ c # lastFailed /\ turnsLeft' = turnsLeft - 1 /\ SetupContext(c) /\ relayPc' = "attempt"
  /\ UNCHANGED <<serving, named, retryTimes, lastFailed, tries, failing, reports, answers, changes>>

\* One turn of the loop.  The first retry draws by priority again; the channel that
\* failed last may be drawn and uses the turn up.
Retry ==
  /\ relayPc = "retry" /\ turnsLeft > 0
  /\ \/ Draws(turnsLeft # retryTimes) = {} /\ turnsLeft' = 0 /\ UNCHANGED <<relayPc, context>>
     \/ \E c \in Draws(turnsLeft # retryTimes) :
          /\ turnsLeft' = turnsLeft - 1
          /\ \/ c = lastFailed /\ UNCHANGED <<relayPc, context>>
             \/ c # lastFailed /\ SetupContext(c) /\ relayPc' = "attempt"
  /\ UNCHANGED <<serving, named, retryTimes, lastFailed, tries, failing, reports, answers, changes>>

\* The last error is the answer.
GiveUp ==
  /\ relayPc = "retry" /\ turnsLeft = 0 /\ relayPc' = "done"
  /\ answers' = answers + 1
  /\ UNCHANGED <<serving, named, context, locals, tries, failing, reports, changes>>

\* processChannelRelayError.  A 401 disables; for others the message decides.
Report(f) ==
  /\ f \in failing /\ failing' = failing \ {f}
  /\ \E verdict \in (IF AutoDisable THEN {"disable"} ELSE {})
                    \cup (IF AutoDisable /\ f[3] = 401 THEN {} ELSE {"failure"}) :
       reports' = reports \cup {<<f[1], f[2], verdict>>}
  /\ UNCHANGED <<serving, named, relayPc, context, locals, tries, answers, changes>>

Relay == Succeed \/ (\E o \in Outcomes \ {Success} : Fail(o)) \/ Retry \/ GiveUp

RetryNext ==
  /\ UNCHANGED setting
  /\ ChannelsChange \/ Distribute \/ Relay \/ \E f \in failing : Report(f)

\* With RELAY_TIMEOUT every attempt ends; the goroutines are scheduled.
RetryFairness ==
  /\ WF_retryVars(UNCHANGED setting /\ Distribute)
  /\ WF_retryVars(UNCHANGED setting /\ Relay)
  /\ WF_retryVars(UNCHANGED setting /\ \E f \in failing : Report(f))
RetrySpec == RetryInit /\ [][RetryNext]_retryVars
RetryFairSpec == RetrySpec /\ RetryFairness

-----------------------------------------------------------------------------
Attempts == DOMAIN tries

\* Each failed attempt is reported once, against the channel that failed, and a
\* report is of an attempt that ended that way; however late the goroutine runs.
FailuresReported ==
  /\ \A n \in Attempts : tries[n].st # 0 =>
       LET told == {f \in failing : f[1] = n}
           said == {r \in reports : r[1] = n}
       IN  Cardinality(told) + Cardinality(said) = 1 /\ \A x \in told \cup said : x[2] = tries[n].ch
  /\ \A r \in reports : r[3] = "success" <=> tries[r[1]].st = 0

\* The prefix of the sorted list that the cache draws from is what the query draws
\* from, when the highest priority is positive; later draws prefer the others.
DrawsAgree ==
  LET top == {c \in serving : priority[c] > 0} IN
  /\ top # {} => FromCache(serving, FALSE) = FromTable(serving, FALSE)
  /\ FromCache(serving, TRUE) \subseteq FromTable(serving, TRUE)
  /\ serving # {} => FromCache(serving, TRUE) # {}
  /\ top # {} /\ First(serving) # serving => FromCache(serving, TRUE) = serving \ First(serving)

\* Every request ends and every failure is reported, for any choice of channels.
RequestEnds == <>(relayPc = "done" /\ failing = {})

-----------------------------------------------------------------------------
(* Statements that do not hold; see the observations in the README. *)

\* The monitor learns the outcome of every request it rates channels by.
OutcomesCounted == relayPc = "done" /\ failing = {} => \A n \in Attempts : \E r \in reports : r[1] = n

\* An error is answered, or an attempt repeated, only while no header has been written.
\* (An attempt that is cut short has written one.)
AnsweredOnce == answers <= 1

\* The system prompt forced on an attempt is one its channel was given.
PromptOfChannel == relayPc = "attempt" /\ prompt # NoChannel => prompt = channel

=============================================================================
