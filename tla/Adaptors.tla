------------------------------ MODULE Adaptors ------------------------------
(***************************************************************************)
(* One request served by a protocol adaptor, as RelayTextHelper drives it: *)
(* the conversation is converted, the channel asked, its answer handled    *)
(* piece by piece, and the quota held for the request settled.  Channels   *)
(* send what they like, streams break off, bodies cannot be closed and     *)
(* clients leave.  The xunfei adaptor reads its websocket in a goroutine   *)
(* that hands messages over an unbuffered channel; images of ali and all   *)
(* of replicate are tasks that are polled.                                 *)
(***************************************************************************)
EXTENDS AdaptorBodies, AdaptorConversions, SequencesExt

CONSTANTS
  CompletionRatio,   \* price of a token of the completion
  MaxStep,           \* polls of a task of ali (maxStep, 20 in the code)
  MaxMessages,       \* bound: turns of a conversation
  MaxItems           \* bound: items of a stream

ASSUME AdaptorAssumption ==
  /\ CompletionRatio \in Nat \ {0} /\ MaxStep \in Nat \ {0}
  /\ MaxMessages \in Nat /\ MaxItems \in Nat

Streaming == {"openai", "completions", "zhipuV4", "anthropic", "gemini", "baidu", "tencent", "zhipu", "ali",
              "ollama", "cohere", "coze", "aiproxy", "cloudflare", "awsClaude", "awsLlama", "replicate"}
Calls == {[a |-> a, mode |-> "stream"] : a \in Streaming \cup {"xunfei", "palm", "deepl"}} \cup
         {[a |-> a, mode |-> "text"] : a \in (Streaming \ {"completions"}) \cup {"xunfei", "palm", "deepl"}} \cup
         {[a |-> a, mode |-> "embedding"] : a \in {"openai", "gemini", "baidu", "tencent", "zhipu", "ali", "ollama"}} \cup
         {[a |-> a, mode |-> "image"] : a \in {"openai", "ali", "replicate"}} \cup
         {[a |-> "proxy", mode |-> "proxy"]}

VARIABLES
  call, pc,
  ms, sent,    \* the conversation and the request made of it, until it is sent
  said,        \* history: the items read from the channel
  s,           \* locals of the stream handler
  producer,    \* the goroutine of xunfeiMakeRequest
  gone,        \* the client has left
  step,        \* local variable of asyncTaskWait
  result,      \* what DoResponse returned
  fault,       \* history: what failed while the answer was handled
  bill         \* what became of the hold

handling == <<said, s, producer, gone, step>>
vars == <<call, pc, ms, sent, handling, result, fault, bill>>

a == call.a
stream == call.mode = "stream"

\* Images and requests passed through are charged by other helpers.
Priced == call.mode \notin {"image", "proxy"}
LeaveHold == bill' = IF Priced THEN [bill EXCEPT !.state = "left"] ELSE bill

-----------------------------------------------------------------------------
Conversations == UNION {[1..n -> Messages] : n \in 1..MaxMessages}
Inputs == {<<>>} \cup {[k \in 1..n |-> [role |-> "user", content |-> "string"]] : n \in 1..MaxMessages}
Given(mode) == CASE mode \in {"stream", "text"} -> Conversations
                 [] mode = "embedding" -> Inputs
                 [] OTHER -> {<<>>}

Init ==
  /\ call \in Calls /\ pc = "start" /\ ms \in Given(call.mode) /\ sent = Refuse
  /\ said = <<>> /\ s = Locals(InitialUsage(call.a)) /\ producer = "none" /\ gone = FALSE /\ step = 0
  /\ result = Result("none", NoUsage) /\ fault = "none"
  /\ bill = [state |-> IF Priced THEN "held" ELSE "none", amount |-> 0]

\* The requests ConvertRequest may make of a conversation.
ConvertRequest(m) ==
  CASE a \in {"openai", "completions", "zhipuV4"} -> {OpenaiRequest(m)}
    [] a \in {"anthropic", "awsClaude"} -> {AnthropicRequest(m)}
    [] a = "gemini" -> {GeminiRequest(m, instruction) : instruction \in BOOLEAN}
    [] a = "baidu" -> {BaiduRequest(m)}
    [] a = "tencent" -> {TencentRequest(m), Refuse}
    [] a = "zhipu" -> {ZhipuRequest(m)}
    [] a = "ali" -> {AliRequest(m)}
    [] a = "ollama" -> {OllamaRequest(m)}
    [] a = "cohere" -> {CohereRequest(m)}
    [] a = "coze" -> {CozeRequest(m)}
    [] a = "aiproxy" -> {AiproxyRequest(m)}
    [] a = "cloudflare" -> {CloudflareRequest(m)}
    [] a = "awsLlama" -> {LlamaRequest(m)}
    [] a = "replicate" -> {ReplicateRequest(m, stream)}
    [] a = "xunfei" -> {XunfeiRequest(m)}
    [] a = "palm" -> {PalmRequest(m)}
    [] a = "deepl" -> {DeeplRequest(m)}

\* The inputs of an embedding are sent as they are; zhipu takes one.
ConvertEmbeddingRequest(m) == IF a = "zhipu" /\ Len(m) # 1 THEN Refuse ELSE Request(0, Turns(m))

Converts(request) ==
  /\ pc = "start"
  /\ sent' = request
  /\ pc' = "converted"
  /\ UNCHANGED <<call, ms, handling, result, fault, bill>>

ConvertText == call.mode \in {"stream", "text"} /\ \E request \in ConvertRequest(ms) : Converts(request)
ConvertEmbedding == call.mode = "embedding" /\ Converts(ConvertEmbeddingRequest(ms))
ConvertOther == call.mode \in {"image", "proxy"} /\ Converts(Request(0, <<>>))

\* The conversation is of no more use once it is sent or has failed.
Forget == ms' = <<>> /\ sent' = Refuse

\* A request that cannot be made leaves the hold where it is.
ConvertFails ==
  /\ pc = "converted" /\ sent.got # "request"
  /\ result' = IF sent.got = "panic" THEN Crashed ELSE Failed
  /\ LeaveHold
  /\ pc' = "end" /\ Forget
  /\ UNCHANGED <<call, handling, fault>>

Local == {"awsClaude", "awsLlama", "xunfei"}   \* nothing is sent by DoRequest

\* As above for a request that cannot be sent.
DoRequestFails ==
  /\ pc = "converted" /\ sent.got = "request" /\ a \notin Local
  /\ result' = Failed
  /\ LeaveHold
  /\ pc' = "end" /\ Forget
  /\ UNCHANGED <<call, handling, fault>>

\* The channel answers, perhaps with an error.
DoRequest ==
  /\ pc = "converted" /\ sent.got = "request" /\ Forget
  /\ \/ /\ a \notin Local
        /\ result' = Failed /\ pc' = "returned"
     \/ /\ pc' = CASE a = "xunfei" -> "connecting"
                   [] stream /\ a \notin {"xunfei", "replicate", "palm", "deepl"} -> "reading"
                   [] OTHER -> "body"
        /\ UNCHANGED result
  /\ UNCHANGED <<call, handling, fault, bill>>

-----------------------------------------------------------------------------
(* Streams that the handler reads itself. *)

ByGin == {"awsClaude", "awsLlama"}   \* loops of c.Stream, which end when the client leaves

ReadItem ==
  /\ pc = "reading" /\ a # "xunfei" /\ s.ended = "no" /\ Len(said) < MaxItems
  /\ ~(a \in ByGin /\ gone)
  /\ \E item \in Items(Sends(a)) :
       /\ said' = Append(said, item)
       /\ s' = DoItem(a, s, item, Len(said) + 1)
  /\ UNCHANGED <<call, pc, ms, sent, producer, gone, step, result, fault, bill>>

\* The SDK refuses the call or the model is not known; nothing was written.
StreamRefused ==
  /\ pc = "reading" /\ a \in ByGin /\ said = <<>> /\ ~gone
  /\ result' = Failed /\ pc' = "returned"
  /\ UNCHANGED <<call, ms, sent, handling, fault, bill>>

Unclosed == ByGin \cup {"replicate"}   \* the body is closed by defer

\* The channel has sent all, or the stream breaks off: the handlers log that and go on,
\* replicate's gives up.  The body may fail to close.
EndOfStream ==
  /\ pc = "reading" /\ a # "xunfei"
  /\ \E how \in {"none"} \cup (IF s.ended = "no" THEN {"cut"} ELSE {}) \cup
                (IF a \notin Unclosed THEN {"close"} ELSE {}) :
       LET fails == how = "close" \/ (how = "cut" /\ a = "replicate")
       IN  /\ fault' = how
           /\ s' = IF how = "cut" /\ a = "replicate" THEN s ELSE AfterLoop(a, s)
           /\ result' = IF fails THEN Failed ELSE Result("none", StreamUsage(a, s))
  /\ pc' = "returned"
  /\ UNCHANGED <<call, ms, sent, said, producer, gone, step, bill>>

ClientLeaves ==
  /\ pc = "reading" /\ stream /\ ~gone
  /\ gone' = TRUE
  /\ UNCHANGED <<call, pc, ms, sent, said, s, producer, step, result, fault, bill>>

\* c.Stream returns; the rest of the stream is not read.
StreamLeft ==
  /\ pc = "reading" /\ a \in ByGin \cup {"xunfei"} /\ stream /\ gone /\ s.ended = "no"
  /\ result' = Result("none", StreamUsage(a, s))
  /\ pc' = "returned"
  /\ UNCHANGED <<call, ms, sent, handling, fault, bill>>

-----------------------------------------------------------------------------
(* xunfei. *)

Connect ==
  /\ pc = "connecting"
  /\ \/ result' = Failed /\ pc' = "returned" /\ UNCHANGED producer
     \/ producer' = "reading" /\ pc' = "reading" /\ UNCHANGED result
  /\ UNCHANGED <<call, ms, sent, said, s, gone, step, fault, bill>>

\* The first message is read before the goroutine starts, so it cannot fail to be read.
ProducerReads ==
  /\ producer = "reading"
  /\ \/ /\ Len(said) > 0
        /\ producer' = "stopping" /\ UNCHANGED said
     \/ /\ Len(said) < MaxItems
        /\ \E item \in Items(Sends(a)) :
             IF item.kind \in {"noise", "bad"} THEN producer' = "stopping" /\ UNCHANGED said
             ELSE producer' = "sending" /\ said' = Append(said, item)
  /\ UNCHANGED <<call, pc, ms, sent, s, gone, step, result, fault, bill>>

\* Without a stream only what has text is added up.
XunfeiPlainItem(l, item) ==
  IF HasText(item) THEN [Collect(l, item) EXCEPT !.usage = Add(@, item.rep)] ELSE l

\* dataChan is unbuffered: the two meet.  A message that reports usage is the last.
Receive ==
  /\ pc = "reading" /\ producer = "sending" /\ ~(stream /\ gone)
  /\ s' = IF stream THEN XunfeiItem(s, Last(said), Len(said)) ELSE XunfeiPlainItem(s, Last(said))
  /\ producer' = IF HasReport(Last(said)) THEN "stopping" ELSE "reading"
  /\ UNCHANGED <<call, pc, ms, sent, said, gone, step, result, fault, bill>>

\* Faulty variant: the plain handler returns on the last message and does not wait for
\* stopChan.
ReceiveStopEarly ==
  /\ pc = "reading" /\ producer = "stopping" /\ ~(stream /\ gone)
  /\ IF stream THEN s' = Render(s, Done) /\ result' = Result("none", s.usage) /\ producer' = "ended"
     ELSE s' = Render(s, 1) /\ result' = Result("none", s.usage) /\ UNCHANGED producer
  /\ pc' = "returned"
  /\ UNCHANGED <<call, ms, sent, said, gone, step, fault, bill>>

\* The plain handler answers only if the last message had text.
ReceiveStop ==
  /\ pc = "reading" /\ producer = "stopping" /\ ~(stream /\ gone)
  /\ producer' = "ended"
  /\ CASE stream -> s' = Render(s, Done) /\ result' = Result("none", s.usage)
       [] ~stream /\ said # <<>> /\ HasText(Last(said)) -> s' = Render(s, 1) /\ result' = Result("none", s.usage)
       [] OTHER -> result' = Failed /\ UNCHANGED s
  /\ pc' = "returned"
  /\ UNCHANGED <<call, ms, sent, said, gone, step, fault, bill>>

-----------------------------------------------------------------------------
(* Answers in one body, and tasks. *)

Task == (a = "ali" /\ call.mode = "image") \/ a = "replicate"

BodyHandler(b) ==
  CASE call.mode = "stream" /\ a = "palm" -> PalmStreamHandler(b)
    [] call.mode = "stream" /\ a = "deepl" -> DeeplStreamHandler(b)
    [] call.mode = "text" -> TextHandler(a, b)
    [] call.mode = "embedding" -> EmbeddingHandler(a, b)
    [] call.mode = "image" -> OpenaiImage(b)
    [] call.mode = "proxy" -> ProxyHandler(b)

ReadBody ==
  /\ pc = "body" /\ ~Task
  /\ \E b \in Bodies :
       LET o == BodyHandler(b)
       IN  fault' = b.fault /\ result' = o.result /\ s' = [s EXCEPT !.out = o.out, !.text = b.text]
  /\ pc' = "returned"
  /\ UNCHANGED <<call, ms, sent, said, producer, gone, step, bill>>

\* The body only names the task.
TaskAccepted ==
  /\ pc = "body" /\ Task
  /\ \/ result' = Failed /\ pc' = "returned"
     \/ UNCHANGED result /\ pc' = "polling"
  /\ UNCHANGED <<call, ms, sent, handling, fault, bill>>

\* Faulty variant: the step is counted anew with every poll.
PollAgainUnbounded ==
  /\ pc = "polling" /\ step' = 1 /\ pc' = "sleeping"
  /\ UNCHANGED <<call, ms, sent, said, s, producer, gone, result, fault, bill>>

\* The task is still pending: ali's is polled MaxStep times, replicate's for ever.
PollAgain ==
  /\ pc = "polling"
  /\ IF a = "ali" /\ step + 1 >= MaxStep
     THEN step' = step + 1 /\ result' = Failed /\ pc' = "returned"
     ELSE step' = (IF a = "ali" THEN step + 1 ELSE step) /\ pc' = "sleeping" /\ UNCHANGED result
  /\ UNCHANGED <<call, ms, sent, said, s, producer, gone, fault, bill>>

Wake ==
  /\ pc = "sleeping"
  /\ pc' = "polling"
  /\ UNCHANGED <<call, ms, sent, handling, result, fault, bill>>

\* The task has failed, its state cannot be had, or its stream cannot be opened.
TaskFails ==
  /\ pc = "polling"
  /\ result' = Failed /\ pc' = "returned"
  /\ UNCHANGED <<call, ms, sent, handling, fault, bill>>

\* A chat goes on with the stream of the task.
TaskStreams ==
  /\ pc = "polling" /\ a = "replicate" /\ stream
  /\ pc' = "reading"
  /\ UNCHANGED <<call, ms, sent, handling, result, fault, bill>>

\* Two images are downloaded, some perhaps in vain; s.text counts those that arrived.
\* replicate fails when none did, ali leaves out those that failed.
TaskImages ==
  /\ pc = "polling" /\ call.mode = "image"
  /\ \E got \in 0..2 :
       IF got = 0 /\ a = "replicate" THEN result' = Failed /\ UNCHANGED s
       ELSE s' = [Render(s, 1) EXCEPT !.text = got] /\ UNCHANGED result
  /\ pc' = "returned"
  /\ UNCHANGED <<call, ms, sent, said, producer, gone, step, fault, bill>>

-----------------------------------------------------------------------------
(* What the caller does with the result. *)

\* The quota of an answer, at a ratio of 1.
Quota(usage) ==
  LET quota == usage.prompt + usage.completion * CompletionRatio
  IN  CASE usage.prompt + usage.completion = 0 -> 0
        [] usage.prompt + usage.completion # 0 /\ quota <= 0 -> 1
        [] OTHER -> quota

Settle ==
  /\ pc = "returned" /\ pc' = "end"
  /\ bill' = CASE ~Priced -> bill
               [] Priced /\ result.err = "error" -> [bill EXCEPT !.state = "returned"]
               [] Priced /\ result.err # "error" /\ (result.err = "panic" \/ result.usage = NoUsage) ->
                    [bill EXCEPT !.state = "left"]
               [] OTHER -> [state |-> "settled", amount |-> Quota(result.usage)]
  /\ UNCHANGED <<call, ms, sent, handling, result, fault>>

Finished == pc = "end" /\ UNCHANGED vars

Next ==
  \/ ConvertText \/ ConvertEmbedding \/ ConvertOther \/ ConvertFails \/ DoRequestFails \/ DoRequest
  \/ ReadItem \/ StreamRefused \/ EndOfStream \/ ClientLeaves \/ StreamLeft
  \/ Connect \/ ProducerReads \/ Receive \/ ReceiveStop
  \/ ReadBody \/ TaskAccepted \/ PollAgain \/ Wake \/ TaskFails \/ TaskStreams \/ TaskImages
  \/ Settle \/ Finished

\* Code goes on, and a channel goes on with its answer and ends it.  That a task ends
\* is assumed of replicate's only.
Fairness ==
  /\ WF_vars(ConvertText \/ ConvertEmbedding \/ ConvertOther \/ ConvertFails \/ DoRequestFails \/ DoRequest)
  /\ WF_vars(ReadItem \/ EndOfStream \/ StreamLeft)
  /\ WF_vars(Connect) /\ WF_vars(ProducerReads) /\ WF_vars(Receive \/ ReceiveStop)
  /\ WF_vars(ReadBody \/ TaskAccepted) /\ WF_vars(PollAgain \/ TaskFails \/ TaskStreams \/ TaskImages)
  /\ WF_vars(Wake) /\ WF_vars(Settle)
  /\ SF_vars(a = "replicate" /\ (TaskFails \/ TaskStreams \/ TaskImages))

Spec == Init /\ [][Next]_vars /\ Fairness

-----------------------------------------------------------------------------
(* Properties. *)

PassingOn == {"openai", "completions", "zhipuV4"}   \* adaptors that hand lines on as they are
Succeeded == pc = "end" /\ result.err = "none"

\* The end of the stream as the handler knows it did not come: an SDK's stream was
\* stopped, or c.Stream noticed that the client had left.
CutShort == s.ended = "stop" \/ (gone /\ a \in ByGin \cup {"xunfei"})

\* A channel that marks the end in the bare form, or goes on after the mark.
OddMark == a \in PassingOn /\ \E k \in DOMAIN said :
             said[k].kind = "bare" \/ (said[k].kind = "done" /\ k # Len(said))

\* A client of a stream that was served to its end sees [DONE] once, as the last chunk,
\* whether or not the channel sent a mark of its own; only a channel that the openai
\* handler passes on and that marks the end oddly can make it differ (render.Done after
\* each loop and doneRendered).
DoneClosesStream ==
  (Succeeded /\ stream /\ ~CutShort /\ ~OddMark) => {k \in DOMAIN s.out : s.out[k] = Done} = {Len(s.out)}

\* A handler that reports an error has written nothing, so that the caller may answer
\* with the error or try another channel; the exceptions are errors noticed after the
\* answer: a stream that breaks off or a body that does not close, a client that cannot
\* be written to, and the proxy, which sends the header before it reads.
SilentOnError ==
  (pc = "returned" /\ result.err # "none") =>
    \/ s.out = <<>>
    \/ (fault = "close" /\ stream) \/ (fault = "cut" /\ a = "replicate")
    \/ fault = "write" \/ (fault = "read" /\ a = "proxy")

Due(k) == HasText(said[k]) \/ (said[k].kind = "bad" /\ a \in PassingOn)
Handled == IF producer = "sending" THEN Len(said) - 1 ELSE Len(said)

\* Every piece of text that was read from a stream is rendered once and in the order of
\* the channel, data that cannot be parsed included where the adaptor passes lines on:
\* no handler loses text that comes in one item with a report or at the end.
TextRenderedOnce ==
  (stream /\ said # <<>> /\ s.ended # "stop") =>
    LET text == {j \in DOMAIN s.out : s.out[j] > 0 /\ Due(s.out[j])}
    IN  /\ \A i, j \in text : i < j => s.out[i] < s.out[j]
        /\ {s.out[j] : j \in text} = {k \in 1..Handled : Due(k)}

\* Reports that give the completion; that of a length limit does not count for llama.
Told == {k \in 1..Handled : said[k].kind \in {"usage", "both", "start"}}

\* The completion a report comes to: baidu takes it for the total less the prompt, and
\* openai does so for a report without a prompt.
Gives(rep) ==
  CASE a = "baidu" -> rep.total - rep.prompt
    [] a = "openai" /\ rep.prompt = 0 -> rep.total - PromptTokens
    [] OTHER -> rep.completion

Taking == {"openai", "zhipuV4", "zhipu", "awsLlama", "baidu"}   \* a later report replaces an earlier one
ToldNothing ==
  \A k \in Told : Gives(said[k].rep) <= 0 \/
                  (a \in Taking /\ \E j \in Told : j > k /\ Gives(said[j].rep) <= 0)

\* A stream whose text reached the client is charged more than its prompt, except where
\* the adaptor meters none (aiproxy, deepl) or relies on a report that never came, or
\* that came to no completion; adaptors that count the text themselves always charge,
\* and so does openai's unless it was told a total.
FreeTextHasCause ==
  (Succeeded /\ stream /\ (\E k \in DOMAIN s.out : s.out[k] > 0) /\ s.text + Len(said) > 0
             /\ (said = <<>> \/ \E k \in DOMAIN s.out : s.out[k] > 0 /\ HasText(said[s.out[k]]))
             /\ (bill.state # "settled" \/ bill.amount <= result.usage.prompt)) =>
    /\ a \notin Counting \cup {"completions", "palm"}
    /\ a \in {"aiproxy", "deepl"} \/ ToldNothing
    /\ a = "openai" => \E k \in Told : said[k].rep.total # 0

Converted == pc = "converted" /\ ms # <<>> /\ sent.got = "request"

DroppedByRule(k) ==
  \/ a \in {"baidu", "gemini"} /\ ms[k].role = "system" /\ k < sent.system
  \/ a = "cohere" /\ ms[k].role = "user" /\ \E j \in DOMAIN ms : j > k /\ ms[j].role = "user"
  \/ a \in {"aiproxy", "deepl"} /\ k < Len(ms)
  \/ a = "replicate" /\ ms[k].content = "parts"

\* No turn of the conversation is sent twice, turns keep their order (cohere asks the
\* user's last turn after all others), and a turn is left out only by the rule of the
\* adaptor: a system prompt that a later one takes the place of, an earlier question to
\* cohere, all but the last turn for aiproxy and deepl, lists of parts for replicate.
TurnsDroppedByRule ==
  Converted =>
    LET turns == sent.turns
        real == {j \in DOMAIN turns : turns[j].of # 0}
        history == IF a = "cohere" THEN real \ {Len(turns)} ELSE real
    IN  /\ \A j, k \in history : j < k => turns[j].of < turns[k].of
        /\ \A k \in DOMAIN ms :
             Cardinality({j \in DOMAIN turns : turns[j].of = k}) + (IF sent.system = k THEN 1 ELSE 0)
               = (IF DroppedByRule(k) THEN 0 ELSE 1)

\* The goroutine that reads xunfei's websocket has ended when the request is over, or is
\* left behind because the client of a stream went away: the handlers take every message
\* and the stop signal it has to hand over.
ProducerNotLeft == (pc = "end" /\ producer \notin {"none", "ended"}) => (stream /\ gone)

\* Every request comes to an end: handlers wait for the channel only, ali's task is
\* polled a bounded number of times, and the two goroutines of xunfei do not wait for
\* each other.
CallEnds == <>(pc = "end")

=============================================================================
