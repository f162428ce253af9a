-------------------------- MODULE AdaptorHandlers --------------------------
(***************************************************************************)
(* What the response handlers of the protocol adaptors do with the answer  *)
(* of a channel.  A stream is handled item by item: an item is a line of   *)
(* an event stream, a message of a websocket or an event of an SDK, told   *)
(* apart by what the handlers look for in it.  An answer in one body is    *)
(* handled at once.                                                        *)
(***************************************************************************)
EXTENDS Integers, Sequences, FiniteSets

CONSTANTS
  PromptTokens,    \* tokens of the prompt as counted here, meta.PromptTokens
  Reports          \* usages a channel may report

ASSUME HandlerAssumption ==
  /\ PromptTokens \in Nat \ {0}
  /\ Reports \subseteq [prompt : Nat, completion : Nat, total : Nat]

Usage(prompt, completion) == [prompt |-> prompt, completion |-> completion, total |-> prompt + completion]
ZeroUsage == Usage(0, 0)
NoUsage == [Usage(0, 0) EXCEPT !.total = -1]    \* a nil pointer

\* openai.ResponseText2Usage; each piece of text counts one token.
ResponseText2Usage(text) == Usage(PromptTokens, text)

-----------------------------------------------------------------------------
(* Items.  "text" has text, "usage" a report, "both" has both, "start" a report *)
(* at the start of a message, "limit" a report at a length limit, "empty" is     *)
(* neither; "noise" is what no handler reads as data, "bad" data it cannot parse, *)
(* "done" the line "data: [DONE]" and "bare" the line "[DONE]".                   *)

Reporting == {"usage", "both", "start", "limit"}
Items(kinds) == [kind : kinds \ Reporting, rep : {ZeroUsage}] \cup [kind : kinds \cap Reporting, rep : Reports]
HasText(item) == item.kind \in {"text", "both"}
HasReport(item) == item.kind \in Reporting

\* What an API may send; marks of another API are data that cannot be parsed.
Sends(a) ==
  {"text", "noise", "bad"} \cup
  CASE a \in {"openai", "completions", "zhipuV4"} -> {"usage", "both", "empty", "done", "bare"}
    [] a = "cloudflare" -> {"empty", "done", "bare"}
    [] a = "replicate" -> {"done"}
    [] a \in {"anthropic", "awsClaude"} -> {"start", "usage", "empty"}
    [] a = "awsLlama" -> {"usage", "both", "limit", "empty"}
    [] a \in {"baidu", "ali", "ollama"} -> {"usage", "both", "empty"}
    [] a = "cohere" -> {"usage", "empty"}
    [] a = "zhipu" -> {"usage"}
    [] a = "xunfei" -> {"usage", "both", "empty"}
    [] OTHER -> {"empty"}

\* Locals of a stream handler: the chunks rendered to the client (numbers of items, or
\* Done or Documents), the pieces of text collected, the usage and doneRendered; ended
\* when the loop is left, by "break" or for good ("stop").
Done == 0
Documents == -1
Locals(usage) == [out |-> <<>>, text |-> 0, usage |-> usage, done |-> FALSE, ended |-> "no"]

Render(s, chunk) == [s EXCEPT !.out = Append(@, chunk)]
Collect(s, item) == IF HasText(item) THEN [s EXCEPT !.text = @ + 1] ELSE s
Add(u, r) == [prompt |-> u.prompt + r.prompt, completion |-> u.completion + r.completion, total |-> u.total]
Take(s, item) == IF HasReport(item) THEN [s EXCEPT !.usage = item.rep] ELSE s

-----------------------------------------------------------------------------
(* One operator per stream handler: the locals after item number i.            *)

\* Faulty variant: [DONE] is passed on and not remembered.
OpenaiItemForgets(s, item, i) ==
  CASE item.kind = "noise" -> s
    [] item.kind \in {"done", "bare"} -> Render(s, Done)
    [] item.kind = "bad" -> Render(s, i)
    [] item.kind = "empty" -> s
    [] OTHER -> Render(Take(Collect(s, item), item), i)

\* A chat: what cannot be parsed is passed on, "[DONE]" without a prefix among it.
OpenaiItem(s, item, i) ==
  CASE item.kind = "noise" -> s
    [] item.kind = "done" -> [Render(s, Done) EXCEPT !.done = TRUE]
    [] item.kind = "bare" -> Render(s, Done)
    [] item.kind = "bad" -> Render(s, i)
    [] item.kind = "empty" -> s
    [] OTHER -> Render(Take(Collect(s, item), item), i)

\* A completion: everything is passed on, reports are not read.
CompletionsItem(s, item, i) ==
  CASE item.kind = "noise" -> s
    [] item.kind = "done" -> [Render(s, Done) EXCEPT !.done = TRUE]
    [] item.kind = "bare" -> Render(s, Done)
    [] OTHER -> Render(Collect(s, item), i)

\* Reports add up: the first has the prompt, the last the completion.
AnthropicItem(s, item, i) ==
  LET metered == IF HasReport(item) THEN [s EXCEPT !.usage = Add(@, item.rep)] ELSE s
  IN  CASE item.kind \in {"noise", "bad"} -> s
        [] item.kind = "start" -> metered
        [] OTHER -> Render(metered, i)

\* Faulty variant: only what has text is counted as it is rendered, once too few.
GeminiItemUncounted(s, item, i) == IF item.kind \in {"noise", "bad"} THEN s ELSE Render(s, i)

GeminiItem(s, item, i) == IF item.kind \in {"noise", "bad"} THEN s ELSE Render(Collect(s, item), i)
TencentItem(s, item, i) == IF item.kind \in {"noise", "bad"} THEN s ELSE Render(Collect(s, item), i)

BaiduItem(s, item, i) ==
  LET r == item.rep
      metered == IF r.total # 0
                 THEN [s EXCEPT !.usage = [r EXCEPT !.completion = r.total - r.prompt]] ELSE s
  IN  IF item.kind \in {"noise", "bad"} THEN s ELSE Render(metered, i)

\* Lines of data are not parsed, so only one of the report can be bad.
ZhipuItem(s, item, i) == IF item.kind \in {"noise", "bad"} THEN s ELSE Render(Take(s, item), i)

\* Faulty variant: an item that has a report is taken for the last and not rendered.
AliItemReports(s, item, i) ==
  LET metered == IF item.rep.completion # 0
                 THEN [s EXCEPT !.usage = Usage(item.rep.prompt, item.rep.completion)] ELSE s
  IN  CASE item.kind \in {"noise", "bad"} -> s
        [] HasReport(item) \/ item.kind = "empty" -> metered
        [] OTHER -> Render(metered, i)

\* Only what has choices is rendered.
AliItem(s, item, i) ==
  LET r == item.rep
      metered == IF r.completion # 0 THEN [s EXCEPT !.usage = Usage(r.prompt, r.completion)] ELSE s
  IN  CASE item.kind \in {"noise", "bad"} -> s
        [] item.kind \in {"empty", "usage"} -> metered
        [] OTHER -> Render(metered, i)

OllamaItem(s, item, i) ==
  LET r == item.rep
      metered == IF r.completion # 0 THEN [s EXCEPT !.usage = Usage(r.prompt, r.completion)] ELSE s
  IN  IF item.kind \in {"noise", "bad"} THEN s ELSE Render(metered, i)

\* The event that ends the stream is metered and not rendered.
CohereItem(s, item, i) ==
  CASE item.kind \in {"noise", "bad", "empty"} -> s
    [] item.kind = "usage" -> [s EXCEPT !.usage = Add(@, item.rep)]
    [] OTHER -> Render(s, i)

\* Messages that are not answers are left out.
CozeItem(s, item, i) == IF item.kind \in {"noise", "bad", "empty"} THEN s ELSE Render(Collect(s, item), i)

AiproxyItem(s, item, i) == IF item.kind \in {"noise", "bad"} THEN s ELSE Render(s, i)

\* Both forms of [DONE] end the loop.
CloudflareItem(s, item, i) ==
  CASE item.kind \in {"noise", "bad"} -> s
    [] item.kind \in {"done", "bare"} -> [s EXCEPT !.ended = "break"]
    [] OTHER -> Render(Collect(s, item), i)

\* As for anthropic, but what cannot be parsed or is unknown ends the stream at once.
AwsClaudeItem(s, item, i) ==
  IF item.kind \in {"noise", "bad"} THEN [s EXCEPT !.ended = "stop"] ELSE AnthropicItem(s, item, i)

\* The completion is metered when the model stops by itself, not at a length limit.
AwsLlamaItem(s, item, i) ==
  LET r == item.rep
      prompt == IF r.prompt > 0 THEN r.prompt ELSE s.usage.prompt
      metered == CASE item.kind \in {"usage", "both"} -> [s EXCEPT !.usage = Usage(prompt, r.completion)]
                   [] item.kind = "limit" -> [s EXCEPT !.usage.prompt = prompt]
                   [] OTHER -> s
  IN  IF item.kind \in {"noise", "bad"} THEN [s EXCEPT !.ended = "stop"] ELSE Render(metered, i)

ReplicateItem(s, item, i) ==
  CASE item.kind \in {"noise", "bad"} -> s
    [] item.kind = "done" -> [Render(s, Done) EXCEPT !.done = TRUE, !.ended = "break"]
    [] OTHER -> Render(Collect(s, item), i)

\* What the producer goroutine hands over; a report comes with the last message.
XunfeiItem(s, item, i) ==
  LET u == s.usage
  IN  Render([s EXCEPT !.usage = [Add(u, item.rep) EXCEPT !.total = u.total + item.rep.total]], i)

-----------------------------------------------------------------------------
(* The end of a stream: what is rendered after the loop, and the result.       *)

Result(err, usage) == [err |-> err, usage |-> usage]
Failed == Result("error", NoUsage)
Crashed == Result("panic", NoUsage)

DoItem(a, s, item, i) ==
  CASE a \in {"openai", "zhipuV4"} -> OpenaiItem(s, item, i)
    [] a = "completions" -> CompletionsItem(s, item, i)
    [] a = "anthropic" -> AnthropicItem(s, item, i)
    [] a = "gemini" -> GeminiItem(s, item, i)
    [] a = "baidu" -> BaiduItem(s, item, i)
    [] a = "tencent" -> TencentItem(s, item, i)
    [] a = "zhipu" -> ZhipuItem(s, item, i)
    [] a = "ali" -> AliItem(s, item, i)
    [] a = "ollama" -> OllamaItem(s, item, i)
    [] a = "cohere" -> CohereItem(s, item, i)
    [] a = "coze" -> CozeItem(s, item, i)
    [] a = "aiproxy" -> AiproxyItem(s, item, i)
    [] a = "cloudflare" -> CloudflareItem(s, item, i)
    [] a = "awsClaude" -> AwsClaudeItem(s, item, i)
    [] a = "awsLlama" -> AwsLlamaItem(s, item, i)
    [] a = "replicate" -> ReplicateItem(s, item, i)

\* A report of the total alone leaves the completion to be worked out here.
OpenaiUsage(s) ==
  LET usage == IF s.usage = NoUsage \/ s.usage.total = 0 THEN ResponseText2Usage(s.text) ELSE s.usage
  IN  IF usage.total # 0 /\ usage.prompt = 0
      THEN [usage EXCEPT !.prompt = PromptTokens, !.completion = usage.total - PromptTokens] ELSE usage

Counting == {"gemini", "tencent", "coze", "cloudflare", "replicate"}

\* What DoResponse returns as usage of a stream that ended well.
StreamUsage(a, s) ==
  CASE a \in {"openai", "completions"} -> OpenaiUsage(s)
    [] a \in Counting -> ResponseText2Usage(s.text)
    [] OTHER -> s.usage

InitialUsage(a) == IF a \in {"openai", "completions", "zhipuV4", "zhipu"} THEN NoUsage ELSE ZeroUsage

\* The rendering after the loop; a stream that was stopped is left as it is.
AfterLoop(a, s) ==
  IF s.ended = "stop" \/ s.done THEN s
  ELSE Render(IF a = "aiproxy" THEN Render(s, Documents) ELSE s, Done)

=============================================================================
