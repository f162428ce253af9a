--------------------------- MODULE AdaptorBodies ---------------------------
(***************************************************************************)
(* The response handlers that read the whole body of an answer before they *)
(* write: answers that are not streamed, embeddings, images, and the two   *)
(* adaptors that make a stream of one body.                                *)
(***************************************************************************)
EXTENDS AdaptorHandlers

\* What can become of a body: it cannot be read, closed or parsed, it holds an error, or
\* it is good; then writing to the client may fail.  text: pieces of text in it.
Bodies == [fault : {"none", "read", "close", "garbled", "error", "write"}, rep : Reports, text : 0..1]

Outcome(result, out) == [result |-> result, out |-> out]
Nothing == Outcome(Failed, <<>>)
Answer(usage) == Outcome(Result("none", usage), <<1>>)
Broken(b) == b.fault \in {"read", "close", "garbled"}

\* The shape of most handlers: errors before anything is written, then an answer that
\* is taken to have arrived.
Guarded(b, usage) == IF Broken(b) \/ b.fault = "error" THEN Nothing ELSE Answer(usage)

\* Writing may fail once the header is out.
Written(b, usage) ==
  IF b.fault = "write" THEN Outcome(Failed, <<1>>) ELSE Guarded(b, usage)

-----------------------------------------------------------------------------
(* Answers. *)

\* Faulty variant: the header and the body are written before the body is parsed.
OpenaiHandlerEarly(b) ==
  CASE b.fault \in {"read", "close"} -> Nothing
    [] b.fault \in {"garbled", "error", "write"} -> Outcome(Failed, <<1>>)
    [] OTHER -> Answer(b.rep)

OpenaiHandler(b) ==
  LET unmetered == b.rep.total = 0 \/ (b.rep.prompt = 0 /\ b.rep.completion = 0)
  IN  Written(b, IF unmetered THEN ResponseText2Usage(b.text) ELSE b.rep)

AnthropicHandler(b) == Guarded(b, Usage(b.rep.prompt, b.rep.completion))
GeminiHandler(b) == Guarded(b, ResponseText2Usage(b.text))
BaiduHandler(b) == Guarded(b, b.rep)
TencentHandler(b) == Written(b, b.rep)
ZhipuHandler(b) == Guarded(b, b.rep)
AliHandler(b) == Guarded(b, Usage(b.rep.prompt, b.rep.completion))
OllamaHandler(b) == Guarded(b, Usage(b.rep.prompt, b.rep.completion))
CohereHandler(b) == Guarded(b, Usage(b.rep.prompt, b.rep.completion))
CozeHandler(b) == Guarded(b, ResponseText2Usage(b.text))
AiproxyHandler(b) == Written(b, ZeroUsage)
PalmHandler(b) == Guarded(b, ResponseText2Usage(b.text))
DeeplHandler(b) == Guarded(b, Usage(PromptTokens, 0))
AwsClaudeHandler(b) == Guarded(b, Usage(b.rep.prompt, b.rep.completion))
AwsLlamaHandler(b) == Guarded(b, Usage(b.rep.prompt, b.rep.completion))

\* An error in the body is an answer without choices.
CloudflareHandler(b) == IF Broken(b) THEN Nothing ELSE Answer(ResponseText2Usage(b.text))

-----------------------------------------------------------------------------
(* Streams made of one body; an error in it is not looked for. *)

\* The error of reading is shadowed by that of closing, and wrapped when it is nil.
PalmStreamHandler(b) ==
  CASE b.fault = "read" -> Outcome(Crashed, <<>>)
    [] b.fault \in {"close", "garbled"} -> Nothing
    [] OTHER -> Outcome(Result("none", ResponseText2Usage(b.text)), <<1, Done>>)

DeeplStreamHandler(b) ==
  IF Broken(b) THEN Nothing ELSE Outcome(Result("none", Usage(PromptTokens, 0)), <<1, Done>>)

-----------------------------------------------------------------------------
(* Embeddings: most channels report a total only, or nothing. *)

Total(n) == [ZeroUsage EXCEPT !.total = n]
GeminiEmbedding(b) == Guarded(b, Total(0))
BaiduEmbedding(b) == Guarded(b, b.rep)
TencentEmbedding(b) == Guarded(b, Total(b.rep.total))
ZhipuEmbedding(b) == IF Broken(b) THEN Nothing ELSE Answer(b.rep)
AliEmbedding(b) == Guarded(b, Total(b.rep.total))
OllamaEmbedding(b) == Guarded(b, Total(0))

-----------------------------------------------------------------------------
(* Images, and requests passed through. *)

OpenaiImage(b) ==
  CASE Broken(b) -> Nothing
    [] b.fault = "write" -> Outcome(Failed, <<1>>)
    [] OTHER -> Answer(NoUsage)

\* The header is written before the body is read.
ProxyHandler(b) == IF b.fault \in {"read", "write"} THEN Outcome(Failed, <<1>>) ELSE Answer(NoUsage)

TextHandler(a, b) ==
  CASE a \in {"openai", "zhipuV4"} -> OpenaiHandler(b)
    [] a = "anthropic" -> AnthropicHandler(b)
    [] a = "gemini" -> GeminiHandler(b)
    [] a = "baidu" -> BaiduHandler(b)
    [] a = "tencent" -> TencentHandler(b)
    [] a = "zhipu" -> ZhipuHandler(b)
    [] a = "ali" -> AliHandler(b)
    [] a = "ollama" -> OllamaHandler(b)
    [] a = "cohere" -> CohereHandler(b)
    [] a = "coze" -> CozeHandler(b)
    [] a = "aiproxy" -> AiproxyHandler(b)
    [] a = "cloudflare" -> CloudflareHandler(b)
    [] a = "palm" -> PalmHandler(b)
    [] a = "deepl" -> DeeplHandler(b)
    [] a = "awsClaude" -> AwsClaudeHandler(b)
    [] a = "awsLlama" -> AwsLlamaHandler(b)

EmbeddingHandler(a, b) ==
  CASE a = "openai" -> OpenaiHandler(b)
    [] a = "gemini" -> GeminiEmbedding(b)
    [] a = "baidu" -> BaiduEmbedding(b)
    [] a = "tencent" -> TencentEmbedding(b)
    [] a = "zhipu" -> ZhipuEmbedding(b)
    [] a = "ali" -> AliEmbedding(b)
    [] a = "ollama" -> OllamaEmbedding(b)

=============================================================================
