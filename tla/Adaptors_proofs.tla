-------------------------- MODULE Adaptors_proofs --------------------------
(***************************************************************************)
(* What an adaptor sends, renders, returns and meters, proved for every    *)
(* adaptor, every conversation of any length, every stream of any length,  *)
(* every usage a channel may report and every price.                       *)
(***************************************************************************)
EXTENDS Adaptors, FiniteSetTheorems, NaturalsInduction, WellFoundedInduction, TLAPS

-----------------------------------------------------------------------------
(* Types. *)

Kinds == Reporting \cup {"text", "noise", "bad", "empty", "done", "bare"}
UsageType == [prompt : Int, completion : Int, total : Int]
ItemType == [kind : Kinds, rep : [prompt : Nat, completion : Nat, total : Nat]]
LocalsType == [out : Seq(Int), text : Nat, usage : UsageType, done : BOOLEAN, ended : {"no", "break", "stop"}]
ResultType == [err : {"none", "error", "panic"}, usage : UsageType]

TypeInv ==
  /\ call \in Calls
  /\ pc \in {"start", "converted", "connecting", "body", "polling", "sleeping", "reading", "returned", "end"}
  /\ said \in Seq(ItemType) /\ s \in LocalsType
  /\ producer \in {"none", "reading", "sending", "stopping", "ended"}
  /\ gone \in BOOLEAN
  /\ result \in ResultType
  /\ bill \in [state : {"none", "held", "left", "returned", "settled"}, amount : Int]

\* The values the model starts from and the results without a usage.
LEMMA Values ==
  /\ NoUsage = [prompt |-> 0, completion |-> 0, total |-> -1]
  /\ ZeroUsage = [prompt |-> 0, completion |-> 0, total |-> 0]
  /\ NoUsage \in UsageType /\ ZeroUsage \in UsageType
  /\ Failed = [err |-> "error", usage |-> NoUsage] /\ Crashed = [err |-> "panic", usage |-> NoUsage]
  /\ Failed \in ResultType /\ Crashed \in ResultType
<1>1. ZeroUsage = [prompt |-> 0, completion |-> 0, total |-> 0]
  BY DEF ZeroUsage, Usage
<1>2. NoUsage = [prompt |-> 0, completion |-> 0, total |-> -1]
  BY DEF NoUsage, Usage
<1>3. NoUsage \in UsageType /\ ZeroUsage \in UsageType
  BY <1>1, <1>2 DEF UsageType
<1>4. Failed = [err |-> "error", usage |-> NoUsage] /\ Crashed = [err |-> "panic", usage |-> NoUsage]
  BY DEF Failed, Crashed, Result
<1>5. Failed \in ResultType /\ Crashed \in ResultType
  BY <1>3, <1>4 DEF ResultType
<1> QED BY <1>1, <1>2, <1>3, <1>4, <1>5

\* Arithmetic on usages stays among usages.
LEMMA UsageTypes ==
  /\ \A p, c \in Int : Usage(p, c) \in UsageType
  /\ \A t \in Nat : ResponseText2Usage(t) = [prompt |-> PromptTokens, completion |-> t, total |-> PromptTokens + t]
  /\ \A t \in Nat : ResponseText2Usage(t) \in UsageType
  /\ \A u, r \in UsageType : Add(u, r) \in UsageType
<1>1. \A p, c \in Int : Usage(p, c) \in UsageType
  BY DEF Usage, UsageType
<1>2. \A t \in Nat : ResponseText2Usage(t) = [prompt |-> PromptTokens, completion |-> t, total |-> PromptTokens + t]
  BY DEF Usage, ResponseText2Usage
<1>3. \A t \in Nat : ResponseText2Usage(t) \in UsageType
  BY <1>1, HandlerAssumption DEF ResponseText2Usage
<1>4. \A u, r \in UsageType : Add(u, r) \in UsageType
  BY DEF Add, UsageType
<1> QED BY <1>1, <1>2, <1>3, <1>4

\* The operators on the locals of a stream, component by component.
LEMMA RenderIs ==
  ASSUME NEW l \in LocalsType, NEW chunk \in Int
  PROVE  /\ Render(l, chunk) \in LocalsType
         /\ Render(l, chunk).out = Append(l.out, chunk) /\ Render(l, chunk).text = l.text
         /\ Render(l, chunk).usage = l.usage /\ Render(l, chunk).done = l.done
         /\ Render(l, chunk).ended = l.ended
<1>1. Append(l.out, chunk) \in Seq(Int)
  BY DEF LocalsType
<1> QED BY <1>1 DEF Render, LocalsType

LEMMA MarkIs ==
  ASSUME NEW l \in LocalsType
  PROVE  /\ Render(l, Done) \in LocalsType
         /\ Render(l, Done).out = Append(l.out, Done) /\ Render(l, Done).text = l.text
         /\ Render(l, Done).usage = l.usage /\ Render(l, Done).done = l.done
         /\ Render(l, Done).ended = l.ended
<1>1. Done \in Int
  BY DEF Done
<1> QED BY <1>1, RenderIs, Zenon

LEMMA CollectIs ==
  ASSUME NEW l \in LocalsType, NEW item
  PROVE  /\ Collect(l, item) \in LocalsType
         /\ Collect(l, item).out = l.out /\ Collect(l, item).usage = l.usage
         /\ Collect(l, item).done = l.done /\ Collect(l, item).ended = l.ended
         /\ HasText(item) => Collect(l, item).text = l.text + 1
         /\ ~HasText(item) => Collect(l, item).text = l.text
  BY DEF Collect, LocalsType

LEMMA TakeIs ==
  ASSUME NEW l \in LocalsType, NEW item \in ItemType
  PROVE  /\ Take(l, item) \in LocalsType
         /\ Take(l, item).out = l.out /\ Take(l, item).text = l.text
         /\ Take(l, item).done = l.done /\ Take(l, item).ended = l.ended
         /\ HasReport(item) => Take(l, item).usage = item.rep
         /\ ~HasReport(item) => Take(l, item).usage = l.usage
<1>1. item.rep \in UsageType
  BY DEF ItemType, UsageType
<1> QED BY <1>1 DEF Take, LocalsType

\* A copy of the locals with another usage.
LEMMA MeteredIs ==
  ASSUME NEW l \in LocalsType, NEW u \in UsageType
  PROVE  LET m == [l EXCEPT !.usage = u]
         IN  m \in LocalsType /\ m.out = l.out /\ m.text = l.text /\ m.done = l.done /\ m.ended = l.ended /\ m.usage = u
  BY DEF LocalsType

\* An item that is collected and rendered, and one that is taken as a report besides.
LEMMA CollectedIs ==
  ASSUME NEW l \in LocalsType, NEW item, NEW i \in Int, NEW r, r = Render(Collect(l, item), i)
  PROVE  /\ r \in LocalsType /\ r.out = Append(l.out, i) /\ r.done = l.done /\ r.usage = l.usage
         /\ (HasText(item) => r.text = l.text + 1) /\ (~HasText(item) => r.text = l.text)
<1> DEFINE c == Collect(l, item)
<1>1. /\ c \in LocalsType /\ c.out = l.out /\ c.done = l.done /\ c.usage = l.usage
      /\ (HasText(item) => c.text = l.text + 1) /\ (~HasText(item) => c.text = l.text)
  BY CollectIs, Zenon
<1>2. c \in LocalsType
  BY <1>1
<1>3. r = Render(c, i)
  BY Zenon
<1> HIDE DEF c
<1>4. /\ Render(c, i) \in LocalsType /\ Render(c, i).out = Append(c.out, i) /\ Render(c, i).done = c.done
      /\ Render(c, i).text = c.text /\ Render(c, i).usage = c.usage
  BY <1>2, RenderIs, Zenon
<1> QED BY <1>1, <1>3, <1>4, Zenon

LEMMA TakenIs ==
  ASSUME NEW l \in LocalsType, NEW item \in ItemType, NEW i \in Int, NEW r, r = Render(Take(l, item), i)
  PROVE  /\ r \in LocalsType /\ r.out = Append(l.out, i) /\ r.done = l.done /\ r.text = l.text
         /\ (HasReport(item) => r.usage = item.rep) /\ (~HasReport(item) => r.usage = l.usage)
<1> DEFINE c == Take(l, item)
<1>1. /\ c \in LocalsType /\ c.out = l.out /\ c.done = l.done /\ c.text = l.text
      /\ (HasReport(item) => c.usage = item.rep) /\ (~HasReport(item) => c.usage = l.usage)
  BY TakeIs, Zenon
<1>2. c \in LocalsType
  BY <1>1
<1>3. r = Render(c, i)
  BY Zenon
<1> HIDE DEF c
<1>4. /\ Render(c, i) \in LocalsType /\ Render(c, i).out = Append(c.out, i) /\ Render(c, i).done = c.done
      /\ Render(c, i).text = c.text /\ Render(c, i).usage = c.usage
  BY <1>2, RenderIs, Zenon
<1> QED BY <1>1, <1>3, <1>4, Zenon

LEMMA MeteredRenderIs ==
  ASSUME NEW l \in LocalsType, NEW u \in UsageType, NEW i \in Int, NEW r, r = Render([l EXCEPT !.usage = u], i)
  PROVE  r \in LocalsType /\ r.out = Append(l.out, i) /\ r.done = l.done /\ r.text = l.text /\ r.usage = u
<1> DEFINE c == [l EXCEPT !.usage = u]
<1>1. c \in LocalsType /\ c.out = l.out /\ c.done = l.done /\ c.text = l.text /\ c.usage = u
  BY MeteredIs, Zenon
<1>2. c \in LocalsType
  BY <1>1
<1>3. r = Render(c, i)
  BY Zenon
<1> HIDE DEF c
<1>4. /\ Render(c, i) \in LocalsType /\ Render(c, i).out = Append(c.out, i) /\ Render(c, i).done = c.done
      /\ Render(c, i).text = c.text /\ Render(c, i).usage = c.usage
  BY <1>2, RenderIs, Zenon
<1> QED BY <1>1, <1>3, <1>4, Zenon

-----------------------------------------------------------------------------
(* Items, and what a handler does with one. *)

LEMMA ItemIs ==
  ASSUME NEW b \in Streaming \cup {"xunfei"}, NEW item \in Items(Sends(b))
  PROVE  /\ item \in ItemType /\ item.kind \in Sends(b)
         /\ ~HasReport(item) => item.rep = ZeroUsage
<1>1. Sends(b) \subseteq Kinds
  BY DEF Sends, Kinds, Reporting, Streaming
<1>2. ZeroUsage \in [prompt : Nat, completion : Nat, total : Nat]
  BY Values
<1>3. CASE item \in [kind : Sends(b) \ Reporting, rep : {ZeroUsage}]
  BY <1>1, <1>2, <1>3 DEF ItemType, HasReport
<1>4. CASE item \in [kind : Sends(b) \cap Reporting, rep : Reports]
  BY <1>1, <1>4, HandlerAssumption DEF ItemType, HasReport
<1> QED BY <1>3, <1>4 DEF Items

\* Items that a handler takes for the mark of the end, and pieces of text.
Marks(b, item) == b \in PassingOn \cup {"replicate"} /\ item.kind \in {"done", "bare"}
Piece(b, item) == HasText(item) \/ (item.kind = "bad" /\ b \in PassingOn)
Tells(item) == item.kind \in {"usage", "both", "start"}
Texted == Counting \cup {"openai", "completions", "zhipuV4"}

\* A mark is rendered and remembered; of anything else at most one chunk is rendered,
\* under its own number, and of a piece of text exactly one.
Rendering(b, l, item, i, r) ==
  /\ r \in LocalsType
  /\ Marks(b, item) => r.out = Append(l.out, Done) /\ (item.kind = "done" => r.done)
  /\ ~Marks(b, item) => r.out \in {l.out, Append(l.out, i)} /\ r.done = l.done
  /\ Piece(b, item) /\ r.ended # "stop" => r.out = Append(l.out, i)
  /\ b = "replicate" /\ r.done # l.done => r.ended = "break"
  /\ b \in PassingOn /\ r.done # l.done => item.kind = "done"

\* What each adaptor makes of a report, where u and v are the usage before and after.
Reported(b, u, item, v) ==
  /\ b = "completions" => v = u
  /\ b \in {"openai", "zhipuV4", "zhipu"} => v = IF Tells(item) THEN item.rep ELSE u
  /\ b = "awsLlama" => v.completion = IF Tells(item) THEN item.rep.completion ELSE u.completion
  /\ b \in {"anthropic", "awsClaude", "cohere"} =>
       v.completion = IF Tells(item) THEN u.completion + item.rep.completion ELSE u.completion
  /\ b \in {"ali", "ollama"} =>
       v.completion = IF Tells(item) /\ item.rep.completion # 0 THEN item.rep.completion ELSE u.completion
  /\ b = "baidu" =>
       v.completion = IF Tells(item) /\ item.rep.total # 0 THEN item.rep.total - item.rep.prompt ELSE u.completion

Metering(b, l, item, r) ==
  /\ r.text >= l.text /\ (b \in Texted /\ HasText(item) => r.text > l.text)
  /\ Reported(b, l.usage, item, r.usage)

LEMMA OneChunk ==
  ASSUME NEW b, NEW l, NEW item, NEW i, NEW r \in LocalsType,
         ~Marks(b, item), r.out = Append(l.out, i), r.done = l.done
  PROVE  Rendering(b, l, item, i, r)
  BY Zenon DEF Rendering

LEMMA NoChunk ==
  ASSUME NEW b, NEW l, NEW item, NEW i, NEW r \in LocalsType,
         ~Marks(b, item), ~Piece(b, item) \/ r.ended = "stop", r.out = l.out, r.done = l.done
  PROVE  Rendering(b, l, item, i, r)
  BY Zenon DEF Rendering

LEMMA OpenaiEffect ==
  ASSUME NEW b \in {"openai", "zhipuV4"}, NEW l \in LocalsType, NEW item \in Items(Sends(b)), NEW i \in Int,
         NEW r, r = DoItem(b, l, item, i)
  PROVE  Rendering(b, l, item, i, r) /\ Metering(b, l, item, r)
<1>1. r = OpenaiItem(l, item, i)
  BY DEF DoItem
<1>2. item \in ItemType /\ item.kind \in Sends(b)
  BY ItemIs DEF Streaming
<1>3. Sends(b) = {"text", "noise", "bad", "usage", "both", "empty", "done", "bare"}
  BY DEF Sends
<1>4. b \in PassingOn
  BY DEF PassingOn
<1>5. CASE item.kind \in {"noise", "empty"}
  <2>1. r = l
    BY <1>1, <1>5 DEF OpenaiItem
  <2>2. Rendering(b, l, item, i, r)
    BY <1>4, <1>5, <2>1 DEF Rendering, Marks, Piece, HasText
  <2>3. Metering(b, l, item, r)
    BY <1>4, <1>5, <2>1 DEF Metering, Reported, Tells, HasText, LocalsType
  <2> QED BY <2>2, <2>3
<1>6. CASE item.kind = "done"
  <2>1. r = [Render(l, Done) EXCEPT !.done = TRUE]
    BY <1>1, <1>6 DEF OpenaiItem
  <2>2. r \in LocalsType /\ r.out = Append(l.out, Done) /\ r.text = l.text /\ r.usage = l.usage /\ r.done
    <3> DEFINE m == Render(l, Done)
    <3>1. m \in LocalsType /\ m.out = Append(l.out, Done) /\ m.text = l.text /\ m.usage = l.usage
      BY MarkIs, Zenon
    <3>2. r = [m EXCEPT !.done = TRUE]
      BY <2>1
    <3> HIDE DEF m
    <3> QED BY <3>1, <3>2 DEF LocalsType
  <2>3. Rendering(b, l, item, i, r)
    BY <1>4, <1>6, <2>2 DEF Rendering, Marks, Piece, HasText, PassingOn
  <2>4. Metering(b, l, item, r)
    BY <1>4, <1>6, <2>2 DEF Metering, Reported, Tells, HasText, LocalsType
  <2> QED BY <2>3, <2>4
<1>7. CASE item.kind = "bare"
  <2>1. r = Render(l, Done)
    BY <1>1, <1>7 DEF OpenaiItem
  <2>2. r \in LocalsType /\ r.out = Append(l.out, Done) /\ r.text = l.text /\ r.usage = l.usage /\ r.done = l.done
    BY <2>1, MarkIs, Zenon
  <2>3. Rendering(b, l, item, i, r)
    BY <1>4, <1>7, <2>2 DEF Rendering, Marks, Piece, HasText, PassingOn
  <2>4. Metering(b, l, item, r)
    BY <1>4, <1>7, <2>2 DEF Metering, Reported, Tells, HasText, LocalsType
  <2> QED BY <2>3, <2>4
<1>8. CASE item.kind = "bad"
  <2>1. r = Render(l, i)
    BY <1>1, <1>8 DEF OpenaiItem
  <2>2. r \in LocalsType /\ r.out = Append(l.out, i) /\ r.text = l.text /\ r.usage = l.usage /\ r.done = l.done
    <3> DEFINE m == Render(l, i)
    <3>1. m \in LocalsType /\ m.out = Append(l.out, i) /\ m.text = l.text /\ m.usage = l.usage /\ m.done = l.done
      BY RenderIs, Zenon
    <3>2. r = m
      BY <2>1
    <3> HIDE DEF m
    <3> QED BY <3>1, <3>2
  <2>3. Rendering(b, l, item, i, r)
    BY <1>8, <2>2, OneChunk DEF Marks
  <2>4. Metering(b, l, item, r)
    BY <1>4, <1>8, <2>2 DEF Metering, Reported, Tells, HasText, LocalsType
  <2> QED BY <2>3, <2>4
<1>9. CASE item.kind \in {"text", "usage", "both"}
  <2> DEFINE c == Collect(l, item)
  <2>1. r = Render(Take(c, item), i)
    BY <1>1, <1>9 DEF OpenaiItem
  <2>2. /\ c \in LocalsType /\ c.out = l.out /\ c.done = l.done /\ c.usage = l.usage
        /\ (HasText(item) => c.text = l.text + 1) /\ (~HasText(item) => c.text = l.text)
    BY CollectIs, Zenon
  <2>3. c \in LocalsType
    BY <2>2
  <2> HIDE DEF c
  <2>4. /\ r \in LocalsType /\ r.out = Append(c.out, i) /\ r.done = c.done /\ r.text = c.text
        /\ (HasReport(item) => r.usage = item.rep) /\ (~HasReport(item) => r.usage = c.usage)
    <3> DEFINE q == Render(Take(c, item), i)
    <3>1. /\ q \in LocalsType /\ q.out = Append(c.out, i) /\ q.done = c.done /\ q.text = c.text
          /\ (HasReport(item) => q.usage = item.rep) /\ (~HasReport(item) => q.usage = c.usage)
      BY <1>2, <2>3, TakenIs, ZenonT(30)
    <3>2. r = q
      BY <2>1
    <3> HIDE DEF q
    <3> QED BY <3>1, <3>2
  <2>5. Rendering(b, l, item, i, r)
    BY <1>9, <2>2, <2>4, OneChunk DEF Marks
  <2>6. Metering(b, l, item, r)
    BY <1>4, <1>9, <2>2, <2>4 DEF Metering, Reported, Tells, HasText, HasReport, Reporting, LocalsType
  <2> QED BY <2>5, <2>6
<1> QED BY <1>2, <1>3, <1>5, <1>6, <1>7, <1>8, <1>9

\* An item that is left out.
LEMMA SkipEffect ==
  ASSUME NEW b, NEW l \in LocalsType, NEW item, NEW i, ~Marks(b, item), ~Piece(b, item), ~Tells(item)
  PROVE  Rendering(b, l, item, i, l) /\ Metering(b, l, item, l)
<1>1. Rendering(b, l, item, i, l)
  BY NoChunk
<1>2. ~HasText(item)
  BY DEF Piece
<1>3. Metering(b, l, item, l)
  BY <1>2 DEF Metering, Reported, LocalsType
<1> QED BY <1>1, <1>3

\* An item whose text is counted and which is passed on.
LEMMA CollectEffect ==
  ASSUME NEW b \in Counting \cup {"completions"}, NEW l \in LocalsType, NEW item, NEW i \in Int, ~Marks(b, item),
         NEW r, r = Render(Collect(l, item), i)
  PROVE  Rendering(b, l, item, i, r) /\ Metering(b, l, item, r)
<1>1. /\ r \in LocalsType /\ r.out = Append(l.out, i) /\ r.done = l.done /\ r.usage = l.usage
      /\ (HasText(item) => r.text = l.text + 1) /\ (~HasText(item) => r.text = l.text)
  BY CollectedIs
<1>2. Rendering(b, l, item, i, r)
  BY <1>1, OneChunk
<1>3. Metering(b, l, item, r)
  BY <1>1 DEF Metering, Reported, LocalsType, Counting
<1> QED BY <1>2, <1>3

LEMMA CompletionsEffect ==
  ASSUME NEW l \in LocalsType, NEW item \in Items(Sends("completions")), NEW i \in Int,
         NEW r, r = DoItem("completions", l, item, i)
  PROVE  Rendering("completions", l, item, i, r) /\ Metering("completions", l, item, r)
<1>1. r = CompletionsItem(l, item, i)
  BY DEF DoItem
<1>2. CASE item.kind = "noise"
  <2>1. r = l
    BY <1>1, <1>2 DEF CompletionsItem
  <2> QED BY <1>2, <2>1, SkipEffect DEF Marks, Piece, Tells, HasText
<1>3. CASE item.kind = "done"
  <2>1. r = [Render(l, Done) EXCEPT !.done = TRUE]
    BY <1>1, <1>3 DEF CompletionsItem
  <2>2. r \in LocalsType /\ r.out = Append(l.out, Done) /\ r.text = l.text /\ r.usage = l.usage /\ r.done
    <3> DEFINE m == Render(l, Done)
    <3>1. m \in LocalsType /\ m.out = Append(l.out, Done) /\ m.text = l.text /\ m.usage = l.usage
      BY MarkIs, Zenon
    <3>2. r = [m EXCEPT !.done = TRUE]
      BY <2>1
    <3> HIDE DEF m
    <3> QED BY <3>1, <3>2 DEF LocalsType
  <2>3. Rendering("completions", l, item, i, r)
    BY <1>3, <2>2 DEF Rendering, Marks, Piece, HasText, PassingOn
  <2>4. Metering("completions", l, item, r)
    BY <1>3, <2>2 DEF Metering, Reported, Tells, HasText, LocalsType
  <2> QED BY <2>3, <2>4
<1>4. CASE item.kind = "bare"
  <2>1. r = Render(l, Done)
    BY <1>1, <1>4 DEF CompletionsItem
  <2>2. r \in LocalsType /\ r.out = Append(l.out, Done) /\ r.text = l.text /\ r.usage = l.usage /\ r.done = l.done
    BY <2>1, MarkIs, Zenon
  <2>3. Rendering("completions", l, item, i, r)
    BY <1>4, <2>2 DEF Rendering, Marks, Piece, HasText, PassingOn
  <2>4. Metering("completions", l, item, r)
    BY <1>4, <2>2 DEF Metering, Reported, Tells, HasText, LocalsType
  <2> QED BY <2>3, <2>4
<1>5. CASE item.kind \notin {"noise", "done", "bare"}
  <2>1. r = Render(Collect(l, item), i)
    BY <1>1, <1>5 DEF CompletionsItem
  <2> QED BY <1>5, <2>1, CollectEffect DEF Marks
<1> QED BY <1>2, <1>3, <1>4, <1>5

LEMMA CountingEffect ==
  ASSUME NEW b \in {"gemini", "tencent", "coze"}, NEW l \in LocalsType, NEW item \in Items(Sends(b)), NEW i \in Int,
         NEW r, r = DoItem(b, l, item, i)
  PROVE  Rendering(b, l, item, i, r) /\ Metering(b, l, item, r)
<1>1. /\ b = "gemini" => r = GeminiItem(l, item, i)
      /\ b = "tencent" => r = TencentItem(l, item, i)
      /\ b = "coze" => r = CozeItem(l, item, i)
  BY DEF DoItem
<1>2. r = l \/ r = Render(Collect(l, item), i)
  BY <1>1 DEF GeminiItem, TencentItem, CozeItem
<1>3. r # Render(Collect(l, item), i) => item.kind \in {"noise", "bad", "empty"}
  BY <1>1 DEF GeminiItem, TencentItem, CozeItem
<1>4. ~Marks(b, item) /\ b \notin PassingOn /\ b \in Counting
  BY DEF Marks, PassingOn, Counting
<1>5. CASE r = Render(Collect(l, item), i)
  BY <1>4, <1>5, CollectEffect
<1>6. CASE r # Render(Collect(l, item), i)
  <2>1. r = l
    BY <1>2, <1>6
  <2> QED BY <1>3, <1>4, <1>6, <2>1, SkipEffect DEF Piece, Tells, HasText
<1> QED BY <1>5, <1>6

LEMMA CloudflareEffect ==
  ASSUME NEW l \in LocalsType, NEW item \in Items(Sends("cloudflare")), NEW i \in Int,
         NEW r, r = DoItem("cloudflare", l, item, i)
  PROVE  Rendering("cloudflare", l, item, i, r) /\ Metering("cloudflare", l, item, r)
<1>1. r = CloudflareItem(l, item, i)
  BY DEF DoItem
<1>2. ~Marks("cloudflare", item) /\ "cloudflare" \notin PassingOn /\ "cloudflare" \in Counting
  BY DEF Marks, PassingOn, Counting
<1>3. CASE item.kind \in {"noise", "bad"}
  <2>1. r = l
    BY <1>1, <1>3 DEF CloudflareItem
  <2> QED BY <1>2, <1>3, <2>1, SkipEffect DEF Piece, Tells, HasText
<1>4. CASE item.kind \in {"done", "bare"}
  <2>1. r = [l EXCEPT !.ended = "break"]
    BY <1>1, <1>4 DEF CloudflareItem
  <2>2. r \in LocalsType /\ r.out = l.out /\ r.text = l.text /\ r.usage = l.usage /\ r.done = l.done
    BY <2>1 DEF LocalsType
  <2>3. Rendering("cloudflare", l, item, i, r)
    BY <1>2, <1>4, <2>2, NoChunk DEF Piece, HasText
  <2>4. Metering("cloudflare", l, item, r)
    BY <1>4, <2>2 DEF Metering, Reported, HasText, LocalsType
  <2> QED BY <2>3, <2>4
<1>5. CASE item.kind \notin {"noise", "bad", "done", "bare"}
  <2>1. r = Render(Collect(l, item), i)
    BY <1>1, <1>5 DEF CloudflareItem
  <2> QED BY <1>2, <2>1, CollectEffect
<1> QED BY <1>3, <1>4, <1>5

LEMMA ReplicateEffect ==
  ASSUME NEW l \in LocalsType, NEW item \in Items(Sends("replicate")), NEW i \in Int,
         NEW r, r = DoItem("replicate", l, item, i)
  PROVE  Rendering("replicate", l, item, i, r) /\ Metering("replicate", l, item, r)
<1>1. r = ReplicateItem(l, item, i)
  BY DEF DoItem
<1>2. item.kind \in {"text", "noise", "bad", "done"}
  BY ItemIs DEF Streaming, Sends
<1>3. "replicate" \notin PassingOn /\ "replicate" \in Counting
  BY DEF PassingOn, Counting
<1>4. CASE item.kind \in {"noise", "bad"}
  <2>1. r = l
    BY <1>1, <1>4 DEF ReplicateItem
  <2> QED BY <1>3, <1>4, <2>1, SkipEffect DEF Marks, Piece, Tells, HasText
<1>5. CASE item.kind = "done"
  <2>1. r = [Render(l, Done) EXCEPT !.done = TRUE, !.ended = "break"]
    BY <1>1, <1>5 DEF ReplicateItem
  <2>2. /\ r \in LocalsType /\ r.out = Append(l.out, Done) /\ r.text = l.text /\ r.usage = l.usage /\ r.done
        /\ r.ended = "break"
    <3> DEFINE m == Render(l, Done)
    <3>1. m \in LocalsType /\ m.out = Append(l.out, Done) /\ m.text = l.text /\ m.usage = l.usage
      BY MarkIs, Zenon
    <3>2. r = [m EXCEPT !.done = TRUE, !.ended = "break"]
      BY <2>1
    <3> HIDE DEF m
    <3> QED BY <3>1, <3>2 DEF LocalsType
  <2>3. Rendering("replicate", l, item, i, r)
    BY <1>3, <1>5, <2>2 DEF Rendering, Marks, Piece, HasText
  <2>4. Metering("replicate", l, item, r)
    BY <1>5, <2>2 DEF Metering, Reported, Tells, HasText, LocalsType
  <2> QED BY <2>3, <2>4
<1>6. CASE item.kind = "text"
  <2>1. r = Render(Collect(l, item), i)
    BY <1>1, <1>6 DEF ReplicateItem
  <2> QED BY <1>3, <1>6, <2>1, CollectEffect DEF Marks
<1> QED BY <1>2, <1>4, <1>5, <1>6

\* An item that is passed on by locals m that have metered it.
LEMMA MeterEffect ==
  ASSUME NEW b, NEW l, NEW item, NEW i \in Int, ~Marks(b, item),
         NEW m \in LocalsType, m.out = l.out, m.done = l.done
  PROVE  /\ Rendering(b, l, item, i, Render(m, i))
         /\ Render(m, i).text = m.text /\ Render(m, i).usage = m.usage
<1>1. /\ Render(m, i) \in LocalsType /\ Render(m, i).out = Append(m.out, i) /\ Render(m, i).done = m.done
      /\ Render(m, i).text = m.text /\ Render(m, i).usage = m.usage
  BY RenderIs
<1>2. Render(m, i) \in LocalsType /\ Render(m, i).out = Append(l.out, i) /\ Render(m, i).done = l.done
  BY <1>1
<1> QED BY <1>1, <1>2, OneChunk

LEMMA RepIs ==
  ASSUME NEW item \in ItemType
  PROVE  /\ item.rep \in UsageType
         /\ item.rep.prompt \in Nat /\ item.rep.completion \in Nat /\ item.rep.total \in Nat
  BY DEF ItemType, UsageType

\* An item of an adaptor that counts no text: left out, metered, or metered and passed on.
LEMMA UsageEffect ==
  ASSUME NEW b \in Streaming, b \notin Texted, NEW l \in LocalsType, NEW item, NEW i \in Int, ~Marks(b, item),
         NEW u \in UsageType, Reported(b, l.usage, item, u), NEW m, m = [l EXCEPT !.usage = u]
  PROVE  /\ ~Piece(b, item) => Rendering(b, l, item, i, m) /\ Metering(b, l, item, m)
         /\ Rendering(b, l, item, i, Render(m, i)) /\ Metering(b, l, item, Render(m, i))
<1>1. m \in LocalsType /\ m.out = l.out /\ m.text = l.text /\ m.done = l.done /\ m.usage = u
  BY MeteredIs
<1>2. m \in LocalsType
  BY <1>1
<1>3. /\ Rendering(b, l, item, i, Render(m, i))
      /\ Render(m, i).text = m.text /\ Render(m, i).usage = m.usage
  <2>1. m.out = l.out /\ m.done = l.done
    BY <1>1
  <2>2. \A n \in LocalsType : n.out = l.out /\ n.done = l.done =>
          /\ Rendering(b, l, item, i, Render(n, i))
          /\ Render(n, i).text = n.text /\ Render(n, i).usage = n.usage
    BY MeterEffect
  <2> QED BY <1>2, <2>1, <2>2
<1>4. Metering(b, l, item, m) /\ Metering(b, l, item, Render(m, i))
  <2>1. l.text >= l.text
    BY DEF LocalsType
  <2> QED BY <1>1, <1>3, <2>1 DEF Metering
<1>5. ~Piece(b, item) => Rendering(b, l, item, i, m)
  BY <1>1, <1>2, NoChunk
<1> QED BY <1>3, <1>4, <1>5

\* anthropic's handler adds its reports up; aws uses it for what it can parse.
LEMMA AnthropicAdds ==
  ASSUME NEW b \in {"anthropic", "awsClaude"}, NEW l \in LocalsType, NEW item \in Items(Sends(b)), NEW i \in Int,
         item.kind \notin {"noise", "bad"}, NEW r, r = AnthropicItem(l, item, i)
  PROVE  Rendering(b, l, item, i, r) /\ Metering(b, l, item, r)
<1>1. item \in ItemType /\ item.kind \in {"text", "start", "usage", "empty"}
  BY ItemIs DEF Streaming, Sends
<1>2. ~Marks(b, item) /\ b \notin Texted /\ b \notin PassingOn
  BY DEF Marks, PassingOn, Texted, Counting
<1>3. l.usage \in UsageType /\ l.usage.completion \in Int /\ l.text \in Nat
  BY DEF LocalsType, UsageType
<1>4. /\ Add(l.usage, item.rep) \in UsageType
      /\ Add(l.usage, item.rep).completion = l.usage.completion + item.rep.completion
  BY <1>1, <1>3, UsageTypes, RepIs DEF Add
<1>5. HasReport(item) <=> Tells(item)
  BY <1>1 DEF HasReport, Reporting, Tells
<1> DEFINE u == IF HasReport(item) THEN Add(l.usage, item.rep) ELSE l.usage
           m == [l EXCEPT !.usage = u]
<1>6. /\ u \in UsageType
      /\ u.completion = IF Tells(item) THEN l.usage.completion + item.rep.completion ELSE l.usage.completion
  BY <1>3, <1>4, <1>5
<1>7. (IF HasReport(item) THEN [l EXCEPT !.usage = Add(@, item.rep)] ELSE l) = m
  BY DEF LocalsType
<1>8. r = IF item.kind = "start" THEN m ELSE Render(m, i)
  BY <1>1, <1>7 DEF AnthropicItem
<1>9. Reported(b, l.usage, item, u)
  <2> HIDE DEF u
  <2> QED BY <1>2, <1>6 DEF Reported
<1>10. item.kind = "start" => ~Piece(b, item)
  BY <1>2 DEF Piece, HasText
<1>11. b \in Streaming
  BY DEF Streaming
<1>12. /\ ~Piece(b, item) => Rendering(b, l, item, i, m) /\ Metering(b, l, item, m)
       /\ Rendering(b, l, item, i, Render(m, i)) /\ Metering(b, l, item, Render(m, i))
  <2> HIDE DEF u
  <2> QED BY <1>2, <1>6, <1>9, <1>11, UsageEffect
<1> HIDE DEF u, m
<1> QED BY <1>8, <1>10, <1>12

LEMMA AnthropicEffect ==
  ASSUME NEW b \in {"anthropic", "awsClaude"}, NEW l \in LocalsType, NEW item \in Items(Sends(b)), NEW i \in Int,
         NEW r, r = DoItem(b, l, item, i)
  PROVE  Rendering(b, l, item, i, r) /\ Metering(b, l, item, r)
<1>1. /\ b = "anthropic" => r = AnthropicItem(l, item, i)
      /\ b = "awsClaude" => r = AwsClaudeItem(l, item, i)
  BY DEF DoItem
<1>2. ~Marks(b, item) /\ b \notin PassingOn /\ b \notin Texted
  BY DEF Marks, PassingOn, Texted, Counting
<1>3. CASE item.kind \notin {"noise", "bad"}
  <2>1. r = AnthropicItem(l, item, i)
    BY <1>1, <1>3 DEF AwsClaudeItem
  <2> QED BY <1>3, <2>1, AnthropicAdds
<1>4. CASE item.kind \in {"noise", "bad"} /\ b = "anthropic"
  <2>1. r = l
    BY <1>1, <1>4 DEF AnthropicItem
  <2> QED BY <1>2, <1>4, <2>1, SkipEffect DEF Piece, Tells, HasText
<1>5. CASE item.kind \in {"noise", "bad"} /\ b = "awsClaude"
  <2>1. r = [l EXCEPT !.ended = "stop"]
    BY <1>1, <1>5 DEF AwsClaudeItem
  <2>2. r \in LocalsType /\ r.out = l.out /\ r.text = l.text /\ r.usage = l.usage /\ r.done = l.done
    BY <2>1 DEF LocalsType
  <2>3. Rendering(b, l, item, i, r)
    BY <1>2, <1>5, <2>2, NoChunk DEF Piece, HasText
  <2>4. Metering(b, l, item, r)
    BY <1>2, <1>5, <2>2 DEF Metering, Reported, Tells, HasText, LocalsType
  <2> QED BY <2>3, <2>4
<1> QED BY <1>3, <1>4, <1>5

LEMMA BaiduEffect ==
  ASSUME NEW b \in {"baidu"}, NEW l \in LocalsType, NEW item \in Items(Sends(b)), NEW i \in Int,
         NEW r, r = DoItem(b, l, item, i)
  PROVE  Rendering(b, l, item, i, r) /\ Metering(b, l, item, r)
<1>1. r = BaiduItem(l, item, i)
  BY DEF DoItem
<1>2. item \in ItemType /\ item.kind \in {"text", "noise", "bad", "usage", "both", "empty"}
  BY ItemIs DEF Streaming, Sends
<1>3. ~Marks(b, item) /\ b \notin Texted /\ b \notin PassingOn /\ b \in Streaming
  BY DEF Marks, PassingOn, Texted, Counting, Streaming
<1>4. CASE item.kind \in {"noise", "bad"}
  <2>1. r = l
    BY <1>1, <1>4 DEF BaiduItem
  <2> QED BY <1>3, <1>4, <2>1, SkipEffect DEF Piece, Tells, HasText
<1>5. CASE item.kind \notin {"noise", "bad"}
  <2>1. l.usage \in UsageType /\ l.usage.completion \in Int /\ item.rep \in UsageType
        /\ item.rep.prompt \in Nat /\ item.rep.completion \in Nat /\ item.rep.total \in Nat
    BY <1>2, RepIs DEF LocalsType, UsageType
  <2>2. ~HasReport(item) => item.rep.total = 0 /\ item.rep.completion = 0
    BY ItemIs, Values DEF Streaming
  <2>3. HasReport(item) <=> Tells(item)
    BY <1>2 DEF HasReport, Reporting, Tells
  <2> DEFINE u == IF item.rep.total # 0 THEN [item.rep EXCEPT !.completion = item.rep.total - item.rep.prompt] ELSE l.usage
             m == [l EXCEPT !.usage = u]
  <2>4. u \in UsageType
    BY <2>1, UsageTypes DEF UsageType
  <2>5. Reported(b, l.usage, item, u)
    BY <1>2, <1>3, <2>1, <2>2, <2>3 DEF Reported, Usage, Add, Texted, Counting
  <2>6. r = Render(m, i)
    BY <1>1, <1>2, <1>5, <2>3 DEF BaiduItem, Take, LocalsType
  <2>7. /\ ~Piece(b, item) => Rendering(b, l, item, i, m) /\ Metering(b, l, item, m)
        /\ Rendering(b, l, item, i, Render(m, i)) /\ Metering(b, l, item, Render(m, i))
    <3> HIDE DEF u
    <3> QED BY <1>3, <2>4, <2>5, UsageEffect
  <2> HIDE DEF u, m
  <2> QED BY <2>6, <2>7
<1> QED BY <1>4, <1>5

LEMMA ZhipuEffect ==
  ASSUME NEW b \in {"zhipu"}, NEW l \in LocalsType, NEW item \in Items(Sends(b)), NEW i \in Int,
         NEW r, r = DoItem(b, l, item, i)
  PROVE  Rendering(b, l, item, i, r) /\ Metering(b, l, item, r)
<1>1. r = ZhipuItem(l, item, i)
  BY DEF DoItem
<1>2. item \in ItemType /\ item.kind \in {"text", "noise", "bad", "usage"}
  BY ItemIs DEF Streaming, Sends
<1>3. ~Marks(b, item) /\ b \notin Texted /\ b \notin PassingOn /\ b \in Streaming
  BY DEF Marks, PassingOn, Texted, Counting, Streaming
<1>4. CASE item.kind \in {"noise", "bad"}
  <2>1. r = l
    BY <1>1, <1>4 DEF ZhipuItem
  <2> QED BY <1>3, <1>4, <2>1, SkipEffect DEF Piece, Tells, HasText
<1>5. CASE item.kind \notin {"noise", "bad"}
  <2>1. l.usage \in UsageType /\ l.usage.completion \in Int /\ item.rep \in UsageType
        /\ item.rep.prompt \in Nat /\ item.rep.completion \in Nat /\ item.rep.total \in Nat
    BY <1>2, RepIs DEF LocalsType, UsageType
  <2>2. ~HasReport(item) => item.rep.total = 0 /\ item.rep.completion = 0
    BY ItemIs, Values DEF Streaming
  <2>3. HasReport(item) <=> Tells(item)
    BY <1>2 DEF HasReport, Reporting, Tells
  <2> DEFINE u == IF HasReport(item) THEN item.rep ELSE l.usage
             m == [l EXCEPT !.usage = u]
  <2>4. u \in UsageType
    BY <2>1, UsageTypes
  <2>5. Reported(b, l.usage, item, u)
    BY <1>2, <1>3, <2>1, <2>2, <2>3 DEF Reported, Usage, Add, Texted, Counting
  <2>6. r = Render(m, i)
    BY <1>1, <1>2, <1>5, <2>3 DEF ZhipuItem, Take, LocalsType
  <2>7. /\ ~Piece(b, item) => Rendering(b, l, item, i, m) /\ Metering(b, l, item, m)
        /\ Rendering(b, l, item, i, Render(m, i)) /\ Metering(b, l, item, Render(m, i))
    <3> HIDE DEF u
    <3> QED BY <1>3, <2>4, <2>5, UsageEffect
  <2> HIDE DEF u, m
  <2> QED BY <2>6, <2>7
<1> QED BY <1>4, <1>5

LEMMA OllamaEffect ==
  ASSUME NEW b \in {"ollama"}, NEW l \in LocalsType, NEW item \in Items(Sends(b)), NEW i \in Int,
         NEW r, r = DoItem(b, l, item, i)
  PROVE  Rendering(b, l, item, i, r) /\ Metering(b, l, item, r)
<1>1. r = OllamaItem(l, item, i)
  BY DEF DoItem
<1>2. item \in ItemType /\ item.kind \in {"text", "noise", "bad", "usage", "both", "empty"}
  BY ItemIs DEF Streaming, Sends
<1>3. ~Marks(b, item) /\ b \notin Texted /\ b \notin PassingOn /\ b \in Streaming
  BY DEF Marks, PassingOn, Texted, Counting, Streaming
<1>4. CASE item.kind \in {"noise", "bad"}
  <2>1. r = l
    BY <1>1, <1>4 DEF OllamaItem
  <2> QED BY <1>3, <1>4, <2>1, SkipEffect DEF Piece, Tells, HasText
<1>5. CASE item.kind \notin {"noise", "bad"}
  <2>1. l.usage \in UsageType /\ l.usage.completion \in Int /\ item.rep \in UsageType
        /\ item.rep.prompt \in Nat /\ item.rep.completion \in Nat /\ item.rep.total \in Nat
    BY <1>2, RepIs DEF LocalsType, UsageType
  <2>2. ~HasReport(item) => item.rep.total = 0 /\ item.rep.completion = 0
    BY ItemIs, Values DEF Streaming
  <2>3. HasReport(item) <=> Tells(item)
    BY <1>2 DEF HasReport, Reporting, Tells
  <2> DEFINE u == IF item.rep.completion # 0 THEN Usage(item.rep.prompt, item.rep.completion) ELSE l.usage
             m == [l EXCEPT !.usage = u]
  <2>4. u \in UsageType
    BY <2>1, UsageTypes
  <2>5. Reported(b, l.usage, item, u)
    BY <1>2, <1>3, <2>1, <2>2, <2>3 DEF Reported, Usage, Add, Texted, Counting
  <2>6. r = Render(m, i)
    BY <1>1, <1>2, <1>5, <2>3 DEF OllamaItem, Take, LocalsType
  <2>7. /\ ~Piece(b, item) => Rendering(b, l, item, i, m) /\ Metering(b, l, item, m)
        /\ Rendering(b, l, item, i, Render(m, i)) /\ Metering(b, l, item, Render(m, i))
    <3> HIDE DEF u
    <3> QED BY <1>3, <2>4, <2>5, UsageEffect
  <2> HIDE DEF u, m
  <2> QED BY <2>6, <2>7
<1> QED BY <1>4, <1>5

LEMMA AliEffect ==
  ASSUME NEW b \in {"ali"}, NEW l \in LocalsType, NEW item \in Items(Sends(b)), NEW i \in Int,
         NEW r, r = DoItem(b, l, item, i)
  PROVE  Rendering(b, l, item, i, r) /\ Metering(b, l, item, r)
<1>1. r = AliItem(l, item, i)
  BY DEF DoItem
<1>2. item \in ItemType /\ item.kind \in {"text", "noise", "bad", "usage", "both", "empty"}
  BY ItemIs DEF Streaming, Sends
<1>3. ~Marks(b, item) /\ b \notin Texted /\ b \notin PassingOn /\ b \in Streaming
  BY DEF Marks, PassingOn, Texted, Counting, Streaming
<1>4. CASE item.kind \in {"noise", "bad"}
  <2>1. r = l
    BY <1>1, <1>4 DEF AliItem
  <2> QED BY <1>3, <1>4, <2>1, SkipEffect DEF Piece, Tells, HasText
<1>5. CASE item.kind \notin {"noise", "bad"}
  <2>1. l.usage \in UsageType /\ l.usage.completion \in Int /\ item.rep \in UsageType
        /\ item.rep.prompt \in Nat /\ item.rep.completion \in Nat /\ item.rep.total \in Nat
    BY <1>2, RepIs DEF LocalsType, UsageType
  <2>2. ~HasReport(item) => item.rep.total = 0 /\ item.rep.completion = 0
    BY ItemIs, Values DEF Streaming
  <2>3. HasReport(item) <=> Tells(item)
    BY <1>2 DEF HasReport, Reporting, Tells
  <2> DEFINE u == IF item.rep.completion # 0 THEN Usage(item.rep.prompt, item.rep.completion) ELSE l.usage
             m == [l EXCEPT !.usage = u]
  <2>4. u \in UsageType
    BY <2>1, UsageTypes
  <2>5. Reported(b, l.usage, item, u)
    BY <1>2, <1>3, <2>1, <2>2, <2>3 DEF Reported, Usage, Add, Texted, Counting
  <2>6. r = IF item.kind \in {"empty", "usage"} THEN m ELSE Render(m, i)
    BY <1>1, <1>2, <1>5, <2>3 DEF AliItem, Take, LocalsType
  <2>7. /\ ~Piece(b, item) => Rendering(b, l, item, i, m) /\ Metering(b, l, item, m)
        /\ Rendering(b, l, item, i, Render(m, i)) /\ Metering(b, l, item, Render(m, i))
    <3> HIDE DEF u
    <3> QED BY <1>3, <2>4, <2>5, UsageEffect
  <2>8. item.kind \in {"empty", "usage"} => ~Piece(b, item)
    BY <1>3 DEF Piece, HasText
  <2> HIDE DEF u, m
  <2> QED BY <2>6, <2>7, <2>8
<1> QED BY <1>4, <1>5

LEMMA CohereEffect ==
  ASSUME NEW b \in {"cohere"}, NEW l \in LocalsType, NEW item \in Items(Sends(b)), NEW i \in Int,
         NEW r, r = DoItem(b, l, item, i)
  PROVE  Rendering(b, l, item, i, r) /\ Metering(b, l, item, r)
<1>1. r = CohereItem(l, item, i)
  BY DEF DoItem
<1>2. item \in ItemType /\ item.kind \in {"text", "noise", "bad", "usage", "empty"}
  BY ItemIs DEF Streaming, Sends
<1>3. ~Marks(b, item) /\ b \notin Texted /\ b \notin PassingOn /\ b \in Streaming
  BY DEF Marks, PassingOn, Texted, Counting, Streaming
<1>4. CASE item.kind \in {"noise", "bad", "empty"}
  <2>1. r = l
    BY <1>1, <1>4 DEF CohereItem
  <2> QED BY <1>3, <1>4, <2>1, SkipEffect DEF Piece, Tells, HasText
<1>5. CASE item.kind \notin {"noise", "bad", "empty"}
  <2>1. l.usage \in UsageType /\ l.usage.completion \in Int /\ item.rep \in UsageType
        /\ item.rep.prompt \in Nat /\ item.rep.completion \in Nat /\ item.rep.total \in Nat
    BY <1>2, RepIs DEF LocalsType, UsageType
  <2>2. ~HasReport(item) => item.rep.total = 0 /\ item.rep.completion = 0
    BY ItemIs, Values DEF Streaming
  <2>3. HasReport(item) <=> Tells(item)
    BY <1>2 DEF HasReport, Reporting, Tells
  <2> DEFINE u == IF HasReport(item) THEN Add(l.usage, item.rep) ELSE l.usage
             m == [l EXCEPT !.usage = u]
  <2>4. u \in UsageType
    BY <2>1, UsageTypes
  <2>5. Reported(b, l.usage, item, u)
    BY <1>2, <1>3, <2>1, <2>2, <2>3 DEF Reported, Usage, Add, Texted, Counting
  <2>6. r = IF item.kind = "usage" THEN m ELSE Render(m, i)
    <3>1. CASE item.kind = "usage"
      <4>1. HasReport(item)
        BY <3>1 DEF HasReport, Reporting
      <4>2. r = [l EXCEPT !.usage = Add(@, item.rep)]
        BY <1>1, <3>1 DEF CohereItem
      <4> QED BY <3>1, <4>1, <4>2 DEF LocalsType
    <3>2. CASE item.kind = "text"
      <4>1. ~HasReport(item)
        BY <3>2 DEF HasReport, Reporting
      <4>2. m = l
        BY <4>1 DEF LocalsType
      <4>3. r = Render(l, i)
        BY <1>1, <3>2 DEF CohereItem
      <4> QED BY <3>2, <4>2, <4>3
    <3> QED BY <1>2, <1>5, <3>1, <3>2
  <2>7. /\ ~Piece(b, item) => Rendering(b, l, item, i, m) /\ Metering(b, l, item, m)
        /\ Rendering(b, l, item, i, Render(m, i)) /\ Metering(b, l, item, Render(m, i))
    <3> HIDE DEF u
    <3> QED BY <1>3, <2>4, <2>5, UsageEffect
  <2>8. item.kind = "usage" => ~Piece(b, item)
    BY <1>3 DEF Piece, HasText
  <2> HIDE DEF u, m
  <2> QED BY <2>6, <2>7, <2>8
<1> QED BY <1>4, <1>5

LEMMA AiproxyEffect ==
  ASSUME NEW b \in {"aiproxy"}, NEW l \in LocalsType, NEW item \in Items(Sends(b)), NEW i \in Int,
         NEW r, r = DoItem(b, l, item, i)
  PROVE  Rendering(b, l, item, i, r) /\ Metering(b, l, item, r)
<1>1. r = AiproxyItem(l, item, i)
  BY DEF DoItem
<1>2. item \in ItemType /\ item.kind \in {"text", "noise", "bad", "empty"}
  BY ItemIs DEF Streaming, Sends
<1>3. ~Marks(b, item) /\ b \notin Texted /\ b \notin PassingOn /\ b \in Streaming
  BY DEF Marks, PassingOn, Texted, Counting, Streaming
<1>4. CASE item.kind \in {"noise", "bad"}
  <2>1. r = l
    BY <1>1, <1>4 DEF AiproxyItem
  <2> QED BY <1>3, <1>4, <2>1, SkipEffect DEF Piece, Tells, HasText
<1>5. CASE item.kind \notin {"noise", "bad"}
  <2>1. l.usage \in UsageType /\ l.usage.completion \in Int /\ item.rep \in UsageType
        /\ item.rep.prompt \in Nat /\ item.rep.completion \in Nat /\ item.rep.total \in Nat
    BY <1>2, RepIs DEF LocalsType, UsageType
  <2>2. ~HasReport(item) => item.rep.total = 0 /\ item.rep.completion = 0
    BY ItemIs, Values DEF Streaming
  <2>3. HasReport(item) <=> Tells(item)
    BY <1>2 DEF HasReport, Reporting, Tells
  <2> DEFINE u == l.usage
             m == [l EXCEPT !.usage = u]
  <2>4. u \in UsageType
    BY <2>1, UsageTypes
  <2>5. Reported(b, l.usage, item, u)
    BY <1>2, <1>3, <2>1, <2>2, <2>3 DEF Reported, Usage, Add, Texted, Counting
  <2>6. r = Render(m, i)
    BY <1>1, <1>2, <1>5, <2>3 DEF AiproxyItem, Take, LocalsType
  <2>7. /\ ~Piece(b, item) => Rendering(b, l, item, i, m) /\ Metering(b, l, item, m)
        /\ Rendering(b, l, item, i, Render(m, i)) /\ Metering(b, l, item, Render(m, i))
    <3> HIDE DEF u
    <3> QED BY <1>3, <2>4, <2>5, UsageEffect
  <2> HIDE DEF u, m
  <2> QED BY <2>6, <2>7
<1> QED BY <1>4, <1>5

LEMMA LlamaEffect ==
  ASSUME NEW b \in {"awsLlama"}, NEW l \in LocalsType, NEW item \in Items(Sends(b)), NEW i \in Int,
         NEW r, r = DoItem(b, l, item, i)
  PROVE  Rendering(b, l, item, i, r) /\ Metering(b, l, item, r)
<1>1. r = AwsLlamaItem(l, item, i)
  BY DEF DoItem
<1>2. item \in ItemType /\ item.kind \in {"text", "noise", "bad", "usage", "both", "limit", "empty"}
  BY ItemIs DEF Streaming, Sends
<1>3. ~Marks(b, item) /\ b \notin Texted /\ b \notin PassingOn /\ b \in Streaming
  BY DEF Marks, PassingOn, Texted, Counting, Streaming
<1>4. CASE item.kind \in {"noise", "bad"}
  <2>1. r = [l EXCEPT !.ended = "stop"]
    BY <1>1, <1>4 DEF AwsLlamaItem
  <2>2. r \in LocalsType /\ r.out = l.out /\ r.text = l.text /\ r.usage = l.usage /\ r.done = l.done
    BY <2>1 DEF LocalsType
  <2>3. Rendering(b, l, item, i, r)
    BY <1>3, <1>4, <2>2, NoChunk DEF Piece, HasText
  <2>4. Metering(b, l, item, r)
    BY <1>3, <1>4, <2>2 DEF Metering, Reported, Tells, HasText, LocalsType
  <2> QED BY <2>3, <2>4
<1>5. CASE item.kind \notin {"noise", "bad"}
  <2>1. l.usage \in UsageType /\ l.usage.completion \in Int /\ l.usage.prompt \in Int
        /\ item.rep.prompt \in Nat /\ item.rep.completion \in Nat
    BY <1>2, RepIs DEF LocalsType, UsageType
  <2> DEFINE p == IF item.rep.prompt > 0 THEN item.rep.prompt ELSE l.usage.prompt
             u == IF item.kind \in {"usage", "both"} THEN Usage(p, item.rep.completion)
                  ELSE IF item.kind = "limit" THEN [l.usage EXCEPT !.prompt = p] ELSE l.usage
             m == [l EXCEPT !.usage = u]
  <2>2. p \in Int
    BY <2>1
  <2>3. /\ u \in UsageType
        /\ u.completion = IF Tells(item) THEN item.rep.completion ELSE l.usage.completion
    <3> HIDE DEF p
    <3>1. CASE item.kind \in {"usage", "both"}
      <4>1. u = Usage(p, item.rep.completion) /\ Tells(item)
        BY <3>1 DEF Tells
      <4>2. Usage(p, item.rep.completion) \in UsageType
        BY <2>1, <2>2, UsageTypes
      <4> QED BY <4>1, <4>2 DEF Usage
    <3>2. CASE item.kind = "limit"
      <4>1. u = [l.usage EXCEPT !.prompt = p] /\ ~Tells(item)
        BY <3>2 DEF Tells
      <4> QED BY <2>1, <2>2, <4>1 DEF UsageType
    <3>3. CASE item.kind \in {"text", "empty"}
      <4>1. u = l.usage /\ ~Tells(item)
        BY <3>3 DEF Tells
      <4> QED BY <2>1, <4>1
    <3> QED BY <1>2, <1>5, <3>1, <3>2, <3>3
  <2>4. Reported(b, l.usage, item, u)
    <3> HIDE DEF u
    <3> QED BY <2>3 DEF Reported
  <2>5. r = Render(m, i)
    <3>1. CASE item.kind \in {"usage", "both"}
      BY <1>1, <3>1 DEF AwsLlamaItem
    <3>2. CASE item.kind = "limit"
      <4>1. [l EXCEPT !.usage.prompt = p] = m
        BY <3>2 DEF LocalsType
      <4>2. r = Render([l EXCEPT !.usage.prompt = p], i)
        BY <1>1, <3>2 DEF AwsLlamaItem
      <4> QED BY <4>1, <4>2
    <3>3. CASE item.kind \in {"text", "empty"}
      <4>1. m = l
        BY <3>3 DEF LocalsType
      <4>2. r = Render(l, i)
        BY <1>1, <3>3 DEF AwsLlamaItem
      <4> QED BY <4>1, <4>2
    <3> QED BY <1>2, <1>5, <3>1, <3>2, <3>3
  <2>6. Rendering(b, l, item, i, Render(m, i)) /\ Metering(b, l, item, Render(m, i))
    <3> HIDE DEF u
    <3> QED BY <1>3, <2>3, <2>4, UsageEffect
  <2> QED BY <2>5, <2>6
<1> QED BY <1>4, <1>5

\* What every handler does with every item its channel may send.
LEMMA ItemEffect ==
  ASSUME NEW b \in Streaming, NEW l \in LocalsType, NEW item \in Items(Sends(b)), NEW i \in Int
  PROVE  Rendering(b, l, item, i, DoItem(b, l, item, i)) /\ Metering(b, l, item, DoItem(b, l, item, i))
<1>1. CASE b \in {"openai", "zhipuV4"}
  BY <1>1, OpenaiEffect
<1>2. CASE b = "completions"
  BY <1>2, CompletionsEffect
<1>3. CASE b \in {"gemini", "tencent", "coze"}
  BY <1>3, CountingEffect
<1>4. CASE b = "cloudflare"
  BY <1>4, CloudflareEffect
<1>5. CASE b = "replicate"
  BY <1>5, ReplicateEffect
<1>6. CASE b \in {"anthropic", "awsClaude"}
  BY <1>6, AnthropicEffect
<1>7. CASE b = "baidu"
  BY <1>7, BaiduEffect
<1>8. CASE b = "zhipu"
  BY <1>8, ZhipuEffect
<1>9. CASE b = "ollama"
  BY <1>9, OllamaEffect
<1>10. CASE b = "ali"
  BY <1>10, AliEffect
<1>11. CASE b = "cohere"
  BY <1>11, CohereEffect
<1>12. CASE b = "aiproxy"
  BY <1>12, AiproxyEffect
<1>13. CASE b = "awsLlama"
  BY <1>13, LlamaEffect
<1> QED BY <1>1, <1>2, <1>3, <1>4, <1>5, <1>6, <1>7, <1>8, <1>9, <1>10, <1>11, <1>12, <1>13 DEF Streaming

-----------------------------------------------------------------------------
(* Bodies. *)

\* An outcome is typed, and an error comes before anything is written but for a client
\* that cannot be written to.
Sound(b, o) ==
  /\ o.result \in ResultType /\ o.out \in Seq(Int)
  /\ o.result.err # "none" => o.out = <<>> \/ b.fault = "write"

LEMMA Shapes ==
  ASSUME NEW b \in Bodies
  PROVE  /\ Sound(b, Nothing)
         /\ \A u \in UsageType : Sound(b, Answer(u)) /\ Sound(b, Guarded(b, u)) /\ Sound(b, Written(b, u))
         /\ \A out \in {<<>>, <<1>>} : b.fault = "write" => Sound(b, Outcome(Failed, out))
<1>1. Nothing.result = Failed /\ Nothing.out = <<>>
  BY DEF Nothing, Outcome
<1>2. Sound(b, Nothing)
  BY <1>1, Values DEF Sound
<1>3. \A u \in UsageType : Sound(b, Answer(u))
  <2> SUFFICES ASSUME NEW u \in UsageType PROVE Sound(b, Answer(u))
    OBVIOUS
  <2>1. Answer(u).result = [err |-> "none", usage |-> u] /\ Answer(u).out = <<1>>
    BY DEF Answer, Outcome, Result
  <2> QED BY <2>1 DEF Sound, ResultType
<1>4. \A out \in {<<>>, <<1>>} : b.fault = "write" => Sound(b, Outcome(Failed, out))
  <2> SUFFICES ASSUME b.fault = "write" PROVE \A out \in {<<>>, <<1>>} : Sound(b, Outcome(Failed, out))
    OBVIOUS
  <2> TAKE out \in {<<>>, <<1>>}
  <2>1. Outcome(Failed, out).result = Failed /\ Outcome(Failed, out).out = out
    BY DEF Outcome
  <2>2. <<>> \in Seq(Int) /\ <<1>> \in Seq(Int)
    OBVIOUS
  <2>3. out \in Seq(Int)
    BY <2>2, Zenon
  <2> QED BY <2>1, <2>3, Values DEF Sound
<1>5. \A u \in UsageType : Sound(b, Guarded(b, u))
  BY <1>2, <1>3 DEF Guarded
<1>6. \A u \in UsageType : Sound(b, Written(b, u))
  BY <1>4, <1>5 DEF Written
<1> QED BY <1>2, <1>3, <1>4, <1>5, <1>6

LEMMA BodyUsages ==
  ASSUME NEW b \in Bodies
  PROVE  /\ b.rep \in UsageType /\ b.text \in Nat
         /\ Usage(b.rep.prompt, b.rep.completion) \in UsageType /\ ResponseText2Usage(b.text) \in UsageType
         /\ Usage(PromptTokens, 0) \in UsageType /\ Total(0) \in UsageType /\ Total(b.rep.total) \in UsageType
<1>1. b.rep \in [prompt : Nat, completion : Nat, total : Nat] /\ b.text \in Nat
  BY HandlerAssumption DEF Bodies
<1>2. b.rep \in UsageType
  BY <1>1 DEF UsageType
<1>3. Usage(b.rep.prompt, b.rep.completion) \in UsageType /\ Usage(PromptTokens, 0) \in UsageType
  BY <1>1, UsageTypes, HandlerAssumption
<1>4. \A n \in Int : Total(n) \in UsageType
  BY Values DEF Total, UsageType
<1>5. Total(0) \in UsageType /\ Total(b.rep.total) \in UsageType
  BY <1>1, <1>4
<1> QED BY <1>1, <1>2, <1>3, <1>5, UsageTypes

\* Answers to a chat that is not streamed, to embeddings and to requests for images.
LEMMA TextIs ==
  ASSUME NEW b \in Bodies, NEW ad \in (Streaming \ {"completions", "replicate"}) \cup {"palm", "deepl"}
  PROVE  Sound(b, TextHandler(ad, b))
<1> DEFINE o == TextHandler(ad, b)
<1>1. CASE ad \in {"openai", "zhipuV4"}
  <2>1. o = OpenaiHandler(b)
    BY <1>1 DEF TextHandler
  <2> QED BY <2>1, Shapes, BodyUsages DEF OpenaiHandler
<1>2. CASE ad \in {"anthropic", "ali", "ollama", "cohere", "awsClaude", "awsLlama"}
  <2>1. o = Guarded(b, Usage(b.rep.prompt, b.rep.completion))
    BY <1>2 DEF TextHandler, AnthropicHandler, AliHandler, OllamaHandler, CohereHandler, AwsClaudeHandler, AwsLlamaHandler
  <2> QED BY <2>1, Shapes, BodyUsages
<1>3. CASE ad \in {"gemini", "coze", "palm"}
  <2>1. o = Guarded(b, ResponseText2Usage(b.text))
    BY <1>3 DEF TextHandler, GeminiHandler, CozeHandler, PalmHandler
  <2> QED BY <2>1, Shapes, BodyUsages
<1>4. CASE ad \in {"baidu", "zhipu"}
  <2>1. o = Guarded(b, b.rep)
    BY <1>4 DEF TextHandler, BaiduHandler, ZhipuHandler
  <2> QED BY <2>1, Shapes, BodyUsages
<1>5. CASE ad = "tencent"
  <2>1. o = Written(b, b.rep)
    BY <1>5 DEF TextHandler, TencentHandler
  <2> QED BY <2>1, Shapes, BodyUsages
<1>6. CASE ad = "aiproxy"
  <2>1. o = Written(b, ZeroUsage)
    BY <1>6 DEF TextHandler, AiproxyHandler
  <2> QED BY <2>1, Shapes, Values
<1>7. CASE ad = "deepl"
  <2>1. o = Guarded(b, Usage(PromptTokens, 0))
    BY <1>7 DEF TextHandler, DeeplHandler
  <2> QED BY <2>1, Shapes, BodyUsages
<1>8. CASE ad = "cloudflare"
  <2>1. o = CloudflareHandler(b)
    BY <1>8 DEF TextHandler
  <2> QED BY <2>1, Shapes, BodyUsages DEF CloudflareHandler
<1> QED BY <1>1, <1>2, <1>3, <1>4, <1>5, <1>6, <1>7, <1>8 DEF Streaming

LEMMA EmbeddingIs ==
  ASSUME NEW b \in Bodies, NEW ad \in {"openai", "gemini", "baidu", "tencent", "zhipu", "ali", "ollama"}
  PROVE  Sound(b, EmbeddingHandler(ad, b))
<1> DEFINE o == EmbeddingHandler(ad, b)
<1>1. CASE ad = "openai"
  <2>1. o = OpenaiHandler(b)
    BY <1>1 DEF EmbeddingHandler
  <2> QED BY <2>1, Shapes, BodyUsages DEF OpenaiHandler
<1>2. CASE ad \in {"gemini", "ollama"}
  <2>1. o = Guarded(b, Total(0))
    BY <1>2 DEF EmbeddingHandler, GeminiEmbedding, OllamaEmbedding
  <2> QED BY <2>1, Shapes, BodyUsages
<1>3. CASE ad \in {"tencent", "ali"}
  <2>1. o = Guarded(b, Total(b.rep.total))
    BY <1>3 DEF EmbeddingHandler, TencentEmbedding, AliEmbedding
  <2> QED BY <2>1, Shapes, BodyUsages
<1>4. CASE ad = "baidu"
  <2>1. o = Guarded(b, b.rep)
    BY <1>4 DEF EmbeddingHandler, BaiduEmbedding
  <2> QED BY <2>1, Shapes, BodyUsages
<1>5. CASE ad = "zhipu"
  <2>1. o = ZhipuEmbedding(b)
    BY <1>5 DEF EmbeddingHandler
  <2> QED BY <2>1, Shapes, BodyUsages DEF ZhipuEmbedding
<1> QED BY <1>1, <1>2, <1>3, <1>4, <1>5

LEMMA ImageIs ==
  ASSUME NEW b \in Bodies
  PROVE  Sound(b, OpenaiImage(b))
  BY Shapes, Values DEF OpenaiImage

\* The proxy has sent the header when it reads.
LEMMA ProxyIs ==
  ASSUME NEW b \in Bodies, NEW o, o = ProxyHandler(b)
  PROVE  /\ o.result \in ResultType /\ o.out \in Seq(Int)
         /\ o.result.err # "none" => b.fault \in {"read", "write"}
<1>1. CASE b.fault \in {"read", "write"}
  <2>1. o.result = Failed /\ o.out = <<1>>
    BY <1>1 DEF ProxyHandler, Outcome
  <2> QED BY <1>1, <2>1, Values
<1>2. CASE b.fault \notin {"read", "write"}
  <2>1. o.result = [err |-> "none", usage |-> NoUsage] /\ o.out = <<1>>
    BY <1>2 DEF ProxyHandler, Answer, Outcome, Result
  <2> QED BY <2>1, Values DEF ResultType
<1> QED BY <1>1, <1>2

\* A stream made of a body ends with [DONE], or nothing of it is written.
StreamOf(ad, b, o) ==
  /\ Sound(b, o)
  /\ o.result.err = "none" => o.out = <<1, Done>>
  /\ o.result.err = "none" /\ ad = "palm" => o.result.usage = ResponseText2Usage(b.text)

LEMMA StreamShapes ==
  ASSUME NEW b \in Bodies, NEW ad
  PROVE  /\ StreamOf(ad, b, Nothing) /\ StreamOf(ad, b, Outcome(Crashed, <<>>))
         /\ \A u \in UsageType : (ad = "palm" => u = ResponseText2Usage(b.text))
                                   => StreamOf(ad, b, Outcome(Result("none", u), <<1, Done>>))
<1>1. Nothing.result = Failed /\ Nothing.out = <<>>
  BY DEF Nothing, Outcome
<1>2. Outcome(Crashed, <<>>).result = Crashed /\ Outcome(Crashed, <<>>).out = <<>>
  BY DEF Outcome
<1>3. StreamOf(ad, b, Nothing)
  BY <1>1, Values DEF StreamOf, Sound
<1>4. StreamOf(ad, b, Outcome(Crashed, <<>>))
  <2> DEFINE o == Outcome(Crashed, <<>>)
  <2> SUFFICES StreamOf(ad, b, o)
    OBVIOUS
  <2>1. o.result \in ResultType /\ o.out = <<>> /\ o.result.err = "panic"
    BY <1>2, Values
  <2> HIDE DEF o
  <2> QED BY <2>1 DEF StreamOf, Sound
<1>5. ASSUME NEW u \in UsageType, ad = "palm" => u = ResponseText2Usage(b.text)
      PROVE  StreamOf(ad, b, Outcome(Result("none", u), <<1, Done>>))
  <2> DEFINE o == Outcome(Result("none", u), <<1, Done>>)
  <2> SUFFICES StreamOf(ad, b, o)
    OBVIOUS
  <2>1. o.result = [err |-> "none", usage |-> u] /\ o.out = <<1, Done>>
    BY DEF Outcome, Result
  <2>2. <<1, Done>> \in Seq(Int)
    BY DEF Done
  <2>3. o.result \in ResultType /\ o.result.err = "none" /\ o.result.usage = u
    BY <2>1 DEF ResultType
  <2> HIDE DEF o
  <2>4. Sound(b, o)
    BY <2>1, <2>2, <2>3 DEF Sound
  <2> QED BY <1>5, <2>1, <2>3, <2>4 DEF StreamOf
<1> QED BY <1>3, <1>4, <1>5

LEMMA BodyStreamIs ==
  ASSUME NEW b \in Bodies
  PROVE  StreamOf("palm", b, PalmStreamHandler(b)) /\ StreamOf("deepl", b, DeeplStreamHandler(b))
<1>1. StreamOf("palm", b, PalmStreamHandler(b))
  BY StreamShapes, BodyUsages DEF PalmStreamHandler
<1>2. StreamOf("deepl", b, DeeplStreamHandler(b))
  BY StreamShapes, BodyUsages DEF DeeplStreamHandler
<1> QED BY <1>1, <1>2

-----------------------------------------------------------------------------
(* The inductive invariant. *)

Before == {"start", "converted", "connecting", "body", "polling", "sleeping"}
Over == {"returned", "end"}
MadeOfBody == {"palm", "deepl"}   \* adaptors that make a stream of one body

\* Where a request may be, and that nothing is said or rendered before the answer is read.
Begun ==
  /\ pc \in Before => /\ s = Locals(InitialUsage(a)) /\ said = <<>> /\ producer = "none" /\ gone = FALSE
                      /\ result.err = "none" /\ fault = "none"
  /\ pc = "connecting" => a = "xunfei"
  /\ pc = "body" => a # "xunfei" /\ (stream => a \in MadeOfBody \cup {"replicate"})
  /\ pc \in {"polling", "sleeping"} => Task
  /\ pc = "reading" => result.err = "none" /\ fault = "none" /\ (a = "xunfei" \/ (stream /\ a \in Streaming))

\* The goroutine of xunfei meets the handler while it reads, and has ended afterwards
\* unless the client of a stream has left.
Producing ==
  /\ a # "xunfei" => producer = "none"
  /\ a = "xunfei" /\ pc = "reading" => producer \in {"reading", "sending", "stopping"}
  /\ pc \in Over => producer \in {"none", "ended"} \/ (stream /\ gone)
  /\ producer = "sending" => said # <<>>
  /\ gone => stream

\* Nothing is rendered before the first item, or without a stream before the end.
Quiet == pc = "reading" /\ (~stream \/ said = <<>>) => s.out = <<>>

\* Chunks go by the numbers of their items, in order, and no piece of text is missing
\* unless the stream was stopped.
Rendered ==
  (stream /\ a \notin MadeOfBody) =>
    /\ \A j \in DOMAIN s.out : s.out[j] <= Handled
    /\ \A j, k \in DOMAIN s.out : (j < k /\ s.out[j] > 0 /\ s.out[k] > 0) => s.out[j] < s.out[k]
    /\ s.ended # "stop" => \A k \in 1..Handled : Due(k) => \E j \in DOMAIN s.out : s.out[j] = k

Unread == a \in MadeOfBody => said = <<>>

\* The chunk [DONE] stands at the end and nowhere else.
ClosedBy(out) == out # <<>> /\ \A k \in DOMAIN out : out[k] = Done <=> k = Len(out)

\* While a stream is read [DONE] has been rendered if and only if that is remembered, and
\* an adaptor that passes lines on has then read the mark.
Marked ==
  pc = "reading" /\ stream =>
    /\ ~OddMark => (s.done => ClosedBy(s.out)) /\ (~s.done => \A k \in DOMAIN s.out : s.out[k] # Done)
    /\ s.done => \/ a = "replicate" /\ s.ended # "no"
                 \/ a \in PassingOn /\ \E k \in DOMAIN said : said[k].kind = "done"

Closed == (pc \in Over /\ result.err = "none" /\ stream /\ ~CutShort /\ ~OddMark) => ClosedBy(s.out)

\* Adaptors that count have counted some text if they were sent some.
Counted == (stream /\ a \in Texted) => ((\E k \in DOMAIN said : HasText(said[k])) => s.text > 0)

\* How the usage comes from what was told: the last report, the sum, the last that gives
\* a completion, or the last that has a total.
LastTold(j) == j \in Told /\ \A k \in Told : k <= j
Kept ==
  LET given == s.usage.completion
  IN  stream =>
        /\ a = "completions" => s.usage = NoUsage
        /\ a \in {"openai", "zhipuV4", "zhipu"} =>
             (Told = {} /\ s.usage = NoUsage) \/ \E j \in Told : LastTold(j) /\ s.usage = said[j].rep
        /\ a = "awsLlama" =>
             (Told = {} /\ given = 0) \/ \E j \in Told : LastTold(j) /\ given = said[j].rep.completion
        /\ a \in {"anthropic", "awsClaude", "cohere", "xunfei"} =>
             given >= 0 /\ \A k \in Told : given >= said[k].rep.completion
        /\ a \in {"ali", "ollama"} => given >= 0 /\ (given = 0 => \A k \in Told : said[k].rep.completion = 0)
        /\ a = "baidu" =>
             \/ given = 0 /\ \A k \in Told : said[k].rep.total = 0
             \/ \E j \in Told : /\ given = said[j].rep.total - said[j].rep.prompt
                                /\ \A k \in Told : k > j => said[k].rep.total = 0

Returned ==
  (pc \in Over /\ result.err = "none" /\ stream) =>
    /\ a \notin MadeOfBody => result.usage = StreamUsage(a, s)
    /\ a = "palm" => result.usage = ResponseText2Usage(s.text)

Charged ==
  (pc = "end" /\ result.err = "none" /\ stream) =>
    IF result.usage = NoUsage THEN bill.state = "left"
    ELSE bill = [state |-> "settled", amount |-> Quota(result.usage)]

IInv ==
  /\ TypeInv /\ Begun /\ Producing /\ Quiet /\ Unread /\ SilentOnError
  /\ Rendered /\ Marked /\ Closed /\ Counted /\ Kept /\ Returned /\ Charged

LEMMA LocalsTyped ==
  ASSUME NEW u \in UsageType
  PROVE  /\ Locals(u) \in LocalsType /\ Locals(u).out = <<>> /\ Locals(u).text = 0 /\ Locals(u).usage = u
         /\ Locals(u).done = FALSE /\ Locals(u).ended = "no"
  BY DEF Locals, LocalsType

LEMMA InitialUsageTyped == \A ad : InitialUsage(ad) \in UsageType
  BY Values DEF InitialUsage

\* Before the answer is read the local variables are those of a handler that begins.
LEMMA FreshIs ==
  ASSUME Begun, pc \in Before
  PROVE  s.out = <<>> /\ s.text = 0 /\ s.done = FALSE /\ s.ended = "no" /\ said = <<>>
<1>1. s = Locals(InitialUsage(a)) /\ said = <<>>
  BY DEF Begun
<1> QED BY <1>1, LocalsTyped, InitialUsageTyped, Zenon

LEMMA PlacesInit == Init => TypeInv /\ Begun /\ Producing /\ Unread
<1> SUFFICES ASSUME Init PROVE TypeInv /\ Begun /\ Producing /\ Unread
  OBVIOUS
<1>1. s \in LocalsType
  BY LocalsTyped, InitialUsageTyped DEF Init
<1>2. result = [err |-> "none", usage |-> NoUsage]
  BY DEF Init, Result
<1>3. TypeInv
  <2>1. said \in Seq(ItemType)
    BY DEF Init
  <2>2. bill \in [state : {"none", "held", "left", "returned", "settled"}, amount : Int]
    BY DEF Init
  <2>3. call \in Calls /\ pc = "start" /\ producer = "none" /\ gone = FALSE
    BY DEF Init
  <2>4. result \in ResultType
    BY <1>2, Values DEF ResultType
  <2> QED BY <1>1, <2>1, <2>2, <2>3, <2>4 DEF TypeInv
<1>4. Begun
  BY <1>2 DEF Init, Begun, a, Before
<1>5. Producing /\ Unread
  BY DEF Init, Producing, Over, Unread
<1> QED BY <1>3, <1>4, <1>5

\* What a step does to the request: nothing.
LEMMA SameCall ==
  ASSUME [Next]_vars
  PROVE  call' = call /\ a' = a /\ (stream' <=> stream)
<1>1. call' = call
  BY DEF Next, vars, ConvertText, ConvertEmbedding, ConvertOther, Converts, ConvertFails, DoRequestFails, DoRequest,
         ReadItem, StreamRefused, EndOfStream, ClientLeaves, StreamLeft, Connect, ProducerReads, Receive, ReceiveStop,
         ReadBody, TaskAccepted, PollAgain, Wake, TaskFails, TaskStreams, TaskImages, Settle, Finished
<1> QED BY <1>1 DEF a, stream

LEMMA CallIs ==
  ASSUME TypeInv
  PROVE  /\ a \in Streaming \cup {"xunfei", "palm", "deepl", "proxy"}
         /\ stream => a \in Streaming \cup {"xunfei", "palm", "deepl"}
         /\ call.mode = "text" => a \in (Streaming \ {"completions"}) \cup {"xunfei", "palm", "deepl"}
         /\ call.mode = "embedding" => a \in {"openai", "gemini", "baidu", "tencent", "zhipu", "ali", "ollama"}
         /\ call.mode = "image" => a \in {"openai", "ali", "replicate"}
         /\ call.mode = "proxy" => a = "proxy"
         /\ call.mode \in {"stream", "text", "embedding", "image", "proxy"}
  BY DEF TypeInv, Calls, a, stream, Streaming

\* What the body of an answer comes to.
BodySound(b, o) ==
  /\ o.result \in ResultType /\ o.out \in Seq(Int)
  /\ o.result.err # "none" => o.out = <<>> \/ b.fault = "write" \/ (b.fault = "read" /\ a = "proxy")
  /\ stream => StreamOf(a, b, o) /\ a \in MadeOfBody

LEMMA BodyIs ==
  ASSUME TypeInv, Begun, pc = "body", ~Task, NEW b \in Bodies
  PROVE  BodySound(b, BodyHandler(b))
<1> DEFINE o == BodyHandler(b)
<1> SUFFICES BodySound(b, o)
  OBVIOUS
<1>1. a # "xunfei" /\ a # "replicate" /\ (stream => a \in MadeOfBody)
  BY DEF Begun, Task
<1>2. CASE call.mode = "stream"
  <2>1. a \in MadeOfBody /\ stream
    BY <1>1, <1>2 DEF stream
  <2>2. a = "palm" => o = PalmStreamHandler(b)
    BY <1>2 DEF BodyHandler
  <2>3. a = "deepl" => o = DeeplStreamHandler(b)
    BY <1>2 DEF BodyHandler
  <2>4. StreamOf(a, b, o)
    BY <2>1, <2>2, <2>3, BodyStreamIs DEF MadeOfBody
  <2> HIDE DEF o
  <2> QED BY <2>1, <2>4 DEF StreamOf, Sound, BodySound
<1>3. CASE call.mode = "text"
  <2>1. o = TextHandler(a, b) /\ ~stream
    BY <1>3 DEF BodyHandler, stream
  <2>2. Sound(b, TextHandler(a, b))
    BY <1>1, <1>3, CallIs, TextIs
  <2> HIDE DEF o
  <2> QED BY <2>1, <2>2 DEF Sound, BodySound
<1>4. CASE call.mode = "embedding"
  <2>1. o = EmbeddingHandler(a, b) /\ ~stream
    BY <1>4 DEF BodyHandler, stream
  <2>2. Sound(b, EmbeddingHandler(a, b))
    BY <1>1, <1>4, CallIs, EmbeddingIs
  <2> HIDE DEF o
  <2> QED BY <2>1, <2>2 DEF Sound, BodySound
<1>5. CASE call.mode = "image"
  <2>1. o = OpenaiImage(b) /\ ~stream
    BY <1>5 DEF BodyHandler, stream
  <2>2. Sound(b, OpenaiImage(b))
    BY ImageIs
  <2> HIDE DEF o
  <2> QED BY <2>1, <2>2 DEF Sound, BodySound
<1>6. CASE call.mode = "proxy"
  <2>1. o = ProxyHandler(b) /\ ~stream /\ a = "proxy"
    BY <1>6, CallIs DEF BodyHandler, stream
  <2> HIDE DEF o
  <2> QED BY <2>1, ProxyIs DEF BodySound
<1> QED BY <1>2, <1>3, <1>4, <1>5, <1>6, CallIs

\* Steps that leave alone what is read and rendered, and what they may do besides.
Aside ==
  /\ s' = s /\ said' = said /\ producer' = producer /\ gone' = gone
  /\ \/ /\ pc = "start" /\ pc' = "converted" /\ result' = result /\ fault' = fault /\ bill' = bill
     \/ /\ pc = "converted" /\ pc' = "end" /\ result' \in {Failed, Crashed} /\ fault' = fault /\ LeaveHold
     \/ /\ pc \in {"converted", "connecting", "body", "polling"} /\ pc' = "returned" /\ result' = Failed
        /\ fault' = fault /\ bill' = bill
     \/ /\ pc = "reading" /\ pc' = "returned" /\ result' = Failed /\ said = <<>> /\ a \in ByGin /\ ~gone
        /\ fault' = fault /\ bill' = bill
     \/ /\ pc = "converted" /\ result' = result /\ fault' = fault /\ bill' = bill
        /\ \/ a = "xunfei" /\ pc' = "connecting"
           \/ a # "xunfei" /\ stream /\ a \notin MadeOfBody \cup {"replicate"} /\ pc' = "reading"
           \/ a # "xunfei" /\ (stream => a \in MadeOfBody \cup {"replicate"}) /\ pc' = "body"
     \/ /\ pc \in {"body", "polling", "sleeping"} /\ pc' \in {"polling", "sleeping"} /\ Task
        /\ result' = result /\ fault' = fault /\ bill' = bill
     \/ /\ pc = "polling" /\ pc' = "reading" /\ a = "replicate" /\ stream
        /\ result' = result /\ fault' = fault /\ bill' = bill

LEMMA IsAside ==
  ASSUME TypeInv, Begun, 
         ConvertText \/ ConvertEmbedding \/ ConvertOther \/ ConvertFails \/ DoRequestFails \/ DoRequest \/ StreamRefused
         \/ (Connect /\ producer' = producer) \/ TaskAccepted \/ PollAgain \/ Wake \/ TaskFails \/ TaskStreams
  PROVE  Aside
<1>1. CASE ConvertText \/ ConvertEmbedding \/ ConvertOther
  <2>1. PICK request : Converts(request)
    BY <1>1 DEF ConvertText, ConvertEmbedding, ConvertOther
  <2> QED BY <2>1 DEF Converts, Aside, handling
<1>2. CASE ConvertFails
  BY <1>2 DEF ConvertFails, Aside, handling
<1>3. CASE DoRequestFails
  BY <1>3 DEF DoRequestFails, Aside, handling
<1>4. CASE DoRequest
  <2>1. s' = s /\ said' = said /\ producer' = producer /\ gone' = gone /\ fault' = fault /\ bill' = bill /\ pc = "converted"
    BY <1>4 DEF DoRequest, handling
  <2>2. CASE result' = Failed /\ pc' = "returned"
    BY <2>1, <2>2 DEF Aside
  <2>3. CASE /\ result' = result
             /\ pc' = CASE a = "xunfei" -> "connecting"
                        [] stream /\ a \notin {"xunfei", "replicate", "palm", "deepl"} -> "reading"
                        [] OTHER -> "body"
    <3>1. \/ a = "xunfei" /\ pc' = "connecting"
          \/ a # "xunfei" /\ stream /\ a \notin MadeOfBody \cup {"replicate"} /\ pc' = "reading"
          \/ a # "xunfei" /\ (stream => a \in MadeOfBody \cup {"replicate"}) /\ pc' = "body"
      <4>1. CASE a = "xunfei"
        BY <2>3, <4>1
      <4>2. CASE a # "xunfei" /\ stream /\ a \notin {"replicate", "palm", "deepl"}
        <5>1. pc' = "reading"
          BY <2>3, <4>2
        <5> QED BY <4>2, <5>1 DEF MadeOfBody
      <4>3. CASE a # "xunfei" /\ ~(stream /\ a \notin {"replicate", "palm", "deepl"})
        <5>1. pc' = "body"
          BY <2>3, <4>3
        <5> QED BY <4>3, <5>1 DEF MadeOfBody
      <4> QED BY <4>1, <4>2, <4>3
    <3> QED BY <2>1, <2>3, <3>1 DEF Aside
  <2> QED BY <1>4, <2>2, <2>3 DEF DoRequest
<1>5. CASE StreamRefused
  BY <1>5 DEF StreamRefused, Aside, handling
<1>6. CASE Connect /\ producer' = producer
  BY <1>6 DEF Connect, Aside, Begun, Before
<1>7. CASE TaskAccepted
  BY <1>7 DEF TaskAccepted, Aside, handling
<1>8. CASE PollAgain
  BY <1>8 DEF PollAgain, Aside, Begun
<1>9. CASE Wake
  BY <1>9 DEF Wake, Aside, Begun, handling
<1>10. CASE TaskFails
  BY <1>10 DEF TaskFails, Aside, handling
<1>11. CASE TaskStreams
  BY <1>11 DEF TaskStreams, Aside, handling
<1> QED BY <1>1, <1>2, <1>3, <1>4, <1>5, <1>6, <1>7, <1>8, <1>9, <1>10, <1>11

-----------------------------------------------------------------------------
(* What the other steps make of the locals. *)

LEMMA AfterLoopIs ==
  ASSUME NEW ad, NEW l \in LocalsType
  PROVE  /\ AfterLoop(ad, l) \in LocalsType /\ AfterLoop(ad, l).text = l.text /\ AfterLoop(ad, l).usage = l.usage
         /\ AfterLoop(ad, l).ended = l.ended /\ AfterLoop(ad, l).done = l.done
         /\ l.ended = "stop" \/ l.done => AfterLoop(ad, l).out = l.out
         /\ l.ended # "stop" /\ ~l.done =>
              AfterLoop(ad, l).out = Append(IF ad = "aiproxy" THEN Append(l.out, Documents) ELSE l.out, Done)
<1>1. CASE l.ended = "stop" \/ l.done
  BY <1>1 DEF AfterLoop
<1>2. CASE ~(l.ended = "stop" \/ l.done) /\ ad = "aiproxy"
  <2> DEFINE m == Render(l, Documents)
  <2>1. m \in LocalsType /\ m.out = Append(l.out, Documents) /\ m.text = l.text /\ m.usage = l.usage
        /\ m.ended = l.ended /\ m.done = l.done
    <3>1. Documents \in Int
      BY DEF Documents
    <3> QED BY <3>1, RenderIs, Zenon
  <2>2. AfterLoop(ad, l) = Render(m, Done)
    BY <1>2, Zenon DEF AfterLoop
  <2>3. m \in LocalsType
    BY <2>1
  <2> HIDE DEF m
  <2> QED BY <1>2, <2>1, <2>2, <2>3, MarkIs, Zenon
<1>3. CASE ~(l.ended = "stop" \/ l.done) /\ ad # "aiproxy"
  <2>1. AfterLoop(ad, l) = Render(l, Done)
    BY <1>3, Zenon DEF AfterLoop
  <2> QED BY <1>3, <2>1, MarkIs, Zenon
<1> QED BY <1>1, <1>2, <1>3, Zenon

LEMMA StreamUsageTyped ==
  ASSUME NEW ad, NEW l \in LocalsType
  PROVE  StreamUsage(ad, l) \in UsageType
<1>1. l.usage \in UsageType /\ l.text \in Nat
  BY DEF LocalsType
<1>2. OpenaiUsage(l) \in UsageType
  <2> DEFINE u == IF l.usage = NoUsage \/ l.usage.total = 0 THEN ResponseText2Usage(l.text) ELSE l.usage
  <2>1. u \in UsageType
    BY <1>1, UsageTypes
  <2>2. OpenaiUsage(l) = IF u.total # 0 /\ u.prompt = 0
          THEN [u EXCEPT !.prompt = PromptTokens, !.completion = u.total - PromptTokens] ELSE u
    BY DEF OpenaiUsage
  <2> HIDE DEF u
  <2>3. [u EXCEPT !.prompt = PromptTokens, !.completion = u.total - PromptTokens] \in UsageType
    <3>1. PromptTokens \in Int /\ u.total - PromptTokens \in Int
      BY <2>1, HandlerAssumption DEF UsageType
    <3> QED BY <2>1, <3>1 DEF UsageType
  <2> QED BY <2>1, <2>2, <2>3, Zenon
<1>3. CASE ad \in {"openai", "completions"}
  <2>1. StreamUsage(ad, l) = OpenaiUsage(l)
    BY <1>3 DEF StreamUsage, Counting
  <2> QED BY <1>2, <2>1
<1>4. CASE ad \in Counting
  <2>1. StreamUsage(ad, l) = ResponseText2Usage(l.text)
    BY <1>4 DEF StreamUsage, Counting
  <2> QED BY <1>1, <2>1, UsageTypes
<1>5. CASE ad \notin Counting \cup {"openai", "completions"}
  <2>1. StreamUsage(ad, l) = l.usage
    BY <1>5 DEF StreamUsage
  <2> QED BY <1>1, <2>1
<1> QED BY <1>3, <1>4, <1>5

\* What the handlers of xunfei do with a message: with a stream it is rendered and its
\* report added, without one only text counts.
LEMMA XunfeiIs ==
  ASSUME NEW l \in LocalsType, NEW item \in ItemType, NEW i \in Int
  PROVE  /\ XunfeiItem(l, item, i) \in LocalsType /\ XunfeiPlainItem(l, item) \in LocalsType
         /\ XunfeiItem(l, item, i).out = Append(l.out, i) /\ XunfeiItem(l, item, i).done = l.done
         /\ XunfeiItem(l, item, i).text = l.text /\ XunfeiItem(l, item, i).ended = l.ended
         /\ XunfeiItem(l, item, i).usage.completion = l.usage.completion + item.rep.completion
         /\ XunfeiPlainItem(l, item).out = l.out /\ XunfeiPlainItem(l, item).ended = l.ended
<1>1. item.rep \in UsageType /\ l.usage \in UsageType
  BY DEF ItemType, UsageType, LocalsType
<1> DEFINE u == [Add(l.usage, item.rep) EXCEPT !.total = l.usage.total + item.rep.total]
           p == Add(l.usage, item.rep)
<1>2. p \in UsageType /\ u \in UsageType /\ u.completion = l.usage.completion + item.rep.completion
  BY <1>1 DEF Add, UsageType
<1>3. /\ XunfeiItem(l, item, i) \in LocalsType /\ XunfeiItem(l, item, i).out = Append(l.out, i)
      /\ XunfeiItem(l, item, i).done = l.done /\ XunfeiItem(l, item, i).text = l.text
      /\ XunfeiItem(l, item, i).ended = l.ended
      /\ XunfeiItem(l, item, i).usage = u
  <2>1. XunfeiItem(l, item, i) = Render([l EXCEPT !.usage = u], i)
    BY DEF XunfeiItem
  <2>2. u \in UsageType
    BY <1>2
  <2> HIDE DEF u
  <2> DEFINE m == [l EXCEPT !.usage = u]
  <2>3. m \in LocalsType /\ m.out = l.out /\ m.done = l.done /\ m.text = l.text /\ m.ended = l.ended /\ m.usage = u
    BY <2>2, MeteredIs, Zenon
  <2>4. m \in LocalsType
    BY <2>3
  <2>5. XunfeiItem(l, item, i) = Render(m, i)
    BY <2>1
  <2> HIDE DEF m
  <2>6. /\ Render(m, i) \in LocalsType /\ Render(m, i).out = Append(m.out, i) /\ Render(m, i).done = m.done
        /\ Render(m, i).text = m.text /\ Render(m, i).usage = m.usage /\ Render(m, i).ended = m.ended
    BY <2>4, RenderIs, Zenon
  <2> QED BY <2>3, <2>5, <2>6, Zenon
<1>4. /\ XunfeiPlainItem(l, item) \in LocalsType
      /\ XunfeiPlainItem(l, item).out = l.out /\ XunfeiPlainItem(l, item).ended = l.ended
  <2> DEFINE c == Collect(l, item)
             m == [c EXCEPT !.usage = Add(@, item.rep)]
  <2>1. c \in LocalsType /\ c.out = l.out /\ c.ended = l.ended /\ c.usage = l.usage
    BY CollectIs, Zenon
  <2>2. XunfeiPlainItem(l, item) = IF HasText(item) THEN m ELSE l
    BY DEF XunfeiPlainItem
  <2> HIDE DEF c
  <2>3. m = [c EXCEPT !.usage = p]
    BY <2>1
  <2>4. m \in LocalsType /\ m.out = c.out /\ m.ended = c.ended
    <3> HIDE DEF p
    <3>1. c \in LocalsType /\ p \in UsageType
      BY <1>2, <2>1, Zenon
    <3> QED BY <2>3, <3>1, MeteredIs, Zenon
  <2> HIDE DEF m
  <2> QED BY <2>1, <2>2, <2>4, Zenon
<1> QED BY <1>2, <1>3, <1>4, Zenon

LEMMA ResultIs ==
  ASSUME NEW u \in UsageType
  PROVE  Result("none", u) \in ResultType /\ Result("none", u).err = "none" /\ Result("none", u).usage = u
  BY DEF Result, ResultType

\* The steps of a handler that reads a stream itself.
LEMMA ReadItemIs ==
  ASSUME TypeInv, Begun, ReadItem
  PROVE  /\ stream /\ a \in Streaming /\ pc = "reading" /\ pc' = pc /\ s.ended = "no"
         /\ result' = result /\ fault' = fault /\ bill' = bill /\ producer' = producer /\ gone' = gone
         /\ \E item \in Items(Sends(a)) :
              /\ item \in ItemType /\ said' = Append(said, item)
              /\ Rendering(a, s, item, Len(said) + 1, s') /\ Metering(a, s, item, s')
<1>1. stream /\ a \in Streaming
  BY DEF ReadItem, Begun
<1>2. PICK item \in Items(Sends(a)) : said' = Append(said, item) /\ s' = DoItem(a, s, item, Len(said) + 1)
  BY DEF ReadItem
<1>3. s \in LocalsType /\ Len(said) + 1 \in Int
  BY DEF TypeInv
<1>4. Rendering(a, s, item, Len(said) + 1, s') /\ Metering(a, s, item, s')
  BY <1>1, <1>2, <1>3, ItemEffect
<1>5. item \in ItemType
  BY <1>1, <1>2, ItemIs
<1> QED BY <1>1, <1>2, <1>4, <1>5 DEF ReadItem

LEMMA EndOfStreamIs ==
  ASSUME TypeInv, Begun, EndOfStream
  PROVE  /\ stream /\ a \in Streaming /\ pc = "reading" /\ pc' = "returned"
         /\ said' = said /\ bill' = bill /\ producer' = producer /\ gone' = gone
         /\ \/ fault' = "cut" /\ a = "replicate" /\ s.ended = "no" /\ s' = s /\ result' = Failed
            \/ fault' = "close" /\ s' = AfterLoop(a, s) /\ result' = Failed
            \/ s' = AfterLoop(a, s) /\ result' = Result("none", StreamUsage(a, s))
<1>1. /\ stream /\ a \in Streaming /\ pc = "reading" /\ pc' = "returned"
      /\ said' = said /\ bill' = bill /\ producer' = producer /\ gone' = gone
  BY DEF EndOfStream, Begun
<1>2. PICK how : /\ how \in {"none"} \cup (IF s.ended = "no" THEN {"cut"} ELSE {}) \cup
                          (IF a \notin Unclosed THEN {"close"} ELSE {})
                 /\ fault' = how
                 /\ s' = IF how = "cut" /\ a = "replicate" THEN s ELSE AfterLoop(a, s)
                 /\ result' = IF how = "close" \/ (how = "cut" /\ a = "replicate") THEN Failed
                              ELSE Result("none", StreamUsage(a, s))
  BY DEF EndOfStream
<1>3. CASE how = "close"
  BY <1>1, <1>2, <1>3
<1>4. CASE how = "cut" /\ a = "replicate"
  BY <1>1, <1>2, <1>4
<1>5. CASE how # "close" /\ ~(how = "cut" /\ a = "replicate")
  BY <1>1, <1>2, <1>5
<1> QED BY <1>3, <1>4, <1>5

\* The steps of xunfei's goroutine and of the handler that takes its messages.
LEMMA ProducerReadsIs ==
  ASSUME TypeInv, Begun, Producing, ProducerReads
  PROVE  /\ a = "xunfei" /\ producer = "reading" /\ pc' = pc /\ s' = s /\ result' = result /\ fault' = fault
         /\ bill' = bill /\ gone' = gone
         /\ \/ producer' = "stopping" /\ said' = said
            \/ \E item \in Items(Sends(a)) : /\ item \in ItemType /\ item.kind \notin {"noise", "bad"}
                                             /\ producer' = "sending" /\ said' = Append(said, item)
<1>1. a = "xunfei"
  BY DEF ProducerReads, Producing
<1>2. \A item \in Items(Sends(a)) : item \in ItemType
  BY <1>1, ItemIs
<1> QED BY <1>1, <1>2 DEF ProducerReads

LEMMA ReceiveIs ==
  ASSUME TypeInv, Begun, Producing, Receive
  PROVE  /\ a = "xunfei" /\ producer = "sending" /\ pc = "reading" /\ pc' = pc /\ said' = said /\ said # <<>>
         /\ result' = result /\ fault' = fault /\ bill' = bill /\ gone' = gone
         /\ producer' \in {"reading", "stopping"}
         /\ stream => s' = XunfeiItem(s, said[Len(said)], Len(said))
         /\ ~stream => s' = XunfeiPlainItem(s, said[Len(said)])
         /\ said[Len(said)] \in ItemType /\ Len(said) \in Nat \ {0}
<1>1. a = "xunfei" /\ said # <<>>
  BY DEF Receive, Producing
<1>2. Last(said) = said[Len(said)]
  BY DEF Last
<1>3. said[Len(said)] \in ItemType /\ Len(said) \in Nat \ {0}
  BY <1>1 DEF TypeInv
<1> QED BY <1>1, <1>2, <1>3 DEF Receive

LEMMA ReceiveStopIs ==
  ASSUME TypeInv, Begun, Producing, ReceiveStop
  PROVE  /\ a = "xunfei" /\ producer = "stopping" /\ pc = "reading" /\ pc' = "returned" /\ said' = said
         /\ fault' = fault /\ bill' = bill /\ gone' = gone /\ producer' = "ended"
         /\ stream => s' = Render(s, Done) /\ result' = Result("none", s.usage)
         /\ ~stream => \/ s' = Render(s, 1) /\ result' = Result("none", s.usage)
                       \/ s' = s /\ result' = Failed
<1>1. a = "xunfei"
  BY DEF ReceiveStop, Producing
<1>2. CASE stream
  BY <1>1, <1>2 DEF ReceiveStop
<1>3. CASE ~stream /\ said # <<>> /\ HasText(Last(said))
  BY <1>1, <1>3 DEF ReceiveStop
<1>4. CASE ~stream /\ ~(said # <<>> /\ HasText(Last(said)))
  BY <1>1, <1>4 DEF ReceiveStop
<1> QED BY <1>2, <1>3, <1>4

LEMMA StreamLeftIs ==
  ASSUME TypeInv, Begun, StreamLeft
  PROVE  /\ stream /\ gone /\ a \in ByGin \cup {"xunfei"} /\ pc = "reading" /\ pc' = "returned" /\ s.ended = "no"
         /\ s' = s /\ said' = said /\ producer' = producer /\ gone' = gone /\ fault' = fault /\ bill' = bill
         /\ result' = Result("none", StreamUsage(a, s))
  BY DEF StreamLeft, handling

\* A body and the images of a task are handled in one step.
LEMMA ReadBodyIs ==
  ASSUME TypeInv, Begun, ReadBody
  PROVE  /\ pc = "body" /\ pc' = "returned" /\ said' = said /\ producer' = producer /\ gone' = gone /\ bill' = bill
         /\ \E b \in Bodies : \E o :
              /\ BodySound(b, o) /\ result' = o.result /\ fault' = b.fault /\ b.text \in Nat
              /\ s' \in LocalsType /\ s'.out = o.out /\ s'.text = b.text
<1>1. PICK b \in Bodies : /\ fault' = b.fault /\ result' = BodyHandler(b).result
                          /\ s' = [s EXCEPT !.out = BodyHandler(b).out, !.text = b.text]
  BY DEF ReadBody
<1> DEFINE o == BodyHandler(b)
<1>2. BodySound(b, o) /\ result' = o.result /\ s' = [s EXCEPT !.out = o.out, !.text = b.text]
  BY <1>1, BodyIs DEF ReadBody
<1>3. b.text \in Nat
  BY DEF Bodies
<1> HIDE DEF o
<1>4. s' \in LocalsType /\ s'.out = o.out /\ s'.text = b.text
  BY <1>2, <1>3 DEF TypeInv, LocalsType, BodySound
<1> QED BY <1>1, <1>2, <1>3, <1>4 DEF ReadBody

LEMMA TaskImagesIs ==
  ASSUME TypeInv, Begun, TaskImages
  PROVE  /\ pc = "polling" /\ ~stream /\ pc' = "returned" /\ said' = said /\ producer' = producer /\ gone' = gone
         /\ bill' = bill /\ fault' = fault
         /\ \/ result' = Failed /\ s' = s
            \/ result' = result /\ s' \in LocalsType /\ s'.ended = s.ended
<1>1. /\ pc = "polling" /\ ~stream /\ pc' = "returned" /\ said' = said /\ producer' = producer /\ gone' = gone
      /\ bill' = bill /\ fault' = fault
  BY DEF TaskImages, stream
<1>2. PICK got \in 0..2 : IF got = 0 /\ a = "replicate" THEN result' = Failed /\ s' = s
                           ELSE s' = [Render(s, 1) EXCEPT !.text = got] /\ result' = result
  BY DEF TaskImages
<1> DEFINE m == Render(s, 1)
<1>3. m \in LocalsType /\ m.ended = s.ended
  BY RenderIs DEF TypeInv
<1> HIDE DEF m
<1>4. [m EXCEPT !.text = got] \in LocalsType /\ [m EXCEPT !.text = got].ended = m.ended
  BY <1>3 DEF LocalsType
<1>5. CASE got = 0 /\ a = "replicate"
  BY <1>1, <1>2, <1>5
<1>6. CASE ~(got = 0 /\ a = "replicate")
  BY <1>1, <1>2, <1>3, <1>4, <1>6 DEF m
<1> QED BY <1>5, <1>6

-----------------------------------------------------------------------------
(* Where a request may be. *)

LEMMA PlacesStep ==
  ASSUME TypeInv, Begun, Producing, Unread, [Next]_vars
  PROVE  TypeInv' /\ Begun' /\ Producing' /\ Unread'
<1>0. /\ call' = call /\ a' = a /\ (stream' <=> stream)
      /\ Task' <=> Task
  BY SameCall DEF Task
<1> DEFINE Types == /\ pc' \in {"start", "converted", "connecting", "body", "polling", "sleeping", "reading", "returned", "end"}
                    /\ said' \in Seq(ItemType) /\ s' \in LocalsType
                    /\ producer' \in {"none", "reading", "sending", "stopping", "ended"}
                    /\ gone' \in BOOLEAN /\ result' \in ResultType
                    /\ bill' \in [state : {"none", "held", "left", "returned", "settled"}, amount : Int]
<1>1. CASE Aside
  <2>1. Types
    <3>1. s' \in LocalsType /\ said' \in Seq(ItemType) /\ gone' \in BOOLEAN
          /\ producer' \in {"none", "reading", "sending", "stopping", "ended"}
      BY <1>1 DEF Aside, TypeInv
    <3>2. result' \in ResultType
      BY <1>1, Values DEF Aside, TypeInv
    <3>3. bill' \in [state : {"none", "held", "left", "returned", "settled"}, amount : Int]
      BY <1>1 DEF Aside, TypeInv, LeaveHold
    <3>4. pc' \in {"start", "converted", "connecting", "body", "polling", "sleeping", "reading", "returned", "end"}
      BY <1>1 DEF Aside
    <3> QED BY <3>1, <3>2, <3>3, <3>4
  <2>2. Begun'
    <3>1. pc' \in Before => pc \in Before /\ result' = result /\ fault' = fault
      BY <1>1 DEF Aside, Before
    <3>2. pc' \in Before => /\ s' = Locals(InitialUsage(a')) /\ said' = <<>> /\ producer' = "none" /\ gone' = FALSE
                            /\ result'.err = "none" /\ fault' = "none"
      BY <1>0, <1>1, <3>1, Zenon DEF Aside, Begun
    <3>3. pc' = "connecting" => a = "xunfei"
      BY <1>1 DEF Aside
    <3>4. pc' = "body" => a # "xunfei" /\ (stream => a \in MadeOfBody \cup {"replicate"})
      BY <1>1 DEF Aside
    <3>5. pc' \in {"polling", "sleeping"} => Task
      BY <1>1 DEF Aside
    <3>6. pc' = "reading" => result'.err = "none" /\ fault' = "none" /\ (a = "xunfei" \/ (stream /\ a \in Streaming))
      <4>1. pc' = "reading" => /\ pc \in Before /\ result' = result /\ fault' = fault
                               /\ stream /\ a \notin {"xunfei"} \cup MadeOfBody
        BY <1>1 DEF Aside, Before, MadeOfBody
      <4>2. stream /\ a \notin {"xunfei"} \cup MadeOfBody => a \in Streaming
        BY CallIs DEF MadeOfBody
      <4> QED BY <4>1, <4>2, Zenon DEF Begun
    <3> QED BY <1>0, <3>2, <3>3, <3>4, <3>5, <3>6, Zenon DEF Begun
  <2>3. Producing'
    <3>1. pc \in Before => producer = "none"
      BY DEF Begun
    <3>2. pc' \in Over => producer' = "none"
      <4>1. pc \in {"start", "converted", "connecting", "body", "polling", "sleeping"} \/ a \in ByGin
        BY <1>1 DEF Aside
      <4>2. a \in ByGin => a # "xunfei"
        BY DEF ByGin
      <4>3. producer' = producer
        BY <1>1 DEF Aside
      <4> QED BY <3>1, <4>1, <4>2, <4>3 DEF Producing, Before
    <3>3. pc' = "reading" => a # "xunfei"
      BY <1>1, CallIs DEF Aside
    <3>4. producer' = producer /\ said' = said /\ gone' = gone
      BY <1>1 DEF Aside
    <3> QED BY <1>0, <3>2, <3>3, <3>4 DEF Producing
  <2>4. Unread'
    BY <1>0, <1>1 DEF Aside, Unread
  <2> QED BY <1>0, <2>1, <2>2, <2>3, <2>4 DEF TypeInv
<1>2. ASSUME pc = "reading", pc' = "reading", result' = result, fault' = fault, bill' = bill,
             s' \in LocalsType, said' \in Seq(ItemType), gone' \in BOOLEAN, gone' => stream,
             producer' \in {"none", "reading", "sending", "stopping", "ended"},
             a # "xunfei" => producer' = "none",
             a = "xunfei" => producer' \in {"reading", "sending", "stopping"},
             producer' = "sending" => said' # <<>>
      PROVE  TypeInv' /\ Begun' /\ Producing' /\ Unread'
  <2>1. TypeInv'
    BY <1>0, <1>2 DEF TypeInv
  <2>2. Begun'
    BY <1>0, <1>2 DEF Begun, Before
  <2>3. Producing'
    BY <1>0, <1>2 DEF Producing, Over
  <2>4. Unread'
    <3>1. a \notin MadeOfBody
      BY <1>2 DEF Begun, MadeOfBody, Streaming
    <3> QED BY <1>0, <3>1 DEF Unread
  <2> QED BY <2>1, <2>2, <2>3, <2>4
<1>3. ASSUME pc' \in Over, said' = said, s' \in LocalsType, result' \in ResultType,
             bill' \in [state : {"none", "held", "left", "returned", "settled"}, amount : Int],
             gone' = gone, producer' \in {"none", "ended"} \/ (producer' = producer /\ stream /\ gone),
             a # "xunfei" => producer' = producer
      PROVE  TypeInv' /\ Begun' /\ Producing' /\ Unread'
  <2>1. TypeInv'
    BY <1>0, <1>3 DEF TypeInv, Over
  <2>2. Begun'
    BY <1>3 DEF Begun, Before, Over
  <2>3. Producing'
    BY <1>0, <1>3 DEF Producing, Over
  <2>4. Unread'
    BY <1>0, <1>3 DEF Unread
  <2> QED BY <2>1, <2>2, <2>3, <2>4
<1>4. CASE ReadItem
  <2>1. PICK item \in Items(Sends(a)) : /\ item \in ItemType /\ said' = Append(said, item)
                                        /\ Rendering(a, s, item, Len(said) + 1, s')
    BY <1>4, ReadItemIs
  <2>2. s' \in LocalsType /\ said' \in Seq(ItemType)
    BY <2>1 DEF Rendering, TypeInv
  <2>3. /\ pc = "reading" /\ pc' = pc /\ result' = result /\ fault' = fault /\ bill' = bill
        /\ producer' = producer /\ gone' = gone /\ a # "xunfei"
    BY <1>4, ReadItemIs DEF ReadItem
  <2>4. /\ gone' \in BOOLEAN /\ (gone' => stream) /\ producer' = "none"
    BY <2>3 DEF TypeInv, Producing
  <2> QED BY <1>2, <2>2, <2>3, <2>4
<1>5. CASE EndOfStream
  <2>1. result' \in ResultType /\ s' \in LocalsType
    <3>1. s \in LocalsType
      BY DEF TypeInv
    <3>2. StreamUsage(a, s) \in UsageType /\ AfterLoop(a, s) \in LocalsType
      BY <3>1, StreamUsageTyped, AfterLoopIs, Zenon
    <3>3. Result("none", StreamUsage(a, s)) \in ResultType
      BY <3>2, ResultIs, Zenon
    <3> QED BY <1>5, <3>1, <3>2, <3>3, EndOfStreamIs, Values
  <2>2. /\ pc' \in Over /\ said' = said /\ bill' = bill /\ gone' = gone /\ producer' = producer /\ a # "xunfei"
    BY <1>5, EndOfStreamIs DEF Over, EndOfStream
  <2>3. bill' \in [state : {"none", "held", "left", "returned", "settled"}, amount : Int] /\ producer' = "none"
    BY <2>2 DEF TypeInv, Producing
  <2> QED BY <1>3, <2>1, <2>2, <2>3
<1>6. CASE ClientLeaves
  <2>1. /\ pc = "reading" /\ pc' = "reading" /\ result' = result /\ fault' = fault /\ bill' = bill /\ s' = s
        /\ said' = said /\ gone' = TRUE /\ stream /\ producer' = producer
    BY <1>6 DEF ClientLeaves
  <2>2. s' \in LocalsType /\ said' \in Seq(ItemType) /\ producer' \in {"none", "reading", "sending", "stopping", "ended"}
    BY <2>1 DEF TypeInv
  <2>3. (producer' = "sending" => said' # <<>>) /\ (a # "xunfei" => producer' = "none")
        /\ (a = "xunfei" => producer' \in {"reading", "sending", "stopping"})
    BY <2>1 DEF Producing
  <2> QED BY <1>2, <2>1, <2>2, <2>3
<1>7. CASE StreamLeft
  <2>1. s' \in LocalsType /\ result' \in ResultType
        /\ bill' \in [state : {"none", "held", "left", "returned", "settled"}, amount : Int]
    <3>1. s \in LocalsType /\ s' = s /\ result' = Result("none", StreamUsage(a, s)) /\ bill' = bill
      BY <1>7, StreamLeftIs DEF TypeInv
    <3>2. StreamUsage(a, s) \in UsageType
      BY <3>1, StreamUsageTyped
    <3> QED BY <3>1, <3>2, ResultIs DEF TypeInv
  <2>2. /\ pc' \in Over /\ said' = said /\ gone' = gone /\ producer' = producer /\ stream /\ gone
    BY <1>7, StreamLeftIs DEF Over
  <2> QED BY <1>3, <2>1, <2>2
<1>8. CASE Connect /\ producer' # producer
  <2>1. /\ pc = "connecting" /\ producer' = "reading" /\ pc' = "reading" /\ result' = result /\ said' = said /\ s' = s
        /\ gone' = gone /\ fault' = fault /\ bill' = bill
    BY <1>8 DEF Connect
  <2>2. a = "xunfei" /\ result.err = "none" /\ fault = "none" /\ gone = FALSE
    BY <2>1 DEF Begun, Before
  <2>3. TypeInv'
    BY <1>0, <2>1 DEF TypeInv
  <2>4. Begun'
    BY <1>0, <2>1, <2>2 DEF Begun, Before
  <2>5. Producing'
    BY <1>0, <2>1, <2>2 DEF Producing, Over
  <2>6. Unread'
    BY <1>0, <2>1 DEF Unread
  <2> QED BY <2>3, <2>4, <2>5, <2>6
<1>9. CASE ProducerReads
  <2>1. /\ a = "xunfei" /\ producer = "reading" /\ pc' = pc /\ s' = s /\ result' = result /\ fault' = fault
        /\ bill' = bill /\ gone' = gone
        /\ producer' \in {"stopping", "sending"} /\ said' \in Seq(ItemType)
        /\ producer' = "sending" => said' # <<>>
    BY <1>9, ProducerReadsIs DEF TypeInv
  <2>2. /\ s' \in LocalsType /\ gone' \in BOOLEAN /\ (gone' => stream) /\ result' \in ResultType
        /\ bill' \in [state : {"none", "held", "left", "returned", "settled"}, amount : Int]
    BY <2>1 DEF TypeInv, Producing
  <2>3. CASE pc = "reading"
    BY <1>2, <2>1, <2>2, <2>3
  <2>4. CASE pc # "reading"
    <3>1. pc \notin Before
      BY <2>1 DEF Begun
    <3>2. pc \in Over
      BY <2>4, <3>1 DEF TypeInv, Before, Over
    <3>3. stream /\ gone
      BY <2>1, <3>2 DEF Producing
    <3>4. TypeInv'
      BY <1>0, <2>1, <2>2 DEF TypeInv
    <3>5. Begun'
      BY <2>1, <3>2 DEF Begun, Before, Over
    <3>6. Producing'
      BY <1>0, <2>1, <2>4, <3>3 DEF Producing
    <3>7. Unread'
      BY <1>0, <2>1 DEF Unread, MadeOfBody
    <3> QED BY <3>4, <3>5, <3>6, <3>7
  <2> QED BY <2>3, <2>4
<1>10. CASE Receive
  <2>1. /\ a = "xunfei" /\ pc = "reading" /\ pc' = pc /\ said' = said /\ result' = result /\ fault' = fault
        /\ bill' = bill /\ gone' = gone /\ producer' \in {"reading", "stopping"}
    BY <1>10, ReceiveIs
  <2>2. s' \in LocalsType
    <3>1. said[Len(said)] \in ItemType /\ Len(said) \in Int /\ s \in LocalsType
      BY <1>10, ReceiveIs DEF TypeInv
    <3>2. XunfeiItem(s, said[Len(said)], Len(said)) \in LocalsType /\ XunfeiPlainItem(s, said[Len(said)]) \in LocalsType
      BY <3>1, XunfeiIs, Zenon
    <3> QED BY <1>10, <3>2, ReceiveIs
  <2>3. said' \in Seq(ItemType) /\ gone' \in BOOLEAN /\ (gone' => stream)
    BY <2>1 DEF TypeInv, Producing
  <2> QED BY <1>2, <2>1, <2>2, <2>3
<1>11. CASE ReceiveStop
  <2>1. /\ pc' = "returned" /\ said' = said /\ bill' = bill /\ gone' = gone /\ producer' = "ended" /\ a = "xunfei"
    BY <1>11, ReceiveStopIs
  <2>2. s' \in LocalsType /\ result' \in ResultType
    <3>1. s \in LocalsType /\ s.usage \in UsageType
      BY DEF TypeInv, LocalsType
    <3>2. Render(s, Done) \in LocalsType /\ Render(s, 1) \in LocalsType /\ Result("none", s.usage) \in ResultType
      BY <3>1, RenderIs, MarkIs, ResultIs
    <3> QED BY <1>11, <3>1, <3>2, ReceiveStopIs, Values
  <2>3. bill' \in [state : {"none", "held", "left", "returned", "settled"}, amount : Int]
    BY <2>1 DEF TypeInv
  <2> QED BY <1>3, <2>1, <2>2, <2>3 DEF Over
<1>12. CASE ReadBody
  <2>1. /\ pc = "body" /\ pc' = "returned" /\ said' = said /\ producer' = producer /\ gone' = gone /\ bill' = bill
        /\ s' \in LocalsType
    BY <1>12, ReadBodyIs
  <2>2. result' \in ResultType
    BY <1>12, ReadBodyIs DEF BodySound
  <2>3. bill' \in [state : {"none", "held", "left", "returned", "settled"}, amount : Int]
        /\ producer' \in {"none", "ended"} /\ pc' \in Over
    BY <2>1 DEF TypeInv, Begun, Before, Over
  <2> QED BY <1>3, <2>1, <2>2, <2>3
<1>13. CASE TaskImages
  <2>1. /\ pc = "polling" /\ pc' = "returned" /\ said' = said /\ producer' = producer /\ gone' = gone /\ bill' = bill
    BY <1>13, TaskImagesIs
  <2>2. s' \in LocalsType /\ result' \in ResultType
    BY <1>13, TaskImagesIs, Values DEF TypeInv
  <2>3. bill' \in [state : {"none", "held", "left", "returned", "settled"}, amount : Int]
        /\ producer' \in {"none", "ended"} /\ pc' \in Over
    BY <2>1 DEF TypeInv, Begun, Before, Over
  <2> QED BY <1>3, <2>1, <2>2, <2>3
<1>14. CASE Settle
  <2>1. /\ pc = "returned" /\ pc' = "end" /\ said' = said /\ s' = s /\ producer' = producer /\ gone' = gone /\ result' = result
    BY <1>14 DEF Settle, handling
  <2>2. bill' \in [state : {"none", "held", "left", "returned", "settled"}, amount : Int]
    <3>1. result.usage \in UsageType
      BY DEF TypeInv, ResultType
    <3>2. Quota(result.usage) \in Int
      BY <3>1, AdaptorAssumption DEF Quota, UsageType
    <3>3. CASE ~Priced
      BY <1>14, <3>3 DEF Settle, TypeInv
    <3>4. CASE Priced /\ result.err = "error"
      BY <1>14, <3>4 DEF Settle, TypeInv
    <3>5. CASE Priced /\ result.err # "error" /\ (result.err = "panic" \/ result.usage = NoUsage)
      BY <1>14, <3>5 DEF Settle, TypeInv
    <3>6. CASE Priced /\ result.err # "error" /\ ~(result.err = "panic" \/ result.usage = NoUsage)
      <4>1. bill' = [state |-> "settled", amount |-> Quota(result.usage)]
        BY <1>14, <3>6 DEF Settle
      <4> QED BY <3>2, <4>1
    <3> QED BY <3>3, <3>4, <3>5, <3>6
  <2>3. s' \in LocalsType /\ result' \in ResultType
    BY <2>1 DEF TypeInv
  <2>4. producer' \in {"none", "ended"} \/ (producer' = producer /\ stream /\ gone)
    BY <2>1 DEF Producing, Over
  <2> QED BY <1>3, <2>1, <2>2, <2>3, <2>4 DEF Over
<1>15. CASE UNCHANGED vars
  <2>1. /\ pc' = pc /\ said' = said /\ s' = s /\ producer' = producer /\ gone' = gone /\ result' = result /\ bill' = bill
        /\ fault' = fault
    BY <1>15 DEF vars, handling
  <2>2. TypeInv'
    BY <1>0, <2>1 DEF TypeInv
  <2>3. Begun'
    BY <1>0, <2>1, Zenon DEF Begun
  <2>4. Producing' /\ Unread'
    BY <1>0, <2>1 DEF Producing, Unread
  <2> QED BY <2>2, <2>3, <2>4
<1> QED
  <2>1. Finished => UNCHANGED vars
    BY DEF Finished
  <2> QED BY <1>1, <1>4, <1>5, <1>6, <1>7, <1>8, <1>9, <1>10, <1>11, <1>12, <1>13, <1>14, <1>15, <2>1, IsAside, Zenon DEF Next

-----------------------------------------------------------------------------
(* Errors. *)

\* Until an answer is read, and while the first item is awaited, nothing is rendered.
LEMMA Unrendered ==
  ASSUME TypeInv, Begun, Quiet
  PROVE  /\ pc \in Before => s.out = <<>>
         /\ pc = "reading" /\ (~stream \/ said = <<>>) => s.out = <<>>
<1>1. pc \in Before => s.out = <<>>
  BY FreshIs, Zenon
<1> QED BY <1>1 DEF Quiet

LEMMA SilentStep ==
  ASSUME TypeInv, Begun, Producing, Quiet, SilentOnError, [Next]_vars
  PROVE  Quiet' /\ SilentOnError'
<1>0. a' = a /\ (stream' <=> stream)
  BY SameCall
<1>1. CASE Aside
  <2>1. s' = s /\ said' = said /\ fault' = fault
    BY <1>1 DEF Aside
  <2>2. pc \in Before \/ (pc = "reading" /\ said = <<>>)
    BY <1>1 DEF Aside, Before
  <2>3. s.out = <<>>
    BY <2>2, Unrendered
  <2> QED BY <2>1, <2>3 DEF Quiet, SilentOnError
<1>2. CASE ReadItem
  <2>1. stream /\ pc' = "reading" /\ said' # <<>>
    BY <1>2, ReadItemIs DEF TypeInv
  <2> QED BY <1>0, <2>1 DEF Quiet, SilentOnError
<1>3. CASE EndOfStream
  <2>1. stream /\ pc' = "returned"
    BY <1>3, EndOfStreamIs
  <2>2. Result("none", StreamUsage(a, s)).err = "none"
    BY DEF Result
  <2>3. (fault' = "cut" /\ a = "replicate") \/ fault' = "close" \/ result'.err = "none"
    BY <1>3, <2>2, EndOfStreamIs
  <2> QED BY <1>0, <2>1, <2>3 DEF Quiet, SilentOnError
<1>4. CASE StreamLeft
  <2>1. pc' = "returned" /\ result'.err = "none"
    BY <1>4 DEF StreamLeft, Result
  <2> QED BY <2>1 DEF Quiet, SilentOnError
<1>5. CASE Connect \/ ClientLeaves
  <2>1. s' = s /\ said' = said /\ fault' = fault /\ (pc = "connecting" \/ (pc = "reading" /\ pc' = "reading"))
    BY <1>5 DEF Connect, ClientLeaves
  <2>2. CASE pc = "connecting"
    BY <2>1, <2>2, Unrendered DEF Before, Quiet, SilentOnError
  <2>3. CASE pc = "reading" /\ pc' = "reading"
    BY <1>0, <2>1, <2>3 DEF Quiet, SilentOnError
  <2> QED BY <2>1, <2>2, <2>3
<1>6. CASE ProducerReads
  <2>1. pc' = pc /\ s' = s /\ result' = result /\ fault' = fault /\ (said' = <<>> => said = <<>>)
    BY <1>6, ProducerReadsIs DEF TypeInv
  <2>2. Quiet'
    BY <1>0, <2>1 DEF Quiet
  <2>3. SilentOnError'
    BY <1>0, <2>1, Zenon DEF SilentOnError
  <2> QED BY <2>2, <2>3
<1>7. CASE Receive
  <2>1. /\ pc = "reading" /\ pc' = pc /\ said' = said /\ said # <<>>
        /\ (~stream => s' = XunfeiPlainItem(s, said[Len(said)])) /\ said[Len(said)] \in ItemType
    BY <1>7, ReceiveIs
  <2>2. s \in LocalsType /\ 1 \in Int
    BY DEF TypeInv
  <2>3. XunfeiPlainItem(s, said[Len(said)]).out = s.out
    BY <2>1, <2>2, XunfeiIs, Zenon
  <2> QED BY <1>0, <2>1, <2>3 DEF Quiet, SilentOnError
<1>8. CASE ReceiveStop
  <2>1. pc = "reading" /\ pc' = "returned"
    BY <1>8, ReceiveStopIs
  <2>2. result'.err = "none" \/ (~stream /\ s' = s)
    BY <1>8, ReceiveStopIs DEF Result
  <2>3. ~stream => s.out = <<>>
    BY <2>1, Unrendered
  <2> QED BY <2>1, <2>2, <2>3 DEF Quiet, SilentOnError
<1>9. CASE ReadBody
  <2>1. pc' = "returned"
    BY <1>9, ReadBodyIs
  <2>2. result'.err # "none" => s'.out = <<>> \/ fault' = "write" \/ (fault' = "read" /\ a = "proxy")
    BY <1>9, ReadBodyIs DEF BodySound
  <2> QED BY <1>0, <2>1, <2>2 DEF Quiet, SilentOnError
<1>10. CASE TaskImages
  <2>1. pc = "polling" /\ pc' = "returned" /\ (result' = result \/ s' = s)
    BY <1>10, TaskImagesIs
  <2>2. s.out = <<>> /\ result.err = "none"
    BY <2>1, Unrendered DEF Begun, Before
  <2> QED BY <2>1, <2>2 DEF Quiet, SilentOnError
<1>11. CASE Settle
  BY <1>11 DEF Settle, Quiet, SilentOnError
<1>12. CASE UNCHANGED vars
  <2>1. pc' = pc /\ said' = said /\ s' = s /\ result' = result /\ fault' = fault
    BY <1>12 DEF vars, handling
  <2>2. Quiet'
    BY <1>0, <2>1 DEF Quiet
  <2>3. SilentOnError'
    BY <1>0, <2>1, Zenon DEF SilentOnError
  <2> QED BY <2>2, <2>3
<1> QED
  <2>1. Finished => UNCHANGED vars
    BY DEF Finished
  <2> QED BY <1>1, <1>2, <1>3, <1>4, <1>5, <1>6, <1>7, <1>8, <1>9, <1>10, <1>11, <1>12, <2>1, IsAside, Zenon DEF Next

-----------------------------------------------------------------------------
(* What is rendered. *)

\* Chunks numbered up to h, in order, among them all that are due.
Faithful(out, h, due) ==
  /\ \A j \in DOMAIN out : out[j] <= h
  /\ \A j, k \in DOMAIN out : (j < k /\ out[j] > 0 /\ out[k] > 0) => out[j] < out[k]
  /\ \A k \in due : \E j \in DOMAIN out : out[j] = k

Dues == {k \in 1..Handled : s.ended # "stop" /\ Due(k)}

LEMMA RenderedIs == Rendered <=> ((stream /\ a \notin MadeOfBody) => Faithful(s.out, Handled, Dues))
  BY DEF Rendered, Faithful, Dues

LEMMA Appended ==
  ASSUME NEW out \in Seq(Int), NEW chunk \in Int
  PROVE  /\ Append(out, chunk) \in Seq(Int) /\ Len(Append(out, chunk)) = Len(out) + 1
         /\ DOMAIN Append(out, chunk) = 1..(Len(out) + 1) /\ DOMAIN out = 1..Len(out) /\ Len(out) \in Nat
         /\ \A j \in 1..Len(out) : Append(out, chunk)[j] = out[j]
         /\ Append(out, chunk)[Len(out) + 1] = chunk
  OBVIOUS

LEMMA FaithfulAppend ==
  ASSUME NEW out \in Seq(Int), NEW chunk \in Int, NEW h \in Nat, NEW g \in Nat, NEW due, NEW more,
         Faithful(out, h, due), h <= g, chunk <= g, chunk > 0 => chunk > h, more \subseteq due \cup {chunk}
  PROVE  Faithful(Append(out, chunk), g, more)
<1> DEFINE new == Append(out, chunk)
           n == Len(out)
<1>1. /\ DOMAIN new = 1..(n + 1) /\ DOMAIN out = 1..n /\ n \in Nat /\ new[n + 1] = chunk
      /\ \A j \in 1..n : new[j] = out[j]
  BY Appended, Zenon
<1>a. \A j \in 1..n : out[j] \in Int
  BY <1>1
<1> HIDE DEF new, n
<1>b. \A j \in 1..(n + 1) : j \in 1..n \/ j = n + 1
  BY <1>1
<1>2. \A j \in DOMAIN new : new[j] <= g
  <2>1. \A j \in 1..n : out[j] <= h
    BY <1>1 DEF Faithful
  <2> QED BY <1>1, <1>a, <1>b, <2>1
<1>3. \A j, k \in DOMAIN new : (j < k /\ new[j] > 0 /\ new[k] > 0) => new[j] < new[k]
  <2> SUFFICES ASSUME NEW j \in 1..(n + 1), NEW k \in 1..(n + 1), j < k, new[j] > 0, new[k] > 0
               PROVE  new[j] < new[k]
    BY <1>1
  <2>1. j \in 1..n
    BY <1>1
  <2>2. CASE k \in 1..n
    BY <1>1, <2>1, <2>2 DEF Faithful
  <2>3. CASE k = n + 1
    <3>1. out[j] <= h
      BY <1>1, <2>1 DEF Faithful
    <3> QED BY <1>1, <1>a, <2>1, <2>3, <3>1
  <2> QED BY <1>b, <2>2, <2>3
<1>4. \A k \in more : \E j \in DOMAIN new : new[j] = k
  <2> SUFFICES ASSUME NEW k \in more PROVE \E j \in DOMAIN new : new[j] = k
    OBVIOUS
  <2>1. CASE k \in due
    <3>1. PICK j \in 1..n : out[j] = k
      BY <1>1, <2>1 DEF Faithful
    <3>2. j \in DOMAIN new
      BY <1>1
    <3> QED BY <1>1, <3>1, <3>2
  <2>2. CASE k = chunk
    <3>1. n + 1 \in DOMAIN new
      BY <1>1
    <3> QED BY <1>1, <2>2, <3>1
  <2> QED BY <2>1, <2>2
<1>5. Faithful(new, g, more)
  BY <1>2, <1>3, <1>4 DEF Faithful
<1> QED BY <1>5 DEF new

LEMMA FaithfulMore ==
  ASSUME NEW out \in Seq(Int), NEW h \in Nat, NEW g \in Nat, NEW due, NEW more,
         Faithful(out, h, due), h <= g, more \subseteq due
  PROVE  Faithful(out, g, more)
<1>1. \A j \in DOMAIN out : out[j] <= g
  BY DEF Faithful
<1> QED BY <1>1 DEF Faithful

\* What is due among the items read when another is read.
LEMMA DueIs ==
  ASSUME TypeInv, a' = a, NEW item \in ItemType, said' = Append(said, item)
  PROVE  /\ Len(said) \in Nat /\ Len(said') = Len(said) + 1
         /\ \A k \in 1..Len(said) : said'[k] = said[k] /\ (Due(k)' <=> Due(k))
         /\ said'[Len(said) + 1] = item /\ \A k : k = Len(said) + 1 => (Due(k)' <=> Piece(a, item))
<1>1. /\ Len(said) \in Nat /\ Len(said') = Len(said) + 1 /\ said'[Len(said) + 1] = item
      /\ \A k \in 1..Len(said) : said'[k] = said[k]
  BY DEF TypeInv
<1>2. \A k : Due(k)' <=> HasText(said'[k]) \/ (said'[k].kind = "bad" /\ a \in PassingOn)
  BY DEF Due, HasText, PassingOn
<1>3. \A k \in 1..Len(said) : Due(k)' <=> Due(k)
  BY <1>1, <1>2, Zenon DEF Due
<1>4. ASSUME NEW k, k = Len(said) + 1 PROVE Due(k)' <=> Piece(a, item)
  <2>1. Due(k)' <=> HasText(said'[k]) \/ (said'[k].kind = "bad" /\ a \in PassingOn)
    BY <1>2
  <2>2. said'[k] = item
    BY <1>1, <1>4
  <2> QED BY <2>1, <2>2 DEF Piece, HasText
<1> QED BY <1>1, <1>3, <1>4

LEMMA RenderedStep ==
  ASSUME TypeInv, Begun, Producing, Rendered, [Next]_vars
  PROVE  Rendered'
<1>0. a' = a /\ (stream' <=> stream)
  BY SameCall
<1> DEFINE Read == stream /\ a \notin MadeOfBody
<1>a. Read => Faithful(s.out, Handled, Dues)
  BY RenderedIs, Zenon
<1>b. (Rendered <=> (Read => Faithful(s.out, Handled, Dues)))'
  BY RenderedIs, PTL
<1>c. Read' <=> Read
  BY <1>0 DEF MadeOfBody
<1>d. s \in LocalsType /\ s.out \in Seq(Int) /\ said \in Seq(ItemType) /\ Len(said) \in Nat
  BY DEF TypeInv, LocalsType
<1>e. Handled \in Nat
  <2>1. producer = "sending" => Len(said) > 0
    BY <1>d DEF Producing
  <2> QED BY <1>d, <2>1 DEF Handled
<1>f. said' = said /\ Handled' = Handled /\ s'.ended = s.ended => Dues' = Dues
  BY <1>0 DEF Dues, Due
<1> HIDE DEF Read
<1>1. ASSUME s' = s, said' = said, (producer' = "sending") <=> (producer = "sending")
      PROVE  Rendered'
  <2>1. Handled' = Handled
    BY <1>1 DEF Handled
  <2>2. Dues' = Dues
    BY <1>1, <1>f, <2>1
  <2> QED BY <1>1, <1>a, <1>b, <1>c, <2>1, <2>2
<1>2. CASE ReadItem
  <2>1. PICK item \in Items(Sends(a)) : /\ item \in ItemType /\ said' = Append(said, item)
                                        /\ Rendering(a, s, item, Len(said) + 1, s')
    BY <1>2, ReadItemIs
  <2>2. producer = "none" /\ producer' = "none" /\ Read /\ s.ended # "stop"
    <3>1. /\ stream /\ a \in Streaming /\ s.ended = "no" /\ producer' = producer
      BY <1>2, ReadItemIs
    <3>2. a # "xunfei" /\ a \notin MadeOfBody
      BY <3>1 DEF Streaming, MadeOfBody
    <3> QED BY <3>1, <3>2 DEF Read, Producing
  <2>3. /\ Len(said') = Len(said) + 1 /\ \A k \in 1..Len(said) : Due(k)' <=> Due(k)
        /\ \A k : k = Len(said) + 1 => (Due(k)' <=> Piece(a, item))
    BY <1>0, <2>1, DueIs
  <2>4. Handled = Len(said) /\ Handled' = Len(said) + 1
    BY <2>2, <2>3 DEF Handled
  <2>5. /\ Dues' \subseteq Dues \cup {Len(said) + 1}
        /\ ~Piece(a, item) \/ s'.ended = "stop" => Dues' \subseteq Dues
    <3>1. \A k \in 1..(Len(said) + 1) : k \in 1..Len(said) \/ k = Len(said) + 1
      BY <1>d
    <3>2. Dues' = {k \in 1..(Len(said) + 1) : s'.ended # "stop" /\ Due(k)'}
      BY <2>4 DEF Dues
    <3>3. \A k \in Dues' : k \in Dues \/ (k = Len(said) + 1 /\ Piece(a, item) /\ s'.ended # "stop")
      BY <2>2, <2>3, <2>4, <3>1, <3>2 DEF Dues
    <3> QED BY <3>3
  <2>6. Faithful(s.out, Len(said), Dues)
    BY <1>a, <2>2, <2>4
  <2>7. CASE Marks(a, item)
    <3>1. s'.out = Append(s.out, Done) /\ Done = 0
      BY <2>1, <2>7 DEF Rendering, Done
    <3>2. ~Piece(a, item)
      BY <2>7 DEF Piece, Marks, HasText
    <3>3. Dues' \subseteq Dues \cup {0}
      BY <2>5, <3>2
    <3>4. Faithful(Append(s.out, 0), Len(said) + 1, Dues')
      BY <1>d, <2>6, <3>3, FaithfulAppend
    <3> QED BY <1>b, <2>4, <3>1, <3>4
  <2>8. CASE ~Marks(a, item) /\ s'.out = Append(s.out, Len(said) + 1)
    <3>1. Dues' \subseteq Dues \cup {Len(said) + 1}
      BY <2>5
    <3>2. Faithful(Append(s.out, Len(said) + 1), Len(said) + 1, Dues')
      BY <1>d, <2>6, <3>1, FaithfulAppend
    <3> QED BY <1>b, <2>4, <2>8, <3>2
  <2>9. CASE s'.out = s.out /\ (~Piece(a, item) \/ s'.ended = "stop")
    <3>1. Dues' \subseteq Dues
      BY <2>5, <2>9
    <3>2. Faithful(s.out, Len(said) + 1, Dues')
      BY <1>d, <2>6, <3>1, FaithfulMore
    <3> QED BY <1>b, <2>4, <2>9, <3>2
  <2>10. \/ Marks(a, item) \/ (~Marks(a, item) /\ s'.out = Append(s.out, Len(said) + 1))
         \/ (s'.out = s.out /\ (~Piece(a, item) \/ s'.ended = "stop"))
    <3>1. ~Marks(a, item) => s'.out = s.out \/ s'.out = Append(s.out, Len(said) + 1)
      BY <2>1 DEF Rendering
    <3>2. Piece(a, item) /\ s'.ended # "stop" => s'.out = Append(s.out, Len(said) + 1)
      BY <2>1, Zenon DEF Rendering
    <3> QED BY <3>1, <3>2, Zenon
  <2> QED BY <2>7, <2>8, <2>9, <2>10, Zenon
<1>3. ASSUME NEW chunk \in Int, chunk <= 0, s'.out = Append(s.out, chunk), s'.ended = s.ended, said' = said,
             Handled' = Handled
      PROVE  Rendered'
  <2>1. Dues' = Dues
    BY <1>3, <1>f
  <2>3. Read => Faithful(Append(s.out, chunk), Handled, Dues)
    BY <1>3, <1>a, <1>d, <1>e, FaithfulAppend
  <2> QED BY <1>3, <1>b, <1>c, <2>1, <2>3
<1>4. CASE EndOfStream
  <2>1. said' = said /\ producer' = producer
    BY <1>4, EndOfStreamIs
  <2>2. Handled' = Handled
    BY <2>1 DEF Handled
  <2>3. CASE s' = s
    BY <1>1, <2>1, <2>3
  <2>4. CASE s' = AfterLoop(a, s)
    <3>1. /\ s'.ended = s.ended
          /\ s.ended = "stop" \/ s.done => s'.out = s.out
          /\ s.ended # "stop" /\ ~s.done =>
               s'.out = Append(IF a = "aiproxy" THEN Append(s.out, Documents) ELSE s.out, Done)
      BY <1>d, <2>4, AfterLoopIs
    <3>2. Done = 0 /\ Documents = -1
      BY DEF Done, Documents
    <3>3. CASE s.ended = "stop" \/ s.done
      <4>1. Dues' = Dues
        BY <1>f, <2>1, <2>2, <3>1
      <4>2. Read' => Read
        BY <1>c
      <4> QED BY <1>a, <1>b, <2>2, <3>1, <3>3, <4>1, <4>2
    <3>4. CASE s.ended # "stop" /\ ~s.done /\ a # "aiproxy"
      BY <1>3, <2>1, <2>2, <3>1, <3>2, <3>4
    <3>5. CASE s.ended # "stop" /\ ~s.done /\ a = "aiproxy"
      <4> DEFINE mid == Append(s.out, -1)
      <4>1. Dues' = Dues
        BY <1>f, <2>1, <2>2, <3>1
      <4>2. Read' => Read
        BY <1>c
      <4>3. Read => Faithful(mid, Handled, Dues)
        BY <1>a, <1>d, <1>e, FaithfulAppend
      <4>4. mid \in Seq(Int)
        BY <1>d
      <4>5. s'.out = Append(mid, 0)
        BY <3>1, <3>2, <3>5
      <4> HIDE DEF mid
      <4>6. Read => Faithful(Append(mid, 0), Handled, Dues)
        BY <1>e, <4>3, <4>4, FaithfulAppend
      <4> QED BY <1>b, <2>2, <4>1, <4>2, <4>5, <4>6
    <3> QED BY <3>3, <3>4, <3>5
  <2> QED BY <1>4, <2>3, <2>4, EndOfStreamIs
<1>5. CASE Connect \/ ClientLeaves \/ StreamLeft \/ Settle \/ Aside
  <2>1. s' = s /\ said' = said /\ (producer' = producer \/ (pc = "connecting" /\ producer' = "reading"))
    <3>1. Connect => /\ s' = s /\ said' = said
                     /\ producer' = producer \/ (pc = "connecting" /\ producer' = "reading")
      BY DEF Connect
    <3>2. ClientLeaves \/ StreamLeft \/ Settle => s' = s /\ said' = said /\ producer' = producer
      BY DEF ClientLeaves, StreamLeft, Settle, handling
    <3>3. Aside => s' = s /\ said' = said /\ producer' = producer
      BY DEF Aside
    <3> QED BY <1>5, <3>1, <3>2, <3>3, Zenon
  <2>2. pc = "connecting" => producer = "none"
    BY DEF Begun, Before
  <2> QED BY <1>1, <2>1, <2>2
<1>6. CASE ProducerReads
  <2>1. /\ a = "xunfei" /\ producer = "reading" /\ s' = s
        /\ \/ producer' = "stopping" /\ said' = said
           \/ \E item \in Items(Sends(a)) : item \in ItemType /\ producer' = "sending" /\ said' = Append(said, item)
    BY <1>6, ProducerReadsIs
  <2>2. CASE producer' = "stopping" /\ said' = said
    BY <1>1, <2>1, <2>2
  <2>3. ASSUME NEW item \in ItemType, producer' = "sending", said' = Append(said, item)
        PROVE  Rendered'
    <3>1. /\ Len(said') = Len(said) + 1 /\ \A k \in 1..Len(said) : Due(k)' <=> Due(k)
      BY <1>0, <2>3, DueIs
    <3>2. Handled = Len(said) /\ Handled' = Len(said)
      BY <1>d, <2>1, <2>3, <3>1 DEF Handled
    <3>3. Dues' = Dues
      BY <2>1, <3>1, <3>2 DEF Dues
    <3>4. Read' => Read
      BY <1>c
    <3> QED BY <1>a, <1>b, <2>1, <3>2, <3>3, <3>4
  <2> QED BY <2>1, <2>2, <2>3
<1>7. CASE Receive
  <2>1. CASE ~stream
    BY <1>b, <1>c, <2>1 DEF Read
  <2>2. CASE stream
    <3> DEFINE n == Len(said)
    <3>1. /\ producer = "sending" /\ producer' \in {"reading", "stopping"} /\ said' = said
          /\ s' = XunfeiItem(s, said[n], n) /\ said[n] \in ItemType /\ n \in Nat \ {0}
      BY <1>7, <2>2, ReceiveIs
    <3>2. s'.out = Append(s.out, n) /\ s'.ended = s.ended
      <4>1. n \in Int
        BY <3>1
      <4> HIDE DEF n
      <4> QED BY <1>d, <3>1, <4>1, XunfeiIs
    <3>3. Handled = n - 1 /\ Handled' = n
      BY <3>1 DEF Handled
    <3>4. Dues' \subseteq Dues \cup {n}
      BY <1>0, <3>1, <3>2, <3>3 DEF Dues, Due
    <3>5. Read' => Read
      BY <1>c
    <3>6. Read => Faithful(Append(s.out, n), n, Dues')
      BY <1>a, <1>d, <1>e, <3>1, <3>3, <3>4, FaithfulAppend
    <3> QED BY <1>b, <3>2, <3>3, <3>5, <3>6
  <2> QED BY <2>1, <2>2
<1>8. CASE ReceiveStop
  <2>1. CASE ~stream
    BY <1>b, <1>c, <2>1 DEF Read
  <2>2. CASE stream
    <3>1. s' = Render(s, Done) /\ said' = said /\ producer = "stopping" /\ producer' = "ended"
      BY <1>8, <2>2, ReceiveStopIs
    <3>2. s'.out = Append(s.out, Done) /\ s'.ended = s.ended /\ Done = 0
      BY <1>d, <3>1, MarkIs DEF Done
    <3>3. Handled' = Handled
      BY <3>1 DEF Handled
    <3> QED BY <1>3, <3>1, <3>2, <3>3
  <2> QED BY <2>1, <2>2
<1>9. CASE ReadBody \/ TaskImages
  <2>1. ~stream \/ a \in MadeOfBody
    BY <1>9, ReadBodyIs, TaskImagesIs DEF BodySound
  <2> QED BY <1>b, <1>c, <2>1 DEF Read
<1>10. CASE UNCHANGED vars
  <2>1. s' = s /\ said' = said /\ producer' = producer
    BY <1>10 DEF vars, handling
  <2> QED BY <1>1, <2>1
<1> QED
  <2>1. Finished => UNCHANGED vars
    BY DEF Finished
  <2> QED BY <1>2, <1>4, <1>5, <1>6, <1>7, <1>8, <1>9, <1>10, <2>1, IsAside, Zenon DEF Next

-----------------------------------------------------------------------------
(* The end of a stream. *)

NoMark(out) == \A k \in DOMAIN out : out[k] # Done

LEMMA CloseIs ==
  ASSUME NEW out \in Seq(Int), NoMark(out)
  PROVE  /\ ClosedBy(Append(out, Done))
         /\ \A chunk \in Int : chunk # 0 => NoMark(Append(out, chunk))
<1>1. Done = 0 /\ Done \in Int
  BY DEF Done
<1>2. ClosedBy(Append(out, Done))
  <2> DEFINE new == Append(out, Done)
  <2>1. /\ DOMAIN new = 1..(Len(out) + 1) /\ Len(new) = Len(out) + 1 /\ Len(out) \in Nat /\ new[Len(out) + 1] = Done
        /\ \A j \in 1..Len(out) : new[j] = out[j]
    BY <1>1, Appended
  <2>2. \A j \in 1..Len(out) : out[j] # Done
    BY DEF NoMark
  <2> HIDE DEF new
  <2>3. new # <<>>
    BY <2>1
  <2>4. \A k \in 1..(Len(out) + 1) : new[k] = Done <=> k = Len(out) + 1
    BY <2>1, <2>2
  <2>5. ClosedBy(new)
    BY <2>1, <2>3, <2>4 DEF ClosedBy
  <2> QED BY <2>5 DEF new
<1>3. ASSUME NEW chunk \in Int, chunk # 0 PROVE NoMark(Append(out, chunk))
  <2> DEFINE new == Append(out, chunk)
  <2>1. /\ DOMAIN new = 1..(Len(out) + 1) /\ Len(out) \in Nat /\ new[Len(out) + 1] = chunk
        /\ \A j \in 1..Len(out) : new[j] = out[j]
    BY Appended
  <2>2. \A j \in 1..Len(out) : out[j] # Done
    BY DEF NoMark
  <2> HIDE DEF new
  <2>3. \A k \in 1..(Len(out) + 1) : new[k] # Done
    BY <1>1, <1>3, <2>1, <2>2
  <2>4. NoMark(new)
    BY <2>1, <2>3 DEF NoMark
  <2> QED BY <2>4 DEF new
<1> QED BY <1>2, <1>3

LEMMA MarkedIs ==
  Marked <=> (pc = "reading" /\ stream =>
    /\ ~OddMark => (s.done => ClosedBy(s.out)) /\ (~s.done => NoMark(s.out))
    /\ s.done => \/ a = "replicate" /\ s.ended # "no"
                 \/ a \in PassingOn /\ \E k \in DOMAIN said : said[k].kind = "done")
  BY DEF Marked, NoMark

\* Only adaptors that pass lines on, and replicate, remember a mark.
LEMMA Unremembered ==
  ASSUME TypeInv, Marked, pc = "reading", stream, a = "xunfei"
  PROVE  s.done = FALSE /\ NoMark(s.out) /\ ~OddMark
<1>1. s.done \in BOOLEAN
  BY DEF TypeInv, LocalsType
<1>2. ~s.done /\ ~OddMark
  BY MarkedIs DEF PassingOn, OddMark
<1>3. NoMark(s.out)
  BY <1>2, MarkedIs
<1> QED BY <1>1, <1>2, <1>3, Zenon

\* A stream that has not been marked oddly with the next item had no mark at all before.
LEMMA UnmarkedBefore ==
  ASSUME TypeInv, Marked, ReadItem, pc = "reading", stream, s.ended = "no", a' = a, ~OddMark',
         NEW item \in ItemType, said' = Append(said, item)
  PROVE  s.done = FALSE /\ NoMark(s.out) /\ (a \in PassingOn => item.kind # "bare")
<1>1. /\ Len(said) \in Nat /\ Len(said') = Len(said) + 1 /\ DOMAIN said = 1..Len(said)
      /\ DOMAIN said' = 1..(Len(said) + 1) /\ said'[Len(said) + 1] = item
      /\ \A k \in 1..Len(said) : said'[k] = said[k]
  BY DEF TypeInv
<1>2. a \in PassingOn => \A k \in 1..(Len(said) + 1) : said'[k].kind # "bare" /\ (said'[k].kind = "done" => k = Len(said) + 1)
  BY <1>1 DEF OddMark, PassingOn
<1>3. a \in PassingOn => \A k \in 1..Len(said) : said[k].kind \notin {"bare", "done"}
  BY <1>1, <1>2
<1>4. s.done \in BOOLEAN
  BY DEF TypeInv, LocalsType
<1>5. ~s.done
  BY <1>1, <1>3, MarkedIs
<1>6. ~OddMark
  BY <1>1, <1>3 DEF OddMark
<1>7. NoMark(s.out)
  BY <1>5, <1>6, MarkedIs
<1>8. a \in PassingOn => item.kind # "bare"
  <2>1. Len(said) + 1 \in 1..(Len(said) + 1)
    BY <1>1
  <2> QED BY <1>1, <1>2, <2>1
<1> QED BY <1>4, <1>5, <1>7, <1>8, Zenon

LEMMA MarkedStep ==
  ASSUME TypeInv, Begun, Producing, Marked, [Next]_vars
  PROVE  Marked'
<1>0. a' = a /\ (stream' <=> stream)
  BY SameCall
<1>a. s \in LocalsType /\ s.out \in Seq(Int) /\ said \in Seq(ItemType) /\ Len(said) \in Nat /\ s.done \in BOOLEAN
  BY DEF TypeInv, LocalsType
<1> DEFINE New ==
      /\ ~OddMark' => (s'.done => ClosedBy(s'.out)) /\ (~s'.done => NoMark(s'.out))
      /\ s'.done => \/ a = "replicate" /\ s'.ended # "no"
                    \/ a \in PassingOn /\ \E k \in DOMAIN said' : said'[k].kind = "done"
<1>b. New => Marked'
  BY <1>0 DEF Marked, NoMark, ClosedBy, PassingOn, Done
<1> HIDE DEF New
<1>1. CASE pc' # "reading" \/ ~stream
  BY <1>0, <1>1 DEF Marked
<1>2. CASE pc \in Before /\ pc' = "reading"
  <2>1. s' = s
    BY <1>2 DEF Next, Before, ConvertText, ConvertEmbedding, ConvertOther, Converts, ConvertFails, DoRequestFails,
         DoRequest, ReadItem, StreamRefused, EndOfStream, ClientLeaves, StreamLeft, Connect, ProducerReads, Receive,
         ReceiveStop, ReadBody, TaskAccepted, PollAgain, Wake, TaskFails, TaskStreams, TaskImages, Settle, Finished,
         handling, vars
  <2>2. s.out = <<>> /\ s.done = FALSE
    BY <1>2, FreshIs, Zenon
  <2>3. New
    BY <2>1, <2>2 DEF New, NoMark
  <2> QED BY <1>b, <2>3
<1>3. CASE ReadItem
  <2>1. PICK item \in Items(Sends(a)) : /\ item \in ItemType /\ said' = Append(said, item)
                                        /\ Rendering(a, s, item, Len(said) + 1, s')
    BY <1>3, ReadItemIs
  <2>2. /\ stream /\ a \in Streaming /\ pc = "reading" /\ s.ended = "no" /\ item.kind \in Sends(a)
    BY <1>3, ReadItemIs, ItemIs
  <2>3. s'.done \in BOOLEAN
    BY <2>1 DEF Rendering, LocalsType
  <2>4. ~OddMark' => (s'.done => ClosedBy(s'.out)) /\ (~s'.done => NoMark(s'.out))
    <3> SUFFICES ASSUME ~OddMark' PROVE (s'.done => ClosedBy(s'.out)) /\ (~s'.done => NoMark(s'.out))
      OBVIOUS
    <3>1. s.done = FALSE /\ NoMark(s.out) /\ (a \in PassingOn => item.kind # "bare")
      BY <1>0, <1>3, <2>1, <2>2, UnmarkedBefore
    <3>2. CASE Marks(a, item)
      <4>1. item.kind = "done"
        <5>1. a = "replicate" => item.kind # "bare"
          BY <2>2 DEF Sends
        <5> QED BY <3>1, <3>2, <5>1 DEF Marks
      <4>2. s'.out = Append(s.out, Done) /\ s'.done
        BY <2>1, <3>2, <4>1, Zenon DEF Rendering
      <4>3. ClosedBy(Append(s.out, Done))
        BY <1>a, <3>1, CloseIs
      <4> QED BY <4>2, <4>3, Zenon
    <3>3. CASE ~Marks(a, item)
      <4>1. s'.out \in {s.out, Append(s.out, Len(said) + 1)} /\ s'.done = s.done
        BY <2>1, <3>3, Zenon DEF Rendering
      <4>2. NoMark(Append(s.out, Len(said) + 1))
        BY <1>a, <3>1, CloseIs
      <4>3. s'.out = s.out \/ s'.out = Append(s.out, Len(said) + 1)
        BY <4>1
      <4> QED BY <3>1, <4>1, <4>2, <4>3, Zenon
    <3> QED BY <3>2, <3>3
  <2>5. s'.done => \/ a = "replicate" /\ s'.ended # "no"
                   \/ a \in PassingOn /\ \E k \in DOMAIN said' : said'[k].kind = "done"
    <3>1. /\ Len(said) + 1 \in DOMAIN said' /\ said'[Len(said) + 1] = item
          /\ \A k \in DOMAIN said : k \in DOMAIN said' /\ said'[k] = said[k]
      BY <1>a, <2>1
    <3>2. CASE s.done = TRUE
      <4>1. a \in PassingOn /\ \E k \in DOMAIN said : said[k].kind = "done"
        BY <2>2, <3>2, MarkedIs
      <4> QED BY <3>1, <4>1
    <3>3. CASE s.done = FALSE
      <4> SUFFICES ASSUME s'.done PROVE \/ a = "replicate" /\ s'.ended # "no"
                                        \/ a \in PassingOn /\ \E k \in DOMAIN said' : said'[k].kind = "done"
        OBVIOUS
      <4>1. s'.done # s.done
        BY <2>3, <3>3, Zenon
      <4>2. Marks(a, item)
        BY <2>1, <4>1, Zenon DEF Rendering
      <4>3. a = "replicate" => s'.ended = "break"
        BY <2>1, <4>1, Zenon DEF Rendering
      <4>4. a \in PassingOn => item.kind = "done"
        BY <2>1, <4>1, Zenon DEF Rendering
      <4>5. a = "replicate" \/ a \in PassingOn
        BY <4>2 DEF Marks
      <4> QED BY <3>1, <4>3, <4>4, <4>5
    <3> QED BY <1>a, <3>2, <3>3
  <2>6. New
    BY <2>4, <2>5, Zenon DEF New
  <2> QED BY <1>b, <2>6
<1>4. CASE ProducerReads /\ pc = "reading" /\ stream
  <2>1. a = "xunfei" /\ s' = s
    BY <1>4, ProducerReadsIs
  <2>2. s.done = FALSE /\ NoMark(s.out)
    BY <1>4, <2>1, Unremembered
  <2>3. New
    BY <2>1, <2>2 DEF New
  <2> QED BY <1>b, <2>3
<1>5. CASE Receive /\ stream
  <2> DEFINE n == Len(said)
  <2>1. a = "xunfei" /\ pc = "reading" /\ s' = XunfeiItem(s, said[n], n) /\ said[n] \in ItemType /\ n \in Nat \ {0}
    BY <1>5, ReceiveIs
  <2>2. n \in Int /\ n # 0
    BY <2>1
  <2> HIDE DEF n
  <2>3. s'.out = Append(s.out, n) /\ s'.done = s.done
    BY <1>a, <2>1, <2>2, XunfeiIs
  <2>4. s.done = FALSE /\ NoMark(s.out)
    BY <1>5, <2>1, Unremembered
  <2>5. NoMark(Append(s.out, n))
    BY <1>a, <2>2, <2>4, CloseIs
  <2>6. New
    BY <2>3, <2>4, <2>5 DEF New
  <2> QED BY <1>b, <2>6
<1>6. CASE ClientLeaves \/ UNCHANGED vars
  <2>1. s' = s /\ said' = said /\ pc' = pc
    BY <1>6 DEF ClientLeaves, vars, handling
  <2>2. OddMark' <=> OddMark
    BY <1>0, <2>1 DEF OddMark, PassingOn
  <2>3. pc = "reading" /\ stream => New
    BY <2>1, <2>2, MarkedIs DEF New
  <2> QED BY <1>1, <1>b, <2>1, <2>3
<1>7. CASE pc \notin Before \cup {"reading"} /\ pc' = "reading"
  <2>1. \/ ProducerReads \/ UNCHANGED vars
    BY <1>7 DEF Next, Before, ConvertText, ConvertEmbedding, ConvertOther, Converts, ConvertFails, DoRequestFails,
         DoRequest, ReadItem, StreamRefused, EndOfStream, ClientLeaves, StreamLeft, Connect, Receive,
         ReceiveStop, ReadBody, TaskAccepted, PollAgain, Wake, TaskFails, TaskStreams, TaskImages, Settle, Finished
  <2>2. pc' = pc
    BY <2>1 DEF ProducerReads, vars
  <2> QED BY <1>7, <2>2
<1>8. CASE pc = "reading" /\ pc' = "reading" /\ stream
  <2>1. ReadItem \/ ProducerReads \/ Receive \/ ClientLeaves \/ UNCHANGED vars
    BY <1>8 DEF Next, ConvertText, ConvertEmbedding, ConvertOther, Converts, ConvertFails, DoRequestFails,
         DoRequest, StreamRefused, EndOfStream, StreamLeft, Connect,
         ReceiveStop, ReadBody, TaskAccepted, PollAgain, Wake, TaskFails, TaskStreams, TaskImages, Settle, Finished
  <2> QED BY <1>3, <1>4, <1>5, <1>6, <1>8, <2>1
<1> QED BY <1>1, <1>2, <1>7, <1>8

LEMMA ClosedStep ==
  ASSUME TypeInv, Begun, Producing, Marked, Closed, [Next]_vars
  PROVE  Closed'
<1>0. a' = a /\ (stream' <=> stream)
  BY SameCall
<1>a. s \in LocalsType /\ s.out \in Seq(Int) /\ s.done \in BOOLEAN
  BY DEF TypeInv, LocalsType
<1>b. ClosedBy(s'.out) => Closed'
  BY DEF Closed, ClosedBy, Done
<1>1. CASE pc' \notin Over \/ ~stream \/ result'.err # "none"
  BY <1>0, <1>1 DEF Closed, Over
<1>2. CASE EndOfStream
  <2> SUFFICES ASSUME result'.err = "none", ~CutShort', ~OddMark' PROVE Closed'
    BY DEF Closed
  <2>1. stream /\ pc = "reading" /\ said' = said /\ gone' = gone /\ s' = AfterLoop(a, s)
    BY <1>2, EndOfStreamIs, Values
  <2>2. s'.ended = s.ended
    BY <1>a, <2>1, AfterLoopIs
  <2>3. s.ended # "stop" /\ ~OddMark
    BY <1>0, <2>1, <2>2 DEF CutShort, OddMark, PassingOn
  <2>4. CASE s.done
    <3>1. s'.out = s.out /\ ClosedBy(s.out)
      BY <1>a, <2>1, <2>3, <2>4, AfterLoopIs, MarkedIs
    <3> QED BY <1>b, <3>1
  <2>5. CASE ~s.done
    <3>1. NoMark(s.out)
      BY <2>1, <2>3, <2>5, MarkedIs
    <3>2. s'.out = Append(IF a = "aiproxy" THEN Append(s.out, Documents) ELSE s.out, Done)
      BY <1>a, <2>1, <2>3, <2>5, AfterLoopIs
    <3>3. CASE a = "aiproxy"
      <4> DEFINE mid == Append(s.out, Documents)
      <4>1. Documents \in Int /\ Documents # 0
        BY DEF Documents
      <4>2. mid \in Seq(Int) /\ NoMark(mid)
        BY <1>a, <3>1, <4>1, CloseIs
      <4>3. s'.out = Append(mid, Done)
        BY <3>2, <3>3
      <4> HIDE DEF mid
      <4>4. ClosedBy(Append(mid, Done))
        BY <4>2, CloseIs
      <4> QED BY <1>b, <4>3, <4>4
    <3>4. CASE a # "aiproxy"
      <4>1. ClosedBy(Append(s.out, Done)) /\ s'.out = Append(s.out, Done)
        BY <1>a, <3>1, <3>2, <3>4, CloseIs
      <4> QED BY <1>b, <4>1
    <3> QED BY <3>3, <3>4
  <2> QED BY <2>4, <2>5
<1>3. CASE StreamLeft
  <2>1. gone' /\ a \in ByGin \cup {"xunfei"}
    BY <1>3, StreamLeftIs
  <2> QED BY <1>0, <2>1 DEF Closed, CutShort, ByGin
<1>4. CASE ReceiveStop /\ stream
  <2>1. a = "xunfei" /\ pc = "reading" /\ s' = Render(s, Done)
    BY <1>4, ReceiveStopIs
  <2>2. NoMark(s.out)
    BY <1>4, <2>1, Unremembered
  <2>3. s'.out = Append(s.out, Done)
    BY <1>a, <2>1, MarkIs
  <2>4. ClosedBy(Append(s.out, Done))
    BY <1>a, <2>2, CloseIs
  <2> QED BY <1>b, <2>3, <2>4
<1>5. CASE ReadBody /\ stream
  <2>1. result'.err = "none" => s'.out = <<1, Done>>
    BY <1>5, ReadBodyIs DEF BodySound, StreamOf
  <2>2. ClosedBy(<<1, Done>>)
    <3> DEFINE out == <<1, Done>>
    <3>1. out # <<>> /\ DOMAIN out = 1..2 /\ Len(out) = 2 /\ out[1] = 1 /\ out[2] = Done /\ Done = 0
      BY DEF Done
    <3> HIDE DEF out
    <3>2. ClosedBy(out)
      BY <3>1 DEF ClosedBy
    <3> QED BY <3>2 DEF out
  <2> QED BY <1>1, <1>b, <2>1, <2>2
<1>6. CASE ProducerReads /\ pc \in Over
  <2>1. a = "xunfei" /\ gone' = gone /\ producer = "reading"
    BY <1>6, ProducerReadsIs, Zenon
  <2>2. gone
    BY <1>6, <2>1 DEF Producing
  <2> QED BY <1>0, <2>1, <2>2 DEF Closed, CutShort, ByGin
<1>7. CASE Settle \/ UNCHANGED vars
  <2>1. s' = s /\ said' = said /\ result' = result /\ gone' = gone /\ (pc' \in Over => pc \in Over)
    BY <1>7 DEF Settle, vars, handling, Over
  <2>2. (OddMark' <=> OddMark) /\ (CutShort' <=> CutShort)
    BY <1>0, <2>1 DEF OddMark, CutShort, PassingOn, ByGin
  <2>3. Closed /\ pc' \in Over /\ result'.err = "none" /\ stream /\ ~CutShort' /\ ~OddMark' => ClosedBy(s'.out)
    BY <2>1, <2>2 DEF Closed
  <2> QED BY <1>0, <1>b, <2>3 DEF Closed
<1>8. CASE Aside
  <2>1. pc' \in Over => result' \in {Failed, Crashed}
    BY <1>8 DEF Aside, Over
  <2>2. pc' \in Over => result'.err # "none"
    BY <2>1, Values
  <2> QED BY <1>1, <2>2
<1>9. CASE ReadItem \/ ClientLeaves \/ Receive \/ (Connect /\ producer' # producer) \/ (ProducerReads /\ pc \notin Over)
  <2>1. pc' \notin Over
    BY <1>9 DEF ReadItem, ClientLeaves, Receive, Connect, ProducerReads, Over
  <2> QED BY <1>1, <2>1
<1>10. CASE TaskImages
  BY <1>1, <1>10, TaskImagesIs
<1> QED
  <2>1. Finished => UNCHANGED vars
    BY DEF Finished
  <2> QED BY <1>1, <1>2, <1>3, <1>4, <1>5, <1>6, <1>7, <1>8, <1>9, <1>10, <2>1, IsAside, Zenon DEF Next

-----------------------------------------------------------------------------
(* What is counted and metered. *)

LEMMA CountedStep ==
  ASSUME TypeInv, Begun, Producing, Counted, [Next]_vars
  PROVE  Counted'
<1>0. a' = a /\ (stream' <=> stream)
  BY SameCall
<1>a. Texted' = Texted
  BY DEF Texted, Counting
<1>b. s \in LocalsType /\ said \in Seq(ItemType) /\ s.text \in Nat
  BY DEF TypeInv, LocalsType
<1>1. CASE ~stream \/ a \notin Texted
  BY <1>0, <1>1, <1>a DEF Counted
<1>2. CASE said' = said /\ s'.text = s.text
  BY <1>0, <1>2, <1>a DEF Counted
<1>3. CASE ReadItem
  <2>1. PICK item \in Items(Sends(a)) : /\ item \in ItemType /\ said' = Append(said, item)
                                        /\ Rendering(a, s, item, Len(said) + 1, s') /\ Metering(a, s, item, s')
    BY <1>3, ReadItemIs
  <2>2. s'.text \in Nat
    BY <2>1 DEF Rendering, LocalsType
  <2>3. s'.text >= s.text /\ (a \in Texted /\ HasText(item) => s'.text > s.text)
    BY <2>1, Zenon DEF Metering
  <2>4. \A k \in DOMAIN said' : (k \in DOMAIN said /\ said'[k] = said[k]) \/ said'[k] = item
    BY <1>b, <2>1
  <2>5. stream /\ a \in Texted /\ (\E k \in DOMAIN said' : HasText(said'[k])) => s'.text > 0
    <3> SUFFICES ASSUME stream, a \in Texted, NEW k \in DOMAIN said', HasText(said'[k]) PROVE s'.text > 0
      OBVIOUS
    <3>1. CASE k \in DOMAIN said /\ said'[k] = said[k]
      <4>1. s.text > 0
        BY <3>1 DEF Counted
      <4> QED BY <1>b, <2>2, <2>3, <4>1
    <3>2. CASE said'[k] = item
      <4>1. HasText(item)
        BY <3>2
      <4> QED BY <1>b, <2>2, <2>3, <4>1
    <3> QED BY <2>4, <3>1, <3>2
  <2> QED BY <1>0, <1>a, <2>5 DEF Counted, HasText
<1>4. CASE EndOfStream
  <2>1. said' = said /\ (s' = s \/ s' = AfterLoop(a, s))
    BY <1>4, EndOfStreamIs
  <2>2. AfterLoop(a, s).text = s.text
    BY <1>b, AfterLoopIs
  <2> QED BY <1>2, <2>1, <2>2
<1>5. CASE ClientLeaves \/ StreamLeft \/ Connect \/ Settle \/ Aside \/ UNCHANGED vars
  <2>1. ClientLeaves \/ StreamLeft \/ Connect \/ Settle \/ UNCHANGED vars => s' = s /\ said' = said
    BY DEF ClientLeaves, StreamLeft, Connect, Settle, handling, vars
  <2>2. Aside => s' = s /\ said' = said
    BY DEF Aside
  <2> QED BY <1>2, <1>5, <2>1, <2>2
<1>6. CASE ProducerReads \/ Receive \/ ReceiveStop
  <2>1. a = "xunfei"
    BY <1>6, ProducerReadsIs, ReceiveIs, ReceiveStopIs
  <2> QED BY <1>1, <2>1 DEF Texted, Counting
<1>7. CASE ReadBody \/ TaskImages
  <2>1. ~stream \/ a \in MadeOfBody
    BY <1>7, ReadBodyIs, TaskImagesIs DEF BodySound
  <2> QED BY <1>1, <2>1 DEF Texted, Counting, MadeOfBody
<1> QED
  <2>1. Finished => UNCHANGED vars
    BY DEF Finished
  <2> QED BY <1>3, <1>4, <1>5, <1>6, <1>7, <2>1, IsAside, Zenon DEF Next

\* Kept, as a relation between an adaptor, its usage, the items read and those that told.
UsageOf(b, u, told, items) ==
  /\ b = "completions" => u = NoUsage
  /\ b \in {"openai", "zhipuV4", "zhipu"} =>
       (told = {} /\ u = NoUsage) \/ \E j \in told : (\A k \in told : k <= j) /\ u = items[j].rep
  /\ b = "awsLlama" =>
       (told = {} /\ u.completion = 0)
       \/ \E j \in told : (\A k \in told : k <= j) /\ u.completion = items[j].rep.completion
  /\ b \in {"anthropic", "awsClaude", "cohere", "xunfei"} =>
       u.completion >= 0 /\ \A k \in told : u.completion >= items[k].rep.completion
  /\ b \in {"ali", "ollama"} =>
       u.completion >= 0 /\ (u.completion = 0 => \A k \in told : items[k].rep.completion = 0)
  /\ b = "baidu" =>
       \/ u.completion = 0 /\ \A k \in told : items[k].rep.total = 0
       \/ \E j \in told : /\ u.completion = items[j].rep.total - items[j].rep.prompt
                          /\ \A k \in told : k > j => items[k].rep.total = 0

LEMMA KeptIs == Kept <=> (stream => UsageOf(a, s.usage, Told, said))
  BY DEF Kept, UsageOf, LastTold

LEMMA UsageNext ==
  ASSUME NEW b \in Streaming, NEW u \in UsageType, NEW v \in UsageType, NEW items \in Seq(ItemType), NEW item \in ItemType,
         NEW told, told \subseteq 1..Len(items), Reported(b, u, item, v), UsageOf(b, u, told, items)
  PROVE  UsageOf(b, v, IF Tells(item) THEN told \cup {Len(items) + 1} ELSE told, Append(items, item))
<1> DEFINE n == Len(items) + 1
           new == Append(items, item)
           more == IF Tells(item) THEN told \cup {n} ELSE told
<1> SUFFICES UsageOf(b, v, more, new)
  OBVIOUS
<1>1. /\ n \in Nat /\ new[n] = item /\ \A k \in told : k \in Nat /\ k < n /\ new[k] = items[k]
  BY Appended
<1>2. \A k \in told : items[k].rep \in [prompt : Nat, completion : Nat, total : Nat]
  <2>1. \A k \in told : items[k] \in ItemType
    OBVIOUS
  <2>2. \A i \in ItemType : i.rep \in [prompt : Nat, completion : Nat, total : Nat]
    BY DEF ItemType
  <2> QED BY <2>1, <2>2
<1>3. item.rep \in [prompt : Nat, completion : Nat, total : Nat]
  BY DEF ItemType
<1>4. u.completion \in Int /\ v.completion \in Int
  BY DEF UsageType
<1>5. (Tells(item) => more = told \cup {n}) /\ (~Tells(item) => more = told)
  OBVIOUS
<1> HIDE DEF n, new, more
<1>a. Tells(item) => n \in more /\ \A k \in more : k \in told \/ k = n
  BY <1>5
<1>b. Tells(item) => n \in more /\ \A k \in more : k <= n /\ ~(k > n)
  <2>1. \A k \in Nat : k < n => k <= n /\ ~(k > n)
    BY <1>1
  <2>2. n <= n /\ ~(n > n)
    BY <1>1
  <2> QED BY <1>1, <1>a, <2>1, <2>2, Zenon
<1>6. CASE b = "completions"
  BY <1>6 DEF Reported, UsageOf
<1>7. CASE b \in {"openai", "zhipuV4", "zhipu"}
  <2>1. (told = {} /\ u = NoUsage) \/ \E j \in told : (\A k \in told : k <= j) /\ u = items[j].rep
    BY <1>7 DEF UsageOf
  <2>2. v = IF Tells(item) THEN item.rep ELSE u
    BY <1>7 DEF Reported
  <2>3. (more = {} /\ v = NoUsage) \/ \E j \in more : (\A k \in more : k <= j) /\ v = new[j].rep
    <3>1. CASE Tells(item)
      <4>1. n \in more /\ \A k \in more : k <= n
        BY <1>b, <3>1
      <4> QED BY <1>1, <2>2, <3>1, <4>1
    <3>2. CASE ~Tells(item)
      <4>1. more = told /\ v = u /\ \A k \in told : new[k] = items[k]
        BY <1>1, <1>5, <2>2, <3>2
      <4> QED BY <2>1, <4>1
    <3> QED BY <3>1, <3>2
  <2> QED BY <1>7, <2>3 DEF UsageOf
<1>8. CASE b = "awsLlama"
  <2>1. (told = {} /\ u.completion = 0)
        \/ \E j \in told : (\A k \in told : k <= j) /\ u.completion = items[j].rep.completion
    BY <1>8 DEF UsageOf
  <2>2. v.completion = IF Tells(item) THEN item.rep.completion ELSE u.completion
    BY <1>8 DEF Reported
  <2>3. (more = {} /\ v.completion = 0)
        \/ \E j \in more : (\A k \in more : k <= j) /\ v.completion = new[j].rep.completion
    <3>1. CASE Tells(item)
      <4>1. n \in more /\ \A k \in more : k <= n
        BY <1>b, <3>1
      <4> QED BY <1>1, <2>2, <3>1, <4>1
    <3>2. CASE ~Tells(item)
      <4>1. more = told /\ v.completion = u.completion /\ \A k \in told : new[k] = items[k]
        BY <1>1, <1>5, <2>2, <3>2
      <4> QED BY <2>1, <4>1
    <3> QED BY <3>1, <3>2
  <2> QED BY <1>8, <2>3 DEF UsageOf
<1>9. CASE b \in {"anthropic", "awsClaude", "cohere"}
  <2>1. u.completion >= 0 /\ \A k \in told : u.completion >= items[k].rep.completion
    BY <1>9 DEF UsageOf
  <2>2. v.completion = IF Tells(item) THEN u.completion + item.rep.completion ELSE u.completion
    BY <1>9 DEF Reported
  <2>3. v.completion >= u.completion /\ (Tells(item) => v.completion >= item.rep.completion)
    BY <1>3, <1>4, <2>1, <2>2
  <2>4. v.completion >= 0 /\ \A k \in told : v.completion >= new[k].rep.completion
    BY <1>1, <1>2, <1>4, <2>1, <2>3
  <2>5. v.completion >= 0 /\ \A k \in more : v.completion >= new[k].rep.completion
    BY <1>1, <1>5, <2>3, <2>4
  <2> QED BY <1>9, <2>5 DEF UsageOf
<1>10. CASE b \in {"ali", "ollama"}
  <2>1. u.completion >= 0 /\ (u.completion = 0 => \A k \in told : items[k].rep.completion = 0)
    BY <1>10 DEF UsageOf
  <2>2. v.completion = IF Tells(item) /\ item.rep.completion # 0 THEN item.rep.completion ELSE u.completion
    BY <1>10 DEF Reported
  <2>3. v.completion >= 0 /\ (v.completion = 0 => u.completion = 0 /\ (Tells(item) => item.rep.completion = 0))
    BY <1>3, <1>4, <2>1, <2>2
  <2>4. v.completion = 0 => \A k \in more : new[k].rep.completion = 0
    BY <1>1, <1>5, <2>1, <2>3
  <2> QED BY <1>10, <2>3, <2>4 DEF UsageOf
<1>11. CASE b = "baidu"
  <2> DEFINE Final(w, set, seq) ==
        \/ w = 0 /\ \A k \in set : seq[k].rep.total = 0
        \/ \E j \in set : w = seq[j].rep.total - seq[j].rep.prompt /\ \A k \in set : k > j => seq[k].rep.total = 0
  <2>1. Final(u.completion, told, items)
    BY <1>11 DEF UsageOf
  <2>2. v.completion = IF Tells(item) /\ item.rep.total # 0 THEN item.rep.total - item.rep.prompt ELSE u.completion
    BY <1>11 DEF Reported
  <2>3. Final(v.completion, more, new)
    <3>1. CASE Tells(item) /\ item.rep.total # 0
      <4>1. n \in more /\ \A k \in more : ~(k > n)
        BY <1>b, <3>1
      <4> QED BY <1>1, <2>2, <3>1, <4>1
    <3>2. CASE ~(Tells(item) /\ item.rep.total # 0)
      <4>1. v.completion = u.completion
        BY <2>2, <3>2
      <4>2. \A k \in more : (k \in told /\ new[k] = items[k]) \/ (k = n /\ new[k].rep.total = 0)
        BY <1>1, <1>5, <3>2
      <4>3. CASE u.completion = 0 /\ \A k \in told : items[k].rep.total = 0
        BY <4>1, <4>2, <4>3
      <4>4. ASSUME NEW j \in told, u.completion = items[j].rep.total - items[j].rep.prompt,
                   \A k \in told : k > j => items[k].rep.total = 0
            PROVE  Final(v.completion, more, new)
        <5>1. j \in more /\ new[j] = items[j]
          BY <1>1, <1>5
        <5>2. \A k \in more : k > j => new[k].rep.total = 0
          BY <4>2, <4>4
        <5> QED BY <4>1, <4>4, <5>1, <5>2
      <4> QED BY <2>1, <4>3, <4>4
    <3> QED BY <3>1, <3>2
  <2> QED BY <1>11, <2>3 DEF UsageOf
<1>12. CASE b \notin {"completions", "openai", "zhipuV4", "zhipu", "awsLlama", "anthropic", "awsClaude", "cohere", "ali", "ollama", "baidu"}
  <2>1. b # "xunfei"
    BY DEF Streaming
  <2> QED BY <1>12, <2>1 DEF UsageOf
<1> QED BY <1>6, <1>7, <1>8, <1>9, <1>10, <1>11, <1>12

\* Reports that tell, as they grow with an item.
LEMMA ToldIs ==
  ASSUME TypeInv, NEW item \in ItemType, said' = Append(said, item), Handled = Len(said)
  PROVE  /\ Handled' = Len(said) + 1 => Told' = IF Tells(item) THEN Told \cup {Len(said) + 1} ELSE Told
         /\ Handled' = Len(said) => Told' = Told
<1>1. /\ Len(said) \in Nat /\ said'[Len(said) + 1] = item
      /\ \A k \in 1..Len(said) : said'[k] = said[k]
  BY DEF TypeInv
<1> DEFINE Talks(set, items) == {k \in set : items[k].kind \in {"usage", "both", "start"}}
           n == Len(said)
<1>2. Told = Talks(1..n, said) /\ Told' = Talks(1..Handled', said')
  BY DEF Told
<1>3. Talks(1..n, said') = Talks(1..n, said)
  BY <1>1
<1>4. Talks(1..(n + 1), said') = IF Tells(item) THEN Talks(1..n, said') \cup {n + 1} ELSE Talks(1..n, said')
  <2>1. 1..(n + 1) = (1..n) \cup {n + 1}
    BY <1>1
  <2>2. Tells(item) <=> said'[n + 1].kind \in {"usage", "both", "start"}
    BY <1>1 DEF Tells
  <2> QED BY <2>1, <2>2
<1> QED BY <1>2, <1>3, <1>4

LEMMA KeptStep ==
  ASSUME TypeInv, Begun, Producing, Kept, [Next]_vars
  PROVE  Kept'
<1>0. a' = a /\ (stream' <=> stream)
  BY SameCall
<1>a. s \in LocalsType /\ said \in Seq(ItemType) /\ s.usage \in UsageType /\ Len(said) \in Nat
  BY DEF TypeInv, LocalsType
<1>b. Kept' <=> (stream => UsageOf(a, s'.usage, Told', said'))
  <2>1. (Kept <=> (stream => UsageOf(a, s.usage, Told, said)))'
    BY KeptIs, PTL
  <2> QED BY <1>0, <2>1
<1>c. stream => UsageOf(a, s.usage, Told, said)
  BY KeptIs
<1>1. CASE ~stream
  BY <1>b, <1>1
<1>2. CASE a \in MadeOfBody
  BY <1>b, <1>2 DEF UsageOf, MadeOfBody
<1>3. ASSUME said' = said, s'.usage = s.usage, (producer' = "sending") <=> (producer = "sending")
      PROVE  Kept'
  <2>1. Handled' = Handled
    BY <1>3 DEF Handled
  <2>2. Told' = Told
    BY <1>3, <2>1 DEF Told
  <2> QED BY <1>3, <1>b, <1>c, <2>2
<1>4. CASE ReadItem
  <2>1. PICK item \in Items(Sends(a)) : /\ item \in ItemType /\ said' = Append(said, item)
                                        /\ Rendering(a, s, item, Len(said) + 1, s') /\ Metering(a, s, item, s')
    BY <1>4, ReadItemIs
  <2>2. stream /\ a \in Streaming /\ producer = "none" /\ producer' = "none"
    BY <1>4, ReadItemIs DEF Producing, ReadItem
  <2>3. s'.usage \in UsageType /\ Reported(a, s.usage, item, s'.usage)
    <3>1. s' \in LocalsType
      BY <2>1, Zenon DEF Rendering
    <3>2. Reported(a, s.usage, item, s'.usage)
      BY <2>1, Zenon DEF Metering
    <3> QED BY <3>1, <3>2 DEF LocalsType
  <2>4. Handled = Len(said) /\ Handled' = Len(said) + 1
    BY <1>a, <2>1, <2>2 DEF Handled
  <2>5. Told' = IF Tells(item) THEN Told \cup {Len(said) + 1} ELSE Told
    BY <2>1, <2>4, ToldIs
  <2>6. Told \subseteq 1..Len(said)
    BY <2>4 DEF Told
  <2>7. UsageOf(a, s.usage, Told, said)
    BY <1>c, <2>2
  <2>8. UsageOf(a, s'.usage, IF Tells(item) THEN Told \cup {Len(said) + 1} ELSE Told, Append(said, item))
    BY <1>a, <2>1, <2>2, <2>3, <2>6, <2>7, UsageNext
  <2> QED BY <1>b, <2>1, <2>5, <2>8
<1>5. CASE EndOfStream
  <2>1. said' = said /\ (s' = s \/ s' = AfterLoop(a, s)) /\ producer' = producer
    BY <1>5, EndOfStreamIs
  <2>2. AfterLoop(a, s).usage = s.usage
    BY <1>a, AfterLoopIs
  <2> QED BY <1>3, <2>1, <2>2
<1>6. CASE ClientLeaves \/ StreamLeft \/ Settle \/ Aside \/ UNCHANGED vars
  <2>1. ClientLeaves \/ StreamLeft \/ Settle \/ UNCHANGED vars => s' = s /\ said' = said /\ producer' = producer
    BY DEF ClientLeaves, StreamLeft, Settle, handling, vars
  <2>2. Aside => s' = s /\ said' = said /\ producer' = producer
    BY DEF Aside
  <2> QED BY <1>3, <1>6, <2>1, <2>2
<1>7. CASE Connect /\ producer' # producer
  <2>1. s' = s /\ said' = said /\ pc = "connecting" /\ producer' = "reading"
    BY <1>7 DEF Connect
  <2>2. producer = "none"
    BY <2>1 DEF Begun, Before
  <2> QED BY <1>3, <2>1, <2>2
<1>8. CASE ProducerReads
  <2>1. /\ a = "xunfei" /\ producer = "reading" /\ s' = s
        /\ \/ producer' = "stopping" /\ said' = said
           \/ \E item \in Items(Sends(a)) : item \in ItemType /\ producer' = "sending" /\ said' = Append(said, item)
    BY <1>8, ProducerReadsIs
  <2>2. CASE producer' = "stopping" /\ said' = said
    BY <1>3, <2>1, <2>2
  <2>3. ASSUME NEW item \in ItemType, producer' = "sending", said' = Append(said, item)
        PROVE  Kept'
    <3>1. Handled = Len(said) /\ Handled' = Len(said)
      BY <1>a, <2>1, <2>3 DEF Handled
    <3>2. Told' = Told
      BY <2>3, <3>1, ToldIs
    <3>3. \A k \in Told : said'[k] = said[k]
      BY <1>a, <2>3, <3>1 DEF Told
    <3>4. stream => s'.usage.completion >= 0 /\ \A k \in Told : s'.usage.completion >= said'[k].rep.completion
      BY <1>c, <2>1, <3>3 DEF UsageOf
    <3> QED BY <1>b, <2>1, <3>2, <3>4 DEF UsageOf
  <2> QED BY <2>1, <2>2, <2>3
<1>9. CASE Receive /\ stream
  <2> DEFINE n == Len(said)
             item == said[n]
  <2>1. /\ a = "xunfei" /\ producer = "sending" /\ producer' \in {"reading", "stopping"} /\ said' = said
        /\ s' = XunfeiItem(s, item, n) /\ item \in ItemType /\ n \in Nat \ {0}
    BY <1>9, ReceiveIs
  <2>2. s'.usage.completion = s.usage.completion + item.rep.completion
    <3>1. n \in Int
      BY <2>1
    <3> HIDE DEF n, item
    <3> QED BY <1>a, <2>1, <3>1, XunfeiIs
  <2>3. Handled = n - 1 /\ Handled' = n
    BY <2>1 DEF Handled
  <2>4. \A k \in Told' : k \in Told \/ said[k] = item
    <3>1. \A k \in 1..n : k \in 1..(n - 1) \/ k = n
      BY <2>1
    <3> QED BY <2>1, <2>3, <3>1 DEF Told
  <2>5. item.rep.completion \in Nat /\ s.usage.completion \in Int
    BY <1>a, <2>1 DEF ItemType, UsageType
  <2>6. s.usage.completion >= 0 /\ \A k \in Told : s.usage.completion >= said[k].rep.completion
    BY <1>9, <1>c, <2>1 DEF UsageOf
  <2>7. \A k \in Told : said[k].rep.completion \in Int
    <3>1. \A k \in Told : k \in 1..n
      BY <2>1, <2>3 DEF Told
    <3>2. \A k \in Told : said[k] \in ItemType
      BY <1>a, <3>1
    <3>3. \A x \in ItemType : x.rep.completion \in Int
      BY DEF ItemType
    <3> QED BY <3>2, <3>3
  <2> HIDE DEF item
  <2>8. s'.usage.completion >= s.usage.completion /\ s'.usage.completion >= item.rep.completion
        /\ s'.usage.completion >= 0 /\ s'.usage.completion \in Int
    BY <2>2, <2>5, <2>6
  <2>9. \A k \in Told' : s'.usage.completion >= said[k].rep.completion
    BY <2>4, <2>5, <2>6, <2>7, <2>8
  <2> QED BY <1>b, <2>1, <2>8, <2>9 DEF UsageOf
<1>10. CASE ReceiveStop /\ stream
  <2>1. said' = said /\ producer = "stopping" /\ producer' = "ended" /\ s' = Render(s, Done)
    BY <1>10, ReceiveStopIs
  <2>2. s'.usage = s.usage
    BY <1>a, <2>1, MarkIs
  <2> QED BY <1>3, <2>1, <2>2
<1>11. CASE ReadBody \/ TaskImages
  <2>1. ~stream \/ a \in MadeOfBody
    BY <1>11, ReadBodyIs, TaskImagesIs DEF BodySound
  <2> QED BY <1>1, <1>2, <2>1
<1> QED
  <2>1. Finished => UNCHANGED vars
    BY DEF Finished
  <2> QED BY <1>1, <1>4, <1>5, <1>6, <1>7, <1>8, <1>9, <1>10, <1>11, <2>1, IsAside, Zenon DEF Next

-----------------------------------------------------------------------------
(* What is returned and charged. *)

LEMMA SameUsage ==
  ASSUME NEW ad, NEW l, NEW m, l.text = m.text, l.usage = m.usage
  PROVE  StreamUsage(ad, l) = StreamUsage(ad, m)
<1>1. OpenaiUsage(l) = OpenaiUsage(m)
  BY DEF OpenaiUsage
<1> QED BY <1>1 DEF StreamUsage

LEMMA ReturnedStep ==
  ASSUME TypeInv, Begun, Producing, Returned, Charged, [Next]_vars
  PROVE  Returned' /\ Charged'
<1>0. a' = a /\ (stream' <=> stream)
  BY SameCall
<1>a. s \in LocalsType
  BY DEF TypeInv
<1>b. (stream => /\ a \notin MadeOfBody => result'.usage = StreamUsage(a, s')
                 /\ a = "palm" => result'.usage = ResponseText2Usage(s'.text)) => Returned'
  BY <1>0 DEF Returned, MadeOfBody, StreamUsage, OpenaiUsage, ResponseText2Usage, Usage, NoUsage, Counting
<1>1. CASE pc' \notin Over \/ ~stream \/ result'.err # "none"
  BY <1>0, <1>1 DEF Returned, Charged, Over
<1>2. CASE EndOfStream
  <2>1. pc' = "returned" /\ stream /\ a \in Streaming
    BY <1>2, EndOfStreamIs
  <2>2. result'.err = "none" => s' = AfterLoop(a, s) /\ result' = Result("none", StreamUsage(a, s))
    BY <1>2, EndOfStreamIs, Values
  <2>3. AfterLoop(a, s).text = s.text /\ AfterLoop(a, s).usage = s.usage
    BY <1>a, AfterLoopIs
  <2>4. result'.err = "none" => result'.usage = StreamUsage(a, s')
    <3>1. StreamUsage(a, AfterLoop(a, s)) = StreamUsage(a, s)
      BY <2>3, SameUsage
    <3>2. Result("none", StreamUsage(a, s)).usage = StreamUsage(a, s)
      BY DEF Result
    <3> QED BY <2>2, <3>1, <3>2
  <2>5. a # "palm"
    BY <2>1 DEF Streaming
  <2>6. Charged'
    BY <2>1 DEF Charged
  <2> QED BY <1>1, <1>b, <2>4, <2>5, <2>6
<1>3. CASE StreamLeft
  <2>1. pc' = "returned" /\ s' = s /\ result'.usage = StreamUsage(a, s) /\ a # "palm"
    BY <1>3, StreamLeftIs DEF Result, ByGin
  <2>2. Charged'
    BY <2>1 DEF Charged
  <2> QED BY <1>b, <2>1, <2>2
<1>4. CASE ReceiveStop /\ stream
  <2>1. a = "xunfei" /\ pc' = "returned" /\ s' = Render(s, Done) /\ result' = Result("none", s.usage)
    BY <1>4, ReceiveStopIs
  <2>2. s'.usage = s.usage
    BY <1>a, <2>1, MarkIs
  <2>3. StreamUsage(a, s') = s'.usage
    BY <2>1 DEF StreamUsage, Counting
  <2>4. Charged'
    BY <2>1 DEF Charged
  <2>5. result'.usage = s.usage
    BY <2>1 DEF Result
  <2> QED BY <1>b, <2>1, <2>2, <2>3, <2>4, <2>5
<1>5. CASE ReadBody /\ stream
  <2>1. PICK b \in Bodies : \E o : BodySound(b, o) /\ result' = o.result /\ s'.text = b.text
    BY <1>5, ReadBodyIs
  <2>2. a \in MadeOfBody /\ (result'.err = "none" /\ a = "palm" => result'.usage = ResponseText2Usage(s'.text))
    BY <1>5, <2>1 DEF BodySound, StreamOf
  <2>3. pc' = "returned"
    BY <1>5, ReadBodyIs
  <2>4. Charged'
    BY <2>3 DEF Charged
  <2> QED BY <1>1, <1>b, <2>2, <2>4
<1>6. CASE ProducerReads \/ UNCHANGED vars
  <2>1. s' = s /\ result' = result /\ bill' = bill /\ pc' = pc
    BY <1>6 DEF ProducerReads, vars, handling
  <2>2. Returned'
    BY <1>0, <2>1 DEF Returned, MadeOfBody, StreamUsage, OpenaiUsage, ResponseText2Usage, Usage, NoUsage, Counting, Over
  <2>3. Charged'
    BY <1>0, <2>1 DEF Charged, Quota
  <2> QED BY <2>2, <2>3
<1>7. CASE Settle
  <2>1. s' = s /\ result' = result /\ pc = "returned" /\ pc' = "end"
    BY <1>7 DEF Settle, handling
  <2>2. Returned'
    BY <1>0, <2>1 DEF Returned, MadeOfBody, StreamUsage, OpenaiUsage, ResponseText2Usage, Usage, NoUsage, Counting, Over
  <2>3. stream /\ result.err = "none" =>
          IF result.usage = NoUsage THEN bill'.state = "left" ELSE bill' = [state |-> "settled", amount |-> Quota(result.usage)]
    <3> SUFFICES ASSUME stream, result.err = "none"
                 PROVE  IF result.usage = NoUsage THEN bill'.state = "left"
                        ELSE bill' = [state |-> "settled", amount |-> Quota(result.usage)]
      OBVIOUS
    <3>1. Priced
      BY DEF Priced, stream
    <3>2. bill \in [state : {"none", "held", "left", "returned", "settled"}, amount : Int]
      BY DEF TypeInv
    <3>3. CASE result.usage = NoUsage
      <4>1. bill' = [bill EXCEPT !.state = "left"]
        BY <1>7, <3>1, <3>3 DEF Settle
      <4> QED BY <3>2, <3>3, <4>1
    <3>4. CASE result.usage # NoUsage
      BY <1>7, <3>1, <3>4 DEF Settle
    <3> QED BY <3>3, <3>4
  <2>4. Charged'
    <3>1. Charged' <=> (stream /\ result.err = "none" =>
            IF result.usage = NoUsage THEN bill'.state = "left"
            ELSE bill' = [state |-> "settled", amount |-> Quota(result.usage)])
      BY <1>0, <2>1 DEF Charged, Quota, NoUsage, Usage
    <3> QED BY <2>3, <3>1, Zenon
  <2> QED BY <2>2, <2>4
<1>8. CASE Aside
  <2>1. pc' \in Over => result' \in {Failed, Crashed}
    BY <1>8 DEF Aside, Over
  <2>2. pc' \in Over => result'.err # "none"
    BY <2>1, Values
  <2> QED BY <1>1, <2>2
<1>9. CASE ReadItem \/ ClientLeaves \/ Receive \/ (Connect /\ producer' # producer)
  <2>1. pc' \notin Over
    BY <1>9 DEF ReadItem, ClientLeaves, Receive, Connect, Over
  <2> QED BY <1>1, <2>1
<1>10. CASE TaskImages
  BY <1>1, <1>10, TaskImagesIs
<1> QED
  <2>1. Finished => UNCHANGED vars
    BY DEF Finished
  <2> QED BY <1>1, <1>2, <1>3, <1>4, <1>5, <1>6, <1>7, <1>8, <1>9, <1>10, <2>1, IsAside, Zenon DEF Next

-----------------------------------------------------------------------------
(* The invariant. *)

LEMMA InvariantInit == Init => IInv
<1> SUFFICES ASSUME Init PROVE IInv
  OBVIOUS
<1>1. TypeInv /\ Begun /\ Producing /\ Unread
  BY PlacesInit
<1>2. pc = "start" /\ said = <<>> /\ producer = "none"
  BY DEF Init
<1>3. s.out = <<>> /\ s.text = 0 /\ s.usage = InitialUsage(a) /\ s.done = FALSE /\ s.ended = "no"
  <2>1. s = Locals(InitialUsage(a))
    BY DEF Init, a
  <2> QED BY <2>1, InitialUsageTyped, LocalsTyped
<1>4. Handled = 0
  BY <1>2 DEF Handled
<1>5. Quiet /\ SilentOnError /\ Marked /\ Closed /\ Returned /\ Charged
  BY <1>2 DEF Quiet, SilentOnError, Marked, Closed, Returned, Charged, Over
<1>6. Rendered /\ Counted
  BY <1>2, <1>3, <1>4 DEF Rendered, Counted
<1>7. Kept
  <2>1. Told = {}
    BY <1>4 DEF Told
  <2>2. a \in {"openai", "completions", "zhipuV4", "zhipu"} => s.usage = NoUsage
    BY <1>3 DEF InitialUsage
  <2>3. a \notin {"openai", "completions", "zhipuV4", "zhipu"} => s.usage.completion = 0
    BY <1>3, Values DEF InitialUsage
  <2>4. UsageOf(a, s.usage, {}, said)
    BY <2>2, <2>3 DEF UsageOf
  <2> QED BY <2>1, <2>4, KeptIs
<1> QED BY <1>1, <1>5, <1>6, <1>7 DEF IInv

LEMMA InvariantStep == IInv /\ [Next]_vars => IInv'
<1> SUFFICES ASSUME IInv, [Next]_vars PROVE IInv'
  OBVIOUS
<1>1. TypeInv' /\ Begun' /\ Producing' /\ Unread'
  BY PlacesStep DEF IInv
<1>2. Quiet' /\ SilentOnError'
  BY SilentStep DEF IInv
<1>3. Rendered' /\ Marked' /\ Closed'
  BY RenderedStep, MarkedStep, ClosedStep DEF IInv
<1>4. Counted' /\ Kept'
  BY CountedStep, KeptStep DEF IInv
<1>5. Returned' /\ Charged'
  BY ReturnedStep DEF IInv
<1> QED BY <1>1, <1>2, <1>3, <1>4, <1>5, Zenon DEF IInv

\* The places of a request and of the goroutine, what is rendered and remembered, and how
\* the usage and the charge come from what was read, hold of every reachable state
\* (RelayTextHelper, the stream handlers and DoResponse of every adaptor).
THEOREM Invariant == Spec => []IInv
  BY InvariantInit, InvariantStep, PTL DEF Spec

-----------------------------------------------------------------------------
(* What follows for the properties. *)

\* xunfei's goroutine has ended when the request is over, unless the client of a stream
\* went away (xunfeiMakeRequest hands every message and the stop signal over unbuffered
\* channels that both handlers serve to the end).
THEOREM GoroutineEnds == Spec => []ProducerNotLeft
<1>1. IInv => ProducerNotLeft
  BY DEF IInv, Producing, ProducerNotLeft, Over
<1> QED BY <1>1, Invariant, PTL

\* No handler has written to the client when it reports an error, but for the errors that
\* come after the answer (the returns of the handlers, and the retry of controller.Relay
\* that relies on it).
THEOREM ErrorsAreSilent == Spec => []SilentOnError
<1>1. IInv => SilentOnError
  BY DEF IInv
<1> QED BY <1>1, Invariant, PTL

\* A stream that was served to its end has [DONE] as its last chunk and nowhere else
\* (render.Done and doneRendered in the stream handlers).
THEOREM StreamsAreClosed == Spec => []DoneClosesStream
<1>1. IInv => DoneClosesStream
  <2> SUFFICES ASSUME IInv, Succeeded, stream, ~CutShort, ~OddMark
               PROVE  {k \in DOMAIN s.out : s.out[k] = Done} = {Len(s.out)}
    BY DEF DoneClosesStream
  <2>1. ClosedBy(s.out)
    BY DEF IInv, Closed, Succeeded, Over
  <2>2. s.out \in Seq(Int)
    BY DEF IInv, TypeInv, LocalsType
  <2>3. Len(s.out) \in DOMAIN s.out
    BY <2>1, <2>2 DEF ClosedBy
  <2> QED BY <2>1, <2>3 DEF ClosedBy
<1> QED BY <1>1, Invariant, PTL

\* The text of a stream is rendered once and in its order, for streams of any length
\* (what each stream handler renders of an item).
THEOREM TextOnceInOrder == Spec => []TextRenderedOnce
<1>1. IInv => TextRenderedOnce
  <2> SUFFICES ASSUME IInv PROVE TextRenderedOnce
    OBVIOUS
  <2> DEFINE text == {j \in DOMAIN s.out : s.out[j] > 0 /\ Due(s.out[j])}
  <2>1. TextRenderedOnce <=> (stream /\ said # <<>> /\ s.ended # "stop" =>
          /\ \A i, j \in text : i < j => s.out[i] < s.out[j]
          /\ {s.out[j] : j \in text} = {k \in 1..Handled : Due(k)})
    BY DEF TextRenderedOnce
  <2> SUFFICES ASSUME stream, said # <<>>, s.ended # "stop"
               PROVE  /\ \A i, j \in text : i < j => s.out[i] < s.out[j]
                      /\ {s.out[j] : j \in text} = {k \in 1..Handled : Due(k)}
    BY <2>1
  <2>2. a \notin MadeOfBody
    BY DEF IInv, Unread
  <2>3. /\ \A j \in DOMAIN s.out : s.out[j] <= Handled
        /\ \A j, k \in DOMAIN s.out : (j < k /\ s.out[j] > 0 /\ s.out[k] > 0) => s.out[j] < s.out[k]
        /\ \A k \in 1..Handled : Due(k) => \E j \in DOMAIN s.out : s.out[j] = k
    BY <2>2 DEF IInv, Rendered
  <2>4. \A j \in DOMAIN s.out : s.out[j] \in Int
    BY DEF IInv, TypeInv, LocalsType
  <2>5. Handled \in Int
    BY DEF IInv, TypeInv, Handled
  <2>6. \A i, j \in text : i < j => s.out[i] < s.out[j]
    BY <2>3
  <2>7. \A j \in text : s.out[j] \in 1..Handled /\ Due(s.out[j])
    BY <2>3, <2>4, <2>5
  <2>8. \A k \in 1..Handled : Due(k) => \E j \in text : s.out[j] = k
    BY <2>3, <2>5
  <2> HIDE DEF text
  <2>9. {s.out[j] : j \in text} = {k \in 1..Handled : Due(k)}
    BY <2>7, <2>8
  <2> QED BY <2>6, <2>9
<1> QED BY <1>1, Invariant, PTL

\* A charge of no more than the prompt is that of a completion of nothing.
LEMMA CheapIs ==
  ASSUME NEW u \in UsageType, Quota(u) <= u.prompt
  PROVE  u.completion <= 0
<1> DEFINE p == u.prompt
           c == u.completion
           q == p + c * CompletionRatio
<1>1. p \in Int /\ c \in Int /\ CompletionRatio \in Nat /\ CompletionRatio > 0
  BY AdaptorAssumption DEF UsageType
<1>2. Quota(u) = IF p + c = 0 THEN 0 ELSE IF q <= 0 THEN 1 ELSE q
  <2>1. CASE p + c = 0
    BY <2>1 DEF Quota
  <2>2. CASE p + c # 0 /\ q <= 0
    BY <2>2 DEF Quota
  <2>3. CASE p + c # 0 /\ ~(q <= 0)
    BY <2>3 DEF Quota
  <2> QED BY <2>1, <2>2, <2>3
<1> HIDE DEF p, c
<1>3. c > 0 => c * CompletionRatio > 0
  BY <1>1
<1>4. c * CompletionRatio \in Int
  BY <1>1
<1>5. Quota(u) <= p
  BY DEF p
<1>6. c <= 0
  <2> SUFFICES ASSUME c > 0 PROVE FALSE
    BY <1>1
  <2> DEFINE w == c * CompletionRatio
  <2>1. w \in Int /\ w > 0
    BY <1>3, <1>4
  <2>2. Quota(u) = IF p + c = 0 THEN 0 ELSE IF p + w <= 0 THEN 1 ELSE p + w
    BY <1>2
  <2> HIDE DEF w
  <2> QED BY <1>1, <1>5, <2>1, <2>2
<1> QED BY <1>6 DEF c

\* openai's usage is the last report, completed if it has no prompt, unless there was none.
LEMMA OpenaiUsageIs ==
  ASSUME NEW l \in LocalsType
  PROVE  /\ l.usage = NoUsage \/ l.usage.total = 0 => OpenaiUsage(l).completion = l.text
         /\ l.usage # NoUsage /\ l.usage.total # 0 =>
              OpenaiUsage(l).completion = IF l.usage.prompt = 0 THEN l.usage.total - PromptTokens ELSE l.usage.completion
<1>1. l.usage \in UsageType /\ l.text \in Nat
  BY DEF LocalsType
<1>2. CASE l.usage = NoUsage \/ l.usage.total = 0
  <2> DEFINE u == ResponseText2Usage(l.text)
  <2>1. u.prompt = PromptTokens /\ u.completion = l.text
    BY <1>1, UsageTypes
  <2>2. OpenaiUsage(l) = IF u.total # 0 /\ u.prompt = 0
          THEN [u EXCEPT !.prompt = PromptTokens, !.completion = u.total - PromptTokens] ELSE u
    BY <1>2 DEF OpenaiUsage
  <2> HIDE DEF u
  <2>3. OpenaiUsage(l) = u
    BY <2>1, <2>2, HandlerAssumption
  <2> QED BY <1>2, <2>1, <2>3
<1>3. CASE ~(l.usage = NoUsage \/ l.usage.total = 0)
  <2> DEFINE u == l.usage
  <2>1. OpenaiUsage(l) = IF u.total # 0 /\ u.prompt = 0
          THEN [u EXCEPT !.prompt = PromptTokens, !.completion = u.total - PromptTokens] ELSE u
    BY <1>3 DEF OpenaiUsage
  <2>2. u \in UsageType /\ u.total # 0
    BY <1>1, <1>3
  <2> HIDE DEF u
  <2>3. OpenaiUsage(l).completion = IF u.prompt = 0 THEN u.total - PromptTokens ELSE u.completion
    BY <2>1, <2>2 DEF UsageType
  <2> QED BY <1>3, <2>3 DEF u
<1> QED BY <1>2, <1>3

\* What the last telling report, or all of them, gave when the completion came to nothing.
LEMMA ToldNothingIs ==
  ASSUME IInv, stream, a \in Streaming \cup {"xunfei"}, a \notin Counting \cup {"completions", "aiproxy"},
         result.usage = StreamUsage(a, s), result.usage.completion <= 0, a = "openai" => s.text > 0
  PROVE  /\ ToldNothing
         /\ a = "openai" => \E k \in Told : said[k].rep.total # 0
<1>a. UsageOf(a, s.usage, Told, said) /\ s \in LocalsType /\ s.usage \in UsageType /\ s.text \in Nat
  BY KeptIs DEF IInv, TypeInv, LocalsType
<1>b. \A k \in Told : k \in Int /\ said[k].rep \in [prompt : Nat, completion : Nat, total : Nat]
  <2>1. Told \subseteq 1..Len(said) /\ said \in Seq(ItemType)
    BY DEF Told, Handled, IInv, TypeInv
  <2>2. \A k \in Told : k \in Int /\ said[k] \in ItemType
    BY <2>1
  <2> QED BY <2>2 DEF ItemType
<1>c. a # "openai" => result.usage = s.usage
  BY DEF StreamUsage
<1>1. CASE a = "openai"
  <2>1. result.usage = OpenaiUsage(s)
    BY <1>1 DEF StreamUsage, Counting
  <2>2. s.usage # NoUsage /\ s.usage.total # 0
    BY <1>1, <1>a, <2>1, OpenaiUsageIs
  <2>3. PICK j \in Told : (\A k \in Told : k <= j) /\ s.usage = said[j].rep
    BY <1>1, <1>a, <2>2 DEF UsageOf
  <2>4. Gives(said[j].rep) <= 0
    <3>1. Gives(said[j].rep) = result.usage.completion
      BY <1>1, <1>a, <2>1, <2>2, <2>3, OpenaiUsageIs DEF Gives
    <3> QED BY <3>1
  <2>5. \A k \in Told : k = j \/ j > k
    BY <1>b, <2>3
  <2>6. ToldNothing
    BY <1>1, <2>4, <2>5 DEF ToldNothing, Taking
  <2> QED BY <2>2, <2>3, <2>6
<1>2. CASE a \in {"zhipuV4", "zhipu", "awsLlama"}
  <2>1. Told = {} \/ \E j \in Told : (\A k \in Told : k <= j) /\ s.usage.completion = said[j].rep.completion
    BY <1>2, <1>a DEF UsageOf
  <2>2. CASE Told = {}
    BY <1>2, <2>2 DEF ToldNothing
  <2>3. ASSUME NEW j \in Told, \A k \in Told : k <= j, s.usage.completion = said[j].rep.completion
        PROVE  ToldNothing
    <3>1. Gives(said[j].rep) = said[j].rep.completion
      BY <1>2 DEF Gives
    <3>2. Gives(said[j].rep) <= 0
      BY <1>2, <1>c, <2>3, <3>1
    <3>3. \A k \in Told : k = j \/ j > k
      BY <1>b, <2>3
    <3> QED BY <1>2, <3>2, <3>3 DEF ToldNothing, Taking
  <2> QED BY <1>2, <2>1, <2>2, <2>3
<1>3. CASE a \in {"anthropic", "awsClaude", "cohere", "xunfei", "ali", "ollama"}
  <2>1. \A k \in Told : Gives(said[k].rep) = said[k].rep.completion
    BY <1>3 DEF Gives
  <2>2. \A k \in Told : said[k].rep.completion <= 0
    <3>1. s.usage.completion <= 0 /\ s.usage.completion \in Int
      BY <1>3, <1>a, <1>c DEF UsageType
    <3>2. CASE a \in {"anthropic", "awsClaude", "cohere", "xunfei"}
      <4>1. \A k \in Told : s.usage.completion >= said[k].rep.completion
        BY <1>a, <3>2 DEF UsageOf
      <4> QED BY <1>b, <3>1, <4>1
    <3>3. CASE a \in {"ali", "ollama"}
      <4>1. s.usage.completion >= 0 /\ (s.usage.completion = 0 => \A k \in Told : said[k].rep.completion = 0)
        BY <1>a, <3>3 DEF UsageOf
      <4>2. s.usage.completion = 0
        BY <3>1, <4>1
      <4> QED BY <4>1, <4>2
    <3> QED BY <1>3, <3>2, <3>3
  <2> QED BY <1>3, <2>1, <2>2 DEF ToldNothing
<1>4. CASE a = "baidu"
  <2>1. \A k \in Told : Gives(said[k].rep) = said[k].rep.total - said[k].rep.prompt
    BY <1>4 DEF Gives
  <2>2. \A k \in Told : said[k].rep.total = 0 => Gives(said[k].rep) <= 0
    BY <1>b, <2>1
  <2>3. \/ \A k \in Told : said[k].rep.total = 0
        \/ \E j \in Told : /\ s.usage.completion = said[j].rep.total - said[j].rep.prompt
                           /\ \A k \in Told : k > j => said[k].rep.total = 0
    BY <1>4, <1>a DEF UsageOf
  <2>4. CASE \A k \in Told : said[k].rep.total = 0
    BY <1>4, <2>2, <2>4 DEF ToldNothing
  <2>5. ASSUME NEW j \in Told, s.usage.completion = said[j].rep.total - said[j].rep.prompt,
               \A k \in Told : k > j => said[k].rep.total = 0
        PROVE  ToldNothing
    <3>1. Gives(said[j].rep) <= 0
      BY <1>4, <1>c, <2>1, <2>5
    <3>2. \A k \in Told : k > j \/ k = j \/ j > k
      BY <1>b
    <3>3. \A k \in Told : Gives(said[k].rep) <= 0 \/ (a \in Taking /\ \E i \in Told : i > k /\ Gives(said[i].rep) <= 0)
      BY <1>4, <2>2, <2>5, <3>1, <3>2 DEF Taking
    <3> QED BY <3>3 DEF ToldNothing
  <2> QED BY <1>4, <2>3, <2>4, <2>5
<1> QED BY <1>1, <1>2, <1>3, <1>4 DEF Streaming, Counting

\* A stream whose text reached the client is charged no more than its prompt only by an
\* adaptor that meters none or was told of none: never by one that counts the text, nor
\* by openai's unless a total was reported (StreamHandler's ResponseText2Usage and the
\* usage every other handler returns, and postConsumeQuota's charge).
THEOREM FreeTextForCause == Spec => []FreeTextHasCause
<1>1. IInv => FreeTextHasCause
  <2> SUFFICES ASSUME IInv, Succeeded, stream, s.text + Len(said) > 0,
                      said = <<>> \/ \E k \in DOMAIN s.out : s.out[k] > 0 /\ HasText(said[s.out[k]]),
                      bill.state # "settled" \/ bill.amount <= result.usage.prompt
               PROVE  /\ a \notin Counting \cup {"completions", "palm"}
                      /\ a \in {"aiproxy", "deepl"} \/ ToldNothing
                      /\ a = "openai" => \E k \in Told : said[k].rep.total # 0
    BY Zenon DEF FreeTextHasCause
  <2>1. TypeInv /\ Unread /\ Counted /\ Rendered /\ Returned /\ Charged
    BY DEF IInv
  <2>2. pc = "end" /\ result.err = "none"
    BY DEF Succeeded
  <2>3. s \in LocalsType /\ s.text \in Nat /\ result.usage \in UsageType /\ said \in Seq(ItemType)
        /\ s.out \in Seq(Int)
    BY <2>1 DEF TypeInv, LocalsType, ResultType
  <2>4. result.usage.completion <= 0
    <3>1. CASE result.usage = NoUsage
      BY <3>1, Values
    <3>2. CASE result.usage # NoUsage
      <4>1. bill = [state |-> "settled", amount |-> Quota(result.usage)]
        BY <2>1, <2>2, <3>2 DEF Charged
      <4>2. Quota(result.usage) <= result.usage.prompt
        BY <4>1
      <4> QED BY <2>3, <4>2, CheapIs
    <3> QED BY <3>1, <3>2
  <2>5. a \notin MadeOfBody => result.usage = StreamUsage(a, s)
    BY <2>1, <2>2 DEF Returned, Over
  <2>6. a \in Texted => s.text > 0
    <3> SUFFICES ASSUME a \in Texted PROVE s.text > 0
      OBVIOUS
    <3>1. CASE said = <<>>
      BY <2>3, <3>1
    <3>2. CASE said # <<>>
      <4>1. PICK k \in DOMAIN s.out : s.out[k] > 0 /\ HasText(said[s.out[k]])
        BY <3>2
      <4>2. s.out[k] <= Handled /\ s.out[k] \in Int
        <5>1. a \notin MadeOfBody
          BY DEF Texted, MadeOfBody, Counting
        <5> QED BY <2>1, <2>3, <5>1 DEF Rendered
      <4>3. s.out[k] \in DOMAIN said
        BY <2>3, <4>1, <4>2 DEF Handled
      <4> QED BY <2>1, <4>1, <4>3 DEF Counted
    <3> QED BY <3>1, <3>2
  <2>7. a \notin Counting
    <3> SUFFICES ASSUME a \in Counting PROVE FALSE
      OBVIOUS
    <3>1. a \notin MadeOfBody /\ StreamUsage(a, s) = ResponseText2Usage(s.text)
      BY DEF StreamUsage, Counting, MadeOfBody
    <3>2. result.usage.completion = s.text
      BY <2>3, <2>5, <3>1, UsageTypes
    <3> QED BY <2>3, <2>4, <2>6, <3>2 DEF Texted
  <2>8. a # "completions"
    <3> SUFFICES ASSUME a = "completions" PROVE FALSE
      OBVIOUS
    <3>1. a \notin MadeOfBody /\ StreamUsage(a, s) = OpenaiUsage(s)
      BY DEF StreamUsage, Counting, MadeOfBody
    <3>2. s.usage = NoUsage
      BY KeptIs DEF IInv, UsageOf
    <3>3. result.usage.completion = s.text
      BY <2>3, <2>5, <3>1, <3>2, OpenaiUsageIs
    <3> QED BY <2>3, <2>4, <2>6, <3>3 DEF Texted
  <2>9. a # "palm"
    <3> SUFFICES ASSUME a = "palm" PROVE FALSE
      OBVIOUS
    <3>1. result.usage = ResponseText2Usage(s.text) /\ said = <<>>
      BY <2>1, <2>2 DEF Returned, Over, Unread, MadeOfBody
    <3>2. result.usage.completion = s.text /\ s.text > 0
      BY <2>3, <3>1, UsageTypes
    <3> QED BY <2>3, <2>4, <3>2
  <2>10. CASE a \in {"aiproxy", "deepl"}
    BY <2>7, <2>8, <2>9, <2>10
  <2>11. CASE a \notin {"aiproxy", "deepl"}
    <3>1. a \in Streaming \cup {"xunfei"}
      BY <2>1, <2>9, <2>11, CallIs
    <3>2. a \notin MadeOfBody
      BY <2>9, <2>11 DEF MadeOfBody
    <3>3. a = "openai" => s.text > 0
      BY <2>6 DEF Texted
    <3>4. ToldNothing /\ (a = "openai" => \E k \in Told : said[k].rep.total # 0)
      BY <2>4, <2>5, <2>7, <2>8, <2>11, <3>1, <3>2, <3>3, ToldNothingIs
    <3> QED BY <2>7, <2>8, <2>9, <3>4
  <2> QED BY <2>10, <2>11
<1> QED BY <1>1, Invariant, PTL

-----------------------------------------------------------------------------
(* Conversations: what a channel is asked.  First, loops over a list: a     *)
(* recursive function over the places of the list, as a fact.               *)

\* A set of naturals with 0 and the successor of each of its elements is all of them.
LEMMA AllNaturals ==
  ASSUME NEW P \in SUBSET Nat, 0 \in P, \A n \in P : n + 1 \in P
  PROVE  P = Nat
<1> SUFFICES ASSUME Nat \ P # {} PROVE FALSE
  OBVIOUS
<1>1. IsWellFoundedOn(OpToRel(<, Nat), Nat)
  BY NatLessThanWellFounded
<1> DEFINE R == OpToRel(<, Nat)
<1>2. \A x, y \in Nat : y < x => <<y, x>> \in R
  BY DEF OpToRel
<1> HIDE DEF R
<1>3. PICK x \in Nat \ P : \A y \in Nat \ P : ~ (<<y, x>> \in R)
  BY <1>1, WFMin DEF R
<1>4. x # 0 /\ x - 1 \in Nat /\ x - 1 < x /\ (x - 1) + 1 = x
  OBVIOUS
<1>5. x - 1 \in P
  BY <1>2, <1>3, <1>4
<1> QED
  BY <1>3, <1>4, <1>5

LEMMA UpTo ==
  ASSUME NEW N \in Nat, NEW P, 0 \in P, \A n \in 1..N : n - 1 \in P => n \in P
  PROVE  \A n \in 0..N : n \in P
<1> DEFINE Q == {n \in Nat : n <= N => n \in P}
<1>1. 0 \in Q
  OBVIOUS
<1>2. ASSUME NEW n \in Q PROVE n + 1 \in Q
  <2>1. n \in Nat /\ n + 1 \in Nat /\ (n + 1) - 1 = n
    OBVIOUS
  <2>2. CASE n + 1 <= N
    <3>1. n + 1 \in 1..N /\ n <= N
      BY <2>1, <2>2
    <3>2. n \in P
      BY <3>1
    <3> QED
      BY <2>1, <3>1, <3>2
  <2> QED
    BY <2>1, <2>2
<1>3. Q = Nat
  <2> HIDE DEF Q
  <2>1. Q \in SUBSET Nat
    BY DEF Q
  <2> QED
    BY <1>1, <1>2, <2>1, AllNaturals
<1> QED
  BY <1>3

\* The function that starts from base and takes the step F at each place.
IsLoop(f, N, St, base, F) == f \in [0..N -> St] /\ f[0] = base /\ \A n \in 1..N : f[n] = F[n][f[n - 1]]

LEMMA Loop ==
  ASSUME NEW N \in Nat, NEW St, NEW base \in St, NEW F \in [1..N -> [St -> St]]
  PROVE  \E f : IsLoop(f, N, St, base, F)
<1> DEFINE
      Good(f, m) == f[0] = base /\ \A n \in 1..m : f[n] = F[n][f[n - 1]]
      P == {m \in 0..N : \E f \in [0..N -> St] : Good(f, m)}
<1>1. 0 \in P
  <2> DEFINE f == [k \in 0..N |-> base]
  <2>1. f \in [0..N -> St] /\ f[0] = base
    OBVIOUS
  <2>2. 1..0 = {} /\ 0 \in 0..N
    OBVIOUS
  <2> HIDE DEF f
  <2>3. Good(f, 0)
    BY <2>1, <2>2
  <2> QED
    BY <2>1, <2>2, <2>3
<1>2. ASSUME NEW m \in 1..N, m - 1 \in P PROVE m \in P
  <2>1. PICK f \in [0..N -> St] : Good(f, m - 1)
    BY <1>2
  <2>2. m \in 0..N /\ m - 1 \in 0..N /\ m # 0
    OBVIOUS
  <2>3. PICK v : v = F[m][f[m - 1]]
    OBVIOUS
  <2>4. v \in St
    <3>1. f[m - 1] \in St
      BY <2>2
    <3>2. F[m] \in [St -> St]
      OBVIOUS
    <3> QED
      BY <2>3, <3>1, <3>2
  <2>5. PICK g : g = [f EXCEPT ![m] = v]
    OBVIOUS
  <2>6. g \in [0..N -> St] /\ g[m] = v /\ \A k \in 0..N : k # m => g[k] = f[k]
    BY <2>2, <2>4, <2>5
  <2>7. g[0] = base
    BY <2>1, <2>2, <2>6
  <2>8. ASSUME NEW n \in 1..m PROVE g[n] = F[n][g[n - 1]]
    <3>1. n - 1 \in 0..N /\ n - 1 # m
      BY <2>2
    <3>2. g[n - 1] = f[n - 1]
      BY <2>6, <3>1
    <3>3. CASE n = m
      BY <2>3, <2>6, <3>2, <3>3
    <3>4. CASE n # m
      <4>1. n \in 1..m - 1 /\ n \in 0..N
        BY <2>2, <3>4
      <4> QED
        BY <2>1, <2>6, <3>2, <3>4, <4>1
    <3> QED
      BY <3>3, <3>4
  <2> QED
    BY <2>2, <2>6, <2>7, <2>8
<1>3. N \in P
  <2> HIDE DEF P
  <2>1. \A n \in 0..N : n \in P
    BY <1>1, <1>2, UpTo
  <2> QED
    BY <2>1
<1> QED
  BY <1>3 DEF IsLoop

-----------------------------------------------------------------------------
(* Lists of turns that give some of the places of a conversation in order.  *)

Names == Roles \cup {"model", "message", "query", "text", "0", "1", "CHATBOT", "SYSTEM", "USER"}
TurnType == [role : Names, of : Nat, whole : BOOLEAN]
Numbers(t) == {t[j].of : j \in DOMAIN t}
Rising(t) == \A j, k \in DOMAIN t : j < k /\ t[j].of # 0 /\ t[k].of # 0 => t[j].of < t[k].of

\* t asks the turns of K, each once and in order, and turns that stand for none.
Asks(t, K) == t \in Seq(TurnType) /\ Rising(t) /\ Numbers(t) \ {0} = K

LEMMA TurnIs == \A r \in Names, k \in Nat : Turn(r, k) \in TurnType /\ Turn(r, k).of = k
  BY DEF Turn, TurnType

\* A list without repetitions of what it stands for.
LEMMA AsksOnce ==
  ASSUME NEW t, NEW K, Asks(t, K), NEW k \in Nat \ {0}
  PROVE  Cardinality({j \in DOMAIN t : t[j].of = k}) = IF k \in K THEN 1 ELSE 0
<1> DEFINE S == {j \in DOMAIN t : t[j].of = k}
<1>1. \A j \in DOMAIN t : j \in Nat /\ t[j].of \in Nat
  <2>1. \A j \in DOMAIN t : j \in Nat /\ t[j] \in TurnType
    BY DEF Asks
  <2> QED
    BY <2>1 DEF TurnType
<1>2. CASE k \in K
  <2>1. PICK j \in DOMAIN t : t[j].of = k
    BY <1>2 DEF Asks, Numbers
  <2>2. ASSUME NEW i \in DOMAIN t, t[i].of = k PROVE i = j
    <3>1. ~ (i < j) /\ ~ (j < i)
      BY <1>1, <2>1, <2>2 DEF Asks, Rising
    <3> QED
      BY <1>1, <2>1, <3>1
  <2>3. S = {j}
    BY <2>1, <2>2
  <2> QED
    BY <1>2, <2>3, FS_Singleton
<1>3. CASE k \notin K
  <2>1. S = {}
    BY <1>3 DEF Asks, Numbers
  <2> QED
    BY <1>3, <2>1, FS_EmptySet
<1> QED
  BY <1>2, <1>3

LEMMA AsksNone == Asks(<<>>, {}) /\ Numbers(<<>>) = {}
<1>1. <<>> \in Seq(TurnType) /\ DOMAIN <<>> = {}
  OBVIOUS
<1> QED
  BY <1>1, Zenon DEF Asks, Rising, Numbers

\* A turn that is added is beyond all that were asked, or stands for none.
LEMMA AsksMore ==
  ASSUME NEW t, NEW K, Asks(t, K), NEW x \in TurnType, x.of # 0 => \A k \in K : k < x.of
  PROVE  Asks(Append(t, x), K \cup ({x.of} \ {0})) /\ Numbers(Append(t, x)) = Numbers(t) \cup {x.of}
<1>0. PICK u : u = Append(t, x)
  OBVIOUS
<1>1. /\ t \in Seq(TurnType) /\ u \in Seq(TurnType) /\ Len(t) \in Nat
      /\ DOMAIN t = 1..Len(t) /\ DOMAIN u = 1..Len(t) + 1
      /\ u[Len(t) + 1] = x /\ \A j \in 1..Len(t) : u[j] = t[j]
  BY <1>0 DEF Asks
<1>2. DOMAIN u = DOMAIN t \cup {Len(t) + 1} /\ Len(t) + 1 \notin DOMAIN t
      /\ \A j \in DOMAIN t : j < Len(t) + 1 /\ ~ (Len(t) + 1 < j)
  BY <1>1
<1>3. Numbers(u) = Numbers(t) \cup {x.of}
  BY <1>1, <1>2 DEF Numbers
<1>4. \A j \in DOMAIN t : t[j].of # 0 => t[j].of \in K
  BY DEF Asks, Numbers
<1>5. ASSUME NEW j \in DOMAIN u, NEW k \in DOMAIN u, j < k, u[j].of # 0, u[k].of # 0
      PROVE  u[j].of < u[k].of
  <2>1. j \in DOMAIN t
    BY <1>1, <1>2, <1>5
  <2>2. CASE k \in DOMAIN t
    BY <1>1, <1>5, <2>1, <2>2 DEF Asks, Rising
  <2>3. CASE k = Len(t) + 1
    <3>1. u[j] = t[j] /\ u[k] = x
      BY <1>1, <2>1, <2>3
    <3> QED
      BY <1>4, <1>5, <2>1, <3>1
  <2> QED
    BY <1>2, <2>2, <2>3
<1>6. Rising(u)
  BY <1>5 DEF Rising
<1>7. Numbers(u) \ {0} = K \cup ({x.of} \ {0})
  BY <1>3 DEF Asks
<1> QED
  BY <1>0, <1>1, <1>3, <1>6, <1>7 DEF Asks

\* A list of all turns.
LEMMA AsksAll ==
  ASSUME NEW q \in Seq(TurnType), \A k \in 1..Len(q) : q[k].of = k
  PROVE  Asks(q, 1..Len(q))
<1>1. DOMAIN q = 1..Len(q) /\ Len(q) \in Nat
  OBVIOUS
<1>2. Numbers(q) \ {0} = 1..Len(q)
  BY <1>1 DEF Numbers
<1>3. Rising(q)
  BY <1>1 DEF Rising
<1> QED
  BY <1>2, <1>3 DEF Asks

\* The turns chosen at the places in K.
LEMMA ChosenAsks ==
  ASSUME NEW q \in Seq(TurnType), \A k \in 1..Len(q) : q[k].of = k, NEW K
  PROVE  Asks(Chosen(q, K), K \cap 1..Len(q)) /\ Numbers(Chosen(q, K)) = K \cap 1..Len(q)
<1>a. PICK N : N = Len(q)
  OBVIOUS
<1>b. PICK St : St = Seq(TurnType)
  OBVIOUS
<1> DEFINE
      Body(f) == [n \in 0..N |-> IF n = 0 THEN <<>>
                                 ELSE IF n \in K THEN Append(f[n - 1], q[n]) ELSE f[n - 1]]
      Step(n, t) == IF n \in K THEN Append(t, q[n]) ELSE t
<1>1. N \in Nat /\ \A k \in 1..N : q[k] \in TurnType /\ q[k].of = k
  BY <1>a
<1>2. \A n \in 1..N, t \in St : Step(n, t) \in St
  <2>1. \A n \in 1..N, t \in St : Append(t, q[n]) \in St
    BY <1>1, <1>b
  <2> QED
    BY <2>1
<1>c. PICK F : F = [n \in 1..N |-> [t \in St |-> Step(n, t)]]
  OBVIOUS
<1>3. F \in [1..N -> [St -> St]] /\ \A n \in 1..N, t \in St : F[n][t] = Step(n, t)
  <2> HIDE DEF Step
  <2>1. ASSUME NEW n \in 1..N
        PROVE  F[n] \in [St -> St] /\ \A t \in St : F[n][t] = Step(n, t)
    <3>1. F[n] = [t \in St |-> Step(n, t)]
      BY <1>c
    <3> QED
      BY <1>2, <3>1
  <2>2. \A n \in 1..N : F[n] \in [St -> St]
    BY <2>1
  <2>3. \A n \in 1..N, t \in St : F[n][t] = Step(n, t)
    BY <2>1
  <2>4. F = [n \in 1..N |-> F[n]]
    BY <1>c
  <2>5. F \in [1..N -> [St -> St]]
    BY <2>2, <2>4, Zenon
  <2> QED
    BY <2>3, <2>5
<1>d. PICK base : base = <<>>
  OBVIOUS
<1>4. base \in St
  BY <1>b, <1>d
<1>5. PICK g \in [0..N -> St] : g[0] = <<>> /\ \A n \in 1..N : g[n] = F[n][g[n - 1]]
  <2>1. N \in Nat /\ F \in [1..N -> [St -> St]]
    BY <1>1, <1>3
  <2>2. \E g : IsLoop(g, N, St, base, F)
    BY <1>4, <2>1, Loop, Zenon
  <2> QED
    BY <1>d, <2>2 DEF IsLoop
<1>6. g = Body(g)
  <2>1. \A n \in 1..N : n - 1 \in 0..N /\ g[n - 1] \in St
    BY <1>1
  <2>2. ASSUME NEW n \in 1..N PROVE g[n] = IF n \in K THEN Append(g[n - 1], q[n]) ELSE g[n - 1]
    <3>1. g[n - 1] \in St
      BY <2>1
    <3>2. g[n] = Step(n, g[n - 1])
      BY <1>3, <1>5, <3>1
    <3> QED
      BY <3>2
  <2>3. ASSUME NEW n \in 0..N PROVE g[n] = IF n = 0 THEN <<>>
                                           ELSE IF n \in K THEN Append(g[n - 1], q[n]) ELSE g[n - 1]
    <3>1. CASE n = 0
      BY <1>5, <3>1
    <3>2. CASE n # 0
      <4>1. n \in 1..N
        BY <1>1, <3>2
      <4> QED
        BY <2>2, <3>2, <4>1
    <3> QED
      BY <3>1, <3>2
  <2> QED
    BY <2>3
<1> DEFINE f == CHOOSE h : h = Body(h)
<1>7. f = Body(f)
  <2> HIDE DEF Body
  <2> QED
    BY <1>6
<1>8. Chosen(q, K) = f[N]
  BY <1>a DEF Chosen
<1> HIDE DEF f
<1> DEFINE P == {n \in 0..N : Asks(f[n], K \cap 1..n) /\ Numbers(f[n]) = K \cap 1..n}
<1>9. 0 \in P
  <2>1. f[0] = <<>> /\ K \cap 1..0 = {} /\ 0 \in 0..N
    BY <1>1, <1>7
  <2> QED
    BY <2>1, AsksNone
<1>10. ASSUME NEW n \in 1..N, n - 1 \in P PROVE n \in P
  <2>1. n \in Nat /\ n # 0 /\ n - 1 \in 0..N /\ n \in 0..N
        /\ (\A k \in 1..n - 1 : k < n) /\ 1..n = (1..n - 1) \cup {n}
    BY <1>1
  <2>2. f[n] = IF n \in K THEN Append(f[n - 1], q[n]) ELSE f[n - 1]
    BY <1>7, <2>1
  <2>3. Asks(f[n - 1], K \cap 1..n - 1) /\ Numbers(f[n - 1]) = K \cap 1..n - 1
    BY <1>10
  <2>4. q[n] \in TurnType /\ q[n].of = n
    BY <1>1
  <2>5. CASE n \in K
    <3>1. K \cap 1..n = (K \cap 1..n - 1) \cup ({n} \ {0}) /\ K \cap 1..n = (K \cap 1..n - 1) \cup {n}
      BY <2>1, <2>5
    <3>2. \A k \in K \cap 1..n - 1 : k < q[n].of
      BY <2>1, <2>4
    <3>4. PICK x \in TurnType : x = q[n]
      BY <2>4
    <3>5. Asks(Append(f[n - 1], x), (K \cap 1..n - 1) \cup ({x.of} \ {0}))
          /\ Numbers(Append(f[n - 1], x)) = Numbers(f[n - 1]) \cup {x.of}
      BY <2>3, <3>2, <3>4, AsksMore
    <3>3. Asks(f[n], (K \cap 1..n - 1) \cup ({n} \ {0})) /\ Numbers(f[n]) = Numbers(f[n - 1]) \cup {n}
      BY <2>2, <2>4, <2>5, <3>4, <3>5
    <3> QED
      BY <2>1, <2>3, <3>1, <3>3
  <2>6. CASE n \notin K
    <3>1. K \cap 1..n = K \cap 1..n - 1
      BY <2>1, <2>6
    <3> QED
      BY <2>1, <2>2, <2>3, <2>6, <3>1
  <2> QED
    BY <2>5, <2>6
<1>11. N \in P
  <2> HIDE DEF P
  <2>1. \A n \in 0..N : n \in P
    BY <1>1, <1>9, <1>10, UpTo
  <2> QED
    BY <1>1, <2>1
<1> QED
  BY <1>8, <1>11, <1>a

-----------------------------------------------------------------------------
(* The requests, adaptor by adaptor. *)

\* What TurnsDroppedByRule says of the request r that adaptor b makes of m.
Rule(b, m, r, k) ==
  \/ b \in {"baidu", "gemini"} /\ m[k].role = "system" /\ k < r.system
  \/ b = "cohere" /\ m[k].role = "user" /\ \E j \in DOMAIN m : j > k /\ m[j].role = "user"
  \/ b \in {"aiproxy", "deepl"} /\ k < Len(m)
  \/ b = "replicate" /\ m[k].content = "parts"
Count(t, k) == Cardinality({j \in DOMAIN t : t[j].of = k})
Follows(b, m, r) ==
  LET real == {j \in DOMAIN r.turns : r.turns[j].of # 0}
      history == IF b = "cohere" THEN real \ {Len(r.turns)} ELSE real
  IN  /\ \A j, k \in history : j < k => r.turns[j].of < r.turns[k].of
      /\ \A k \in DOMAIN m :
           Count(r.turns, k) + (IF r.system = k THEN 1 ELSE 0) = (IF Rule(b, m, r, k) THEN 0 ELSE 1)

LEMMA RequestIs ==
  \A x, t : Request(x, t).got = "request" /\ Request(x, t).system = x /\ Request(x, t).turns = t
  BY DEF Request

\* A list of turns that are asked in order follows the rule if the rule drops the others.
LEMMA AsksFollow ==
  ASSUME NEW b, b # "cohere", NEW m \in Seq(Messages), NEW x, NEW t, NEW K, Asks(t, K),
         NEW r, r = Request(x, t),
         \A k \in 1..Len(m) : (x = k => k \notin K) /\ ((k \in K \/ x = k) <=> ~ Rule(b, m, r, k))
  PROVE  Follows(b, m, r)
<1>1. r.system = x /\ r.turns = t
  BY RequestIs
<1>2. DOMAIN m = 1..Len(m) /\ \A k \in 1..Len(m) : k \in Nat \ {0}
  OBVIOUS
<1>3. ASSUME NEW k \in DOMAIN m
      PROVE  Count(t, k) + (IF x = k THEN 1 ELSE 0) = (IF Rule(b, m, r, k) THEN 0 ELSE 1)
  <2>1. Count(t, k) = IF k \in K THEN 1 ELSE 0
    BY <1>2, AsksOnce DEF Count
  <2> QED
    BY <1>2, <2>1
<1>4. \A j, k \in {j \in DOMAIN t : t[j].of # 0} : j < k => t[j].of < t[k].of
  BY DEF Asks, Rising
<1> QED
  BY <1>1, <1>3, <1>4 DEF Follows

LEMMA ListIs ==
  ASSUME NEW n \in Nat, NEW t \in [1..n -> TurnType]
  PROVE  t \in Seq(TurnType) /\ Len(t) = n /\ DOMAIN t = 1..n
<1>1. t \in Seq(TurnType)
  OBVIOUS
<1>2. Len(t) \in Nat /\ DOMAIN t = 1..Len(t)
  BY <1>1
<1>3. 1..Len(t) = 1..n
  BY <1>2
<1> QED
  BY <1>1, <1>2, <1>3

LEMMA MessageIs ==
  ASSUME NEW m \in Seq(Messages)
  PROVE  /\ Len(m) \in Nat /\ DOMAIN m = 1..Len(m)
         /\ \A k \in 1..Len(m) : k \in Nat /\ k # 0 /\ m[k].role \in Roles /\ m[k].role \in Names
                                 /\ m[k].content \in {"string", "parts"}
<1>1. Len(m) \in Nat /\ DOMAIN m = 1..Len(m) /\ \A k \in 1..Len(m) : m[k] \in Messages
  OBVIOUS
<1>2. \A k \in 1..Len(m) : m[k].role \in Roles /\ m[k].content \in {"string", "parts"}
  BY <1>1 DEF Messages
<1> QED
  BY <1>1, <1>2 DEF Names

\* Adaptors that send every turn.
LEMMA WholeFollows ==
  ASSUME NEW b, b \notin {"cohere", "aiproxy", "deepl", "replicate"}, NEW m \in Seq(Messages),
         NEW t \in [1..Len(m) -> TurnType], \A k \in 1..Len(m) : t[k].of = k
  PROVE  Follows(b, m, Request(0, t))
<1>1. Len(m) \in Nat
  BY MessageIs
<1>2. t \in Seq(TurnType) /\ Len(t) = Len(m)
  BY <1>1, ListIs
<1>3. Asks(t, 1..Len(m))
  BY <1>2, AsksAll
<1>4. PICK r : r = Request(0, t)
  OBVIOUS
<1>5. ASSUME NEW k \in 1..Len(m) PROVE 0 # k /\ ~ Rule(b, m, r, k)
  <2>1. k \in Nat /\ k # 0 /\ ~ (k < 0)
    BY <1>1
  <2>2. r.system = 0
    BY <1>4, RequestIs
  <2> QED
    BY <2>1, <2>2 DEF Rule
<1> QED
  BY <1>3, <1>4, <1>5, AsksFollow

LEMMA TurnsFollow ==
  ASSUME NEW m \in Seq(Messages)
  PROVE  Turns(m) \in [1..Len(m) -> TurnType] /\ \A k \in 1..Len(m) : Turns(m)[k].of = k
<1>1. \A k \in 1..Len(m) : Turn(m[k].role, k) \in TurnType /\ Turn(m[k].role, k).of = k
  BY MessageIs, TurnIs
<1> QED
  BY <1>1 DEF Turns

LEMMA SameFollows ==
  ASSUME NEW b, b \notin {"cohere", "aiproxy", "deepl", "replicate"}, NEW m \in Seq(Messages)
  PROVE  Follows(b, m, Request(0, Turns(m)))
<1>1. PICK t : t = Turns(m)
  OBVIOUS
<1>2. t \in [1..Len(m) -> TurnType] /\ \A k \in 1..Len(m) : t[k].of = k
  BY <1>1, TurnsFollow
<1> QED
  BY <1>1, <1>2, WholeFollows

LEMMA OllamaFollows ==
  ASSUME NEW m \in Seq(Messages) PROVE Follows("ollama", m, OllamaRequest(m))
<1>1. PICK t : t = [k \in 1..Len(m) |-> [Turn(m[k].role, k) EXCEPT !.whole = m[k].content = "string"]]
  OBVIOUS
<1>2. ASSUME NEW k \in 1..Len(m) PROVE t[k] \in TurnType /\ t[k].of = k
  <2>1. Turn(m[k].role, k) \in TurnType /\ Turn(m[k].role, k).of = k
    BY MessageIs, TurnIs
  <2>2. t[k] = [Turn(m[k].role, k) EXCEPT !.whole = m[k].content = "string"]
    BY <1>1
  <2> QED
    BY <2>1, <2>2 DEF TurnType
<1>3. t \in [1..Len(m) -> TurnType]
  BY <1>1, <1>2
<1>4. OllamaRequest(m) = Request(0, t)
  BY <1>1 DEF OllamaRequest
<1> QED
  BY <1>2, <1>3, <1>4, WholeFollows

LEMMA PalmFollows ==
  ASSUME NEW m \in Seq(Messages) PROVE Follows("palm", m, PalmRequest(m))
<1>1. PICK t : t = [k \in 1..Len(m) |-> Turn(IF m[k].role = "user" THEN "0" ELSE "1", k)]
  OBVIOUS
<1>2. ASSUME NEW k \in 1..Len(m) PROVE t[k] \in TurnType /\ t[k].of = k
  <2>1. PICK r \in Names : r = IF m[k].role = "user" THEN "0" ELSE "1"
    BY DEF Names
  <2>2. t[k] = Turn(r, k)
    BY <1>1, <2>1
  <2> QED
    BY <2>2, MessageIs, TurnIs
<1>3. t \in [1..Len(m) -> TurnType]
  BY <1>1, <1>2
<1>4. PalmRequest(m) = Request(0, t)
  BY <1>1 DEF PalmRequest
<1> QED
  BY <1>2, <1>3, <1>4, WholeFollows

LEMMA CozeFollows ==
  ASSUME NEW m \in Seq(Messages) PROVE Follows("coze", m, CozeRequest(m))
<1>1. PICK t : t = [k \in 1..Len(m) |-> Turn(IF k = Len(m) THEN "query" ELSE m[k].role, k)]
  OBVIOUS
<1>2. ASSUME NEW k \in 1..Len(m) PROVE t[k] \in TurnType /\ t[k].of = k
  <2>1. PICK r \in Names : r = IF k = Len(m) THEN "query" ELSE m[k].role
    BY MessageIs DEF Names
  <2>2. t[k] = Turn(r, k)
    BY <1>1, <2>1
  <2> QED
    BY <2>2, MessageIs, TurnIs
<1>3. t \in [1..Len(m) -> TurnType]
  BY <1>1, <1>2
<1>4. CozeRequest(m) = Request(0, t)
  BY <1>1 DEF CozeRequest
<1> QED
  BY <1>2, <1>3, <1>4, WholeFollows

\* Only the last turn.
LEMMA LastFollows ==
  ASSUME NEW b \in {"aiproxy", "deepl"}, NEW m \in Seq(Messages), m # <<>>, NEW name \in Names
  PROVE  Follows(b, m, Request(0, <<Turn(name, Len(m))>>))
<1>1. Len(m) \in Nat /\ Len(m) # 0
  OBVIOUS
<1>2. PICK x \in TurnType : x = Turn(name, Len(m)) /\ x.of = Len(m)
  BY <1>1, TurnIs
<1>3. Asks(Append(<<>>, x), {} \cup ({x.of} \ {0}))
  BY AsksNone, AsksMore
<1>4. Append(<<>>, x) = <<x>>
  OBVIOUS
<1>5. Asks(<<x>>, {Len(m)})
  BY <1>1, <1>2, <1>3, <1>4
<1>6. PICK r : r = Request(0, <<x>>)
  OBVIOUS
<1>7. ASSUME NEW k \in 1..Len(m) PROVE 0 # k /\ (k \in {Len(m)} <=> ~ Rule(b, m, r, k))
  <2>1. k = Len(m) <=> ~ (k < Len(m))
    BY <1>1
  <2>2. k # 0
    BY <1>1
  <2> QED
    BY <2>1, <2>2 DEF Rule
<1> QED
  BY <1>2, <1>5, <1>6, <1>7, AsksFollow

\* Replicate's prompt.
LEMMA ReplicateFollows ==
  ASSUME NEW m \in Seq(Messages), NEW x \in BOOLEAN, ReplicateRequest(m, x).got = "request"
  PROVE  Follows("replicate", m, ReplicateRequest(m, x))
<1>1. x /\ ReplicateRequest(m, x) = Request(0, Chosen(Turns(m), {k \in DOMAIN m : m[k].content = "string"}))
  BY DEF ReplicateRequest, Refuse
<1>2. PICK t : t = Turns(m)
  OBVIOUS
<1>3. PICK K : K = {k \in DOMAIN m : m[k].content = "string"}
  OBVIOUS
<1>4. t \in Seq(TurnType) /\ Len(t) = Len(m) /\ \A k \in 1..Len(t) : t[k].of = k
  BY <1>2, TurnsFollow, ListIs, MessageIs
<1>5. Asks(Chosen(t, K), K \cap 1..Len(m))
  BY <1>4, ChosenAsks
<1>6. PICK r : r = Request(0, Chosen(t, K))
  OBVIOUS
<1>7. ASSUME NEW k \in 1..Len(m) PROVE 0 # k /\ (k \in K \cap 1..Len(m) <=> ~ Rule("replicate", m, r, k))
  <2>1. k \in DOMAIN m /\ k # 0 /\ m[k].content \in {"string", "parts"}
    BY MessageIs
  <2> QED
    BY <1>3, <2>1 DEF Rule
<1> QED
  BY <1>1, <1>2, <1>3, <1>5, <1>6, <1>7, AsksFollow

\* The last and the first of a set of places.
LEMMA FirstPlace ==
  ASSUME NEW S \in SUBSET (Nat \ {0}), S # {}
  PROVE  Least(S) \in S /\ \A j \in S : Least(S) <= j
<1>1. IsWellFoundedOn(OpToRel(<, Nat), Nat)
  BY NatLessThanWellFounded
<1> DEFINE R == OpToRel(<, Nat)
<1>2. \A x, y \in Nat : y < x => <<y, x>> \in R
  BY DEF OpToRel
<1> HIDE DEF R
<1>3. PICK x \in S : \A y \in S : ~ (<<y, x>> \in R)
  BY <1>1, WFMin DEF R
<1>6. \A y \in S : y \in Nat /\ x \in Nat /\ ~ (y < x)
  BY <1>2, <1>3
<1>4. \A y \in S : x <= y
  BY <1>6
<1>5. Least(S) = CHOOSE k \in S : \A j \in S : k <= j
  BY DEF Least
<1> QED
  BY <1>4, <1>5

LEMMA LastPlace ==
  ASSUME NEW N \in Nat, NEW S \in SUBSET (1..N), S # {}
  PROVE  Greatest(S) \in S /\ \A j \in S : j <= Greatest(S)
<1> DEFINE T == {n \in 1..N : \A j \in S : j <= n}
<1>1. N \in T /\ T \in SUBSET (Nat \ {0})
  <2>1. PICK j \in S : TRUE
    OBVIOUS
  <2>2. j \in 1..N
    BY <2>1
  <2>3. N \in 1..N
    BY <2>2
  <2>4. \A k \in S : k <= N
    <3> SUFFICES ASSUME NEW k \in S PROVE k <= N
      OBVIOUS
    <3>1. k \in 1..N
      OBVIOUS
    <3> QED
      BY <3>1
  <2>5. T \in SUBSET (Nat \ {0})
    OBVIOUS
  <2> QED
    BY <2>3, <2>4, <2>5
<1>2. PICK n \in T : \A j \in T : n <= j
  <2> HIDE DEF T
  <2> QED
    BY <1>1, FirstPlace
<1>3. n \in S
  <2>1. CASE n - 1 \in 1..N
    <3>1. n - 1 \notin T
      BY <1>2
    <3>2. PICK j \in S : ~ (j <= n - 1)
      BY <2>1, <3>1
    <3>3. j = n
      BY <1>2, <3>2
    <3> QED
      BY <3>3
  <2>2. CASE n - 1 \notin 1..N
    <3>1. n = 1
      BY <1>2, <2>2
    <3>2. \A j \in S : j = 1
      BY <1>2, <3>1
    <3> QED
      BY <3>1, <3>2
  <2> QED
    BY <2>1, <2>2
<1>4. Greatest(S) = CHOOSE k \in S : \A j \in S : j <= k
  BY DEF Greatest
<1> QED
  BY <1>2, <1>3, <1>4

LEMMA BaiduFollows ==
  ASSUME NEW m \in Seq(Messages) PROVE Follows("baidu", m, BaiduRequest(m))
<1>1. PICK t : t = Turns(m)
  OBVIOUS
<1>2. PICK K : K = Where(m, Roles \ {"system"})
  OBVIOUS
<1>3. PICK S : S = Where(m, {"system"})
  OBVIOUS
<1>4. t \in Seq(TurnType) /\ Len(t) = Len(m) /\ \A k \in 1..Len(t) : t[k].of = k
  BY <1>1, TurnsFollow, ListIs, MessageIs
<1>5. Asks(Chosen(t, K), K \cap 1..Len(m))
  BY <1>4, ChosenAsks
<1>6. PICK last : last = Greatest(S)
  OBVIOUS
<1>7. PICK r : r = Request(last, Chosen(t, K))
  OBVIOUS
<1>8. \A k \in 1..Len(m) : (k \in K <=> m[k].role # "system") /\ (k \in S <=> m[k].role = "system")
  BY <1>2, <1>3, MessageIs DEF Where
<1>9. S \in SUBSET (1..Len(m)) /\ Len(m) \in Nat
  BY <1>3, MessageIs DEF Where
<1>10. ASSUME NEW k \in 1..Len(m)
       PROVE  (last = k => k \notin K \cap 1..Len(m))
              /\ ((k \in K \cap 1..Len(m) \/ last = k) <=> ~ Rule("baidu", m, r, k))
  <2>1. r.system = last
    BY <1>7, RequestIs
  <2>2. Rule("baidu", m, r, k) <=> m[k].role = "system" /\ k < last
    BY <2>1 DEF Rule
  <2>3. CASE S = {}
    <3>1. last = 0
      BY <1>6, <2>3 DEF Greatest
    <3> QED
      BY <1>8, <1>9, <2>2, <2>3, <3>1
  <2>4. CASE S # {}
    <3>1. last \in S /\ \A j \in S : j <= last
      BY <1>6, <1>9, <2>4, LastPlace
    <3> QED
      BY <1>8, <1>9, <2>2, <3>1
  <2> QED
    BY <2>3, <2>4
<1>11. BaiduRequest(m) = r
  BY <1>1, <1>2, <1>3, <1>6, <1>7 DEF BaiduRequest
<1> QED
  BY <1>5, <1>7, <1>10, <1>11, AsksFollow

LEMMA AnthropicFollows ==
  ASSUME NEW b \in {"anthropic", "awsClaude"}, NEW m \in Seq(Messages)
  PROVE  Follows(b, m, AnthropicRequest(m))
<1>1. PICK t : t = [k \in 1..Len(m) |->
                      Turn(IF m[k].role = "tool" /\ m[k].content = "string" THEN "user" ELSE m[k].role, k)]
  OBVIOUS
<1>2. PICK S : S = Where(m, {"system"})
  OBVIOUS
<1>3. PICK first : first = Least(S)
  OBVIOUS
<1>4. PICK K : K = DOMAIN m \ {first}
  OBVIOUS
<1>5. ASSUME NEW k \in 1..Len(m) PROVE t[k] \in TurnType /\ t[k].of = k
  <2>1. PICK r \in Names : r = IF m[k].role = "tool" /\ m[k].content = "string" THEN "user" ELSE m[k].role
    BY MessageIs DEF Names, Roles
  <2>2. t[k] = Turn(r, k)
    BY <1>1, <2>1
  <2> QED
    BY <2>2, MessageIs, TurnIs
<1>6. t \in [1..Len(m) -> TurnType]
  BY <1>1, <1>5
<1>7. t \in Seq(TurnType) /\ Len(t) = Len(m)
  BY <1>6, ListIs, MessageIs
<1>8. Asks(Chosen(t, K), K \cap 1..Len(m))
  BY <1>5, <1>7, ChosenAsks
<1>9. PICK r : r = Request(first, Chosen(t, K))
  OBVIOUS
<1>10. ASSUME NEW k \in 1..Len(m)
       PROVE  (first = k => k \notin K \cap 1..Len(m))
              /\ ((k \in K \cap 1..Len(m) \/ first = k) <=> ~ Rule(b, m, r, k))
  <2>1. ~ Rule(b, m, r, k)
    BY DEF Rule
  <2>2. k \in DOMAIN m
    BY MessageIs
  <2> QED
    BY <1>4, <2>1, <2>2
<1>11. AnthropicRequest(m) = r
  BY <1>1, <1>2, <1>3, <1>4, <1>9 DEF AnthropicRequest
<1> QED
  BY <1>8, <1>9, <1>10, <1>11, AsksFollow

LEMMA CohereFollows ==
  ASSUME NEW m \in Seq(Messages), CohereRequest(m).got = "request"
  PROVE  Follows("cohere", m, CohereRequest(m))
<1> DEFINE role(r) == CASE r = "assistant" -> "CHATBOT" [] r = "system" -> "SYSTEM" [] OTHER -> "USER"
<1>1. PICK t : t = [k \in 1..Len(m) |-> Turn(IF m[k].role = "user" THEN "message" ELSE role(m[k].role), k)]
  OBVIOUS
<1>2. PICK S : S = Where(m, {"user"})
  OBVIOUS
<1>3. PICK asked : asked = Greatest(S)
  OBVIOUS
<1>4. PICK K : K = Where(m, Roles \ {"user"})
  OBVIOUS
<1>5. PICK h : h = Chosen(t, K)
  OBVIOUS
<1>6. PICK q : q = Chosen(t, {asked})
  OBVIOUS
<1>7. PICK r : r = Request(0, h \o q)
  OBVIOUS
<1>8. CohereRequest(m) = r
  <2>1. ~ (\E k \in 1..Len(m) : m[k].content # "string")
    BY DEF CohereRequest, Panic
  <2> QED
    BY <1>1, <1>2, <1>3, <1>4, <1>5, <1>6, <1>7, <2>1 DEF CohereRequest
<1>9. ASSUME NEW k \in 1..Len(m) PROVE t[k] \in TurnType /\ t[k].of = k
  <2>1. PICK n \in Names : n = IF m[k].role = "user" THEN "message" ELSE role(m[k].role)
    BY DEF Names
  <2>2. t[k] = Turn(n, k)
    BY <1>1, <2>1
  <2> QED
    BY <2>2, MessageIs, TurnIs
<1>10. t \in [1..Len(m) -> TurnType]
  BY <1>1, <1>9
<1> HIDE DEF role
<1>11. t \in Seq(TurnType) /\ Len(t) = Len(m)
  BY <1>10, ListIs, MessageIs
<1>12. /\ Asks(h, K \cap 1..Len(m)) /\ Numbers(h) = K \cap 1..Len(m)
       /\ Asks(q, {asked} \cap 1..Len(m)) /\ Numbers(q) = {asked} \cap 1..Len(m)
  BY <1>5, <1>6, <1>9, <1>11, ChosenAsks
<1>13. /\ \A k \in 1..Len(m) : (k \in K <=> m[k].role # "user") /\ (k \in S <=> m[k].role = "user")
                               /\ k \in Nat /\ k # 0
       /\ S \in SUBSET (1..Len(m)) /\ Len(m) \in Nat /\ DOMAIN m = 1..Len(m)
  BY <1>2, <1>4, MessageIs DEF Where
<1>14. \A j \in DOMAIN h : h[j].of \in K /\ h[j].of \in 1..Len(m) /\ h[j].of # 0
  BY <1>12, <1>13 DEF Numbers
<1>15. ASSUME NEW k \in 1..Len(m)
       PROVE  Rule("cohere", m, r, k) <=> k \notin K /\ \E j \in S : j > k
  BY <1>13 DEF Rule
<1>16. r.turns = h \o q /\ r.system = 0
  BY <1>7, RequestIs
<1>17. \A k \in 1..Len(m) : Count(h, k) = IF k \in K THEN 1 ELSE 0
  BY <1>12, <1>13, AsksOnce DEF Count
<1>18. h \in Seq(TurnType) /\ q \in Seq(TurnType)
  BY <1>12 DEF Asks
<1>19. CASE S = {}
  <2>1. asked = 0
    BY <1>3, <1>19 DEF Greatest
  <2>2. {asked} \cap 1..Len(m) = {}
    BY <1>13, <2>1
  <2>3. DOMAIN q = {}
    <3>1. Numbers(q) = {}
      BY <1>12, <2>2
    <3> QED
      BY <3>1, Zenon DEF Numbers
  <2>4. r.turns = h
    BY <1>16, <1>18, <2>3
  <2>5. \A j, k \in DOMAIN h : j < k => h[j].of < h[k].of
    BY <1>12, <1>14 DEF Asks, Rising
  <2>6. ASSUME NEW k \in 1..Len(m)
        PROVE  Count(h, k) + (IF 0 = k THEN 1 ELSE 0) = (IF Rule("cohere", m, r, k) THEN 0 ELSE 1)
    <3>1. k \in K /\ ~ Rule("cohere", m, r, k) /\ 0 # k
      BY <1>13, <1>15, <1>19
    <3> QED
      BY <1>17, <3>1
  <2> QED
    BY <1>8, <1>13, <1>16, <2>4, <2>5, <2>6 DEF Follows
<1>20. CASE S # {}
  <2>1. asked \in S /\ \A j \in S : j <= asked
    BY <1>3, <1>13, <1>20, LastPlace
  <2>2. Numbers(q) = {asked} /\ asked \in 1..Len(m) /\ asked \notin K
    BY <1>12, <1>13, <2>1
  <2>3. /\ DOMAIN q = 1..Len(q) /\ Len(q) \in Nat /\ DOMAIN h = 1..Len(h) /\ Len(h) \in Nat
        /\ \A j \in 1..Len(q) : q[j].of = asked
    <3>1. DOMAIN q = 1..Len(q) /\ Len(q) \in Nat /\ DOMAIN h = 1..Len(h) /\ Len(h) \in Nat
      BY <1>18
    <3>2. \A j \in DOMAIN q : q[j].of \in Numbers(q)
      BY Zenon DEF Numbers
    <3> QED
      BY <2>2, <3>1, <3>2
  <2>4. Len(q) = 1
    <3>1. \E j \in 1..Len(q) : TRUE
      BY <2>2, <2>3 DEF Numbers
    <3>2. ~ (1 \in DOMAIN q /\ 2 \in DOMAIN q)
      <4>1. 1 \in DOMAIN q /\ 2 \in DOMAIN q => q[1].of < q[2].of
        BY <1>12, <1>13, <2>2, <2>3 DEF Asks, Rising
      <4> QED
        BY <1>13, <2>2, <2>3, <4>1
    <3> QED
      BY <2>3, <3>1, <3>2
  <2>5. PICK u : u = h \o q
    OBVIOUS
  <2>6. PICK L : L = Len(h) + 1
    OBVIOUS
  <2>7. /\ DOMAIN u = 1..L /\ Len(u) = L /\ L \in Nat
        /\ \A j \in 1..Len(h) : u[j] = h[j]
        /\ u[L] = q[1]
    <3>1. /\ u \in Seq(TurnType) /\ Len(u) = Len(h) + Len(q)
          /\ \A j \in 1..Len(h) + Len(q) : u[j] = IF j <= Len(h) THEN h[j] ELSE q[j - Len(h)]
      BY <1>18, <2>5
    <3>2. DOMAIN u = 1..Len(u) /\ Len(u) = L /\ L \in Nat
      BY <2>3, <2>4, <2>6, <3>1
    <3>3. \A j \in 1..Len(h) : j \in 1..Len(h) + Len(q) /\ j <= Len(h)
      BY <2>3, <2>4
    <3>4. L \in 1..Len(h) + Len(q) /\ ~ (L <= Len(h)) /\ L - Len(h) = 1
      BY <2>3, <2>4, <2>6
    <3> QED
      BY <3>1, <3>2, <3>3, <3>4
  <2>8. u[L].of = asked /\ L \notin DOMAIN h /\ DOMAIN u = DOMAIN h \cup {L} /\ \A j \in DOMAIN h : u[j] = h[j]
    BY <2>3, <2>4, <2>6, <2>7
  <2>9. \A j, k \in {j \in DOMAIN u : u[j].of # 0} \ {Len(u)} : j < k => u[j].of < u[k].of
    <3>1. \A j \in DOMAIN u \ {Len(u)} : j \in DOMAIN h /\ u[j] = h[j]
      BY <2>7, <2>8
    <3> QED
      BY <1>12, <3>1 DEF Asks, Rising
  <2>10. ASSUME NEW k \in 1..Len(m)
        PROVE  Count(u, k) + (IF 0 = k THEN 1 ELSE 0) = (IF Rule("cohere", m, r, k) THEN 0 ELSE 1)
    <3>1. CASE k = asked
      <4>1. {j \in DOMAIN u : u[j].of = k} = {L}
        BY <1>14, <2>2, <2>8, <3>1
      <4>2. Count(u, k) = 1
        BY <4>1, FS_Singleton DEF Count
      <4>3. ~ Rule("cohere", m, r, k)
        BY <1>13, <1>15, <2>1, <3>1
      <4> QED
        BY <1>13, <4>2, <4>3
    <3>2. CASE k # asked
      <4>1. {j \in DOMAIN u : u[j].of = k} = {j \in DOMAIN h : h[j].of = k}
        BY <2>8, <3>2
      <4>2. Count(u, k) = IF k \in K THEN 1 ELSE 0
        BY <1>17, <4>1 DEF Count
      <4>3. Rule("cohere", m, r, k) <=> k \notin K
        <5>1. k \notin K => k \in S /\ asked > k
          BY <1>13, <2>1, <3>2
        <5> QED
          BY <1>15, <2>1, <5>1
      <4> QED
        BY <1>13, <4>2, <4>3
    <3> QED
      BY <3>1, <3>2
  <2>11. r.turns = u
    BY <1>16, <2>5
  <2> QED
    BY <1>8, <1>13, <1>16, <2>9, <2>10, <2>11 DEF Follows
<1> QED
  BY <1>19, <1>20


\* Gemini's loop: the system prompt, the turns and whether a placeholder is due.
Loops == [system : Nat, turns : Seq(TurnType), dummy : BOOLEAN]
LoopSet(x, n) == [x EXCEPT !.system = n, !.dummy = TRUE]
LoopAdd(x, t, d) == [x EXCEPT !.turns = Append(@, t) \o (IF d THEN <<Okay>> ELSE <<>>), !.dummy = FALSE]

LEMMA LoopSets ==
  ASSUME NEW x \in Loops, NEW n \in Nat
  PROVE  LoopSet(x, n) \in Loops /\ LoopSet(x, n).system = n /\ LoopSet(x, n).turns = x.turns
<1>0. PICK v : v = LoopSet(x, n)
  OBVIOUS
<1>1. x.turns \in Seq(TurnType) /\ DOMAIN x = {"system", "turns", "dummy"}
  BY Zenon DEF Loops
<1>2. v = [system |-> n, turns |-> x.turns, dummy |-> TRUE]
  BY <1>0 DEF Loops, LoopSet
<1>3. v.system = n /\ v.turns = x.turns
  BY <1>2, Zenon
<1>4. v \in Loops
  BY <1>1, <1>2, Zenon DEF Loops
<1> QED
  BY <1>0, <1>3, <1>4, Zenon

LEMMA LoopAdds ==
  ASSUME NEW x \in Loops, NEW t \in TurnType, NEW d
  PROVE  /\ LoopAdd(x, t, d) \in Loops /\ LoopAdd(x, t, d).system = x.system
         /\ \/ LoopAdd(x, t, d).turns = Append(x.turns, t)
            \/ LoopAdd(x, t, d).turns = Append(Append(x.turns, t), Okay)
<1>0. PICK v : v = LoopAdd(x, t, d)
  OBVIOUS
<1>1. x.turns \in Seq(TurnType) /\ x.system \in Nat
  BY Zenon DEF Loops
<1>2. PICK u \in Seq(TurnType) : u = Append(x.turns, t)
  <2>1. PICK y \in Seq(TurnType) : y = x.turns
    BY <1>1, Zenon
  <2>2. Append(y, t) \in Seq(TurnType)
    OBVIOUS
  <2> QED
    BY <2>1, <2>2, Zenon
<1>3. Okay \in TurnType
  <2>1. "model" \in Names /\ 0 \in Nat
    BY DEF Names
  <2> QED
    BY <2>1, TurnIs DEF Okay
<1>4. PICK w : w = u \o (IF d THEN <<Okay>> ELSE <<>>)
  OBVIOUS
<1>5. w \in Seq(TurnType) /\ (w = u \/ w = Append(u, Okay))
  <2>1. PICK o \in TurnType : o = Okay
    BY <1>3
  <2>2. u \o <<o>> = Append(u, o) /\ u \o <<>> = u /\ Append(u, o) \in Seq(TurnType)
    BY <1>2
  <2>3. w = u \o <<o>> \/ w = u \o <<>>
    BY <1>4, <2>1, Zenon
  <2> QED
    BY <2>1, <2>2, <2>3
<1>6. v = [x EXCEPT !.turns = w, !.dummy = FALSE]
  BY <1>0, <1>2, <1>4, Zenon DEF LoopAdd
<1>7. v = [system |-> x.system, turns |-> w, dummy |-> FALSE]
  BY <1>6 DEF Loops
<1>8. v.system = x.system /\ v.turns = w
  BY <1>7, Zenon
<1>9. v \in Loops
  BY <1>1, <1>5, <1>7, Zenon DEF Loops
<1> QED
  BY <1>0, <1>2, <1>5, <1>8, <1>9, Zenon

\* A body of the loop, as a function of what is there, and what it comes to.
LEMMA GeminiLoop ==
  ASSUME NEW m \in Seq(Messages), NEW i \in BOOLEAN
  PROVE  \E g \in [0..Len(m) -> Loops] :
           /\ g[0] = [system |-> 0, turns |-> <<>>, dummy |-> FALSE]
           /\ \A n \in 1..Len(m) :
                IF m[n].role = "system" /\ i THEN g[n].system = n /\ g[n].turns = g[n - 1].turns
                ELSE \E t \in TurnType :
                       /\ t.of = n /\ g[n].system = g[n - 1].system
                       /\ \/ g[n].turns = Append(g[n - 1].turns, t)
                          \/ g[n].turns = Append(Append(g[n - 1].turns, t), Okay)
           /\ GeminiRequest(m, i) = Request(g[Len(m)].system, g[Len(m)].turns)
<1> DEFINE
      role(r) == CASE r = "assistant" -> "model" [] r = "system" -> "user" [] OTHER -> r
      Step(n, x) == IF m[n].role = "system" /\ i THEN [x EXCEPT !.system = n, !.dummy = TRUE]
                    ELSE [x EXCEPT
                            !.turns = Append(@, Turn(role(m[n].role), n)) \o
                                      (IF x.dummy \/ m[n].role = "system" THEN <<Okay>> ELSE <<>>),
                            !.dummy = FALSE]
      Body(after) ==
        [n \in 0..Len(m) |->
           IF n = 0 THEN [system |-> 0, turns |-> <<>>, dummy |-> FALSE]
           ELSE IF m[n].role = "system" /\ i THEN [after[n - 1] EXCEPT !.system = n, !.dummy = TRUE]
           ELSE [after[n - 1] EXCEPT
                   !.turns = Append(@, Turn(role(m[n].role), n)) \o
                             (IF after[n - 1].dummy \/ m[n].role = "system" THEN <<Okay>> ELSE <<>>),
                   !.dummy = FALSE]]
      Base == [system |-> 0, turns |-> <<>>, dummy |-> FALSE]
<1>1. Len(m) \in Nat
  BY MessageIs
<1>2. ASSUME NEW n \in 1..Len(m)
      PROVE  \E t \in TurnType : t.of = n /\ t = Turn(role(m[n].role), n)
  <2>1. n \in Nat /\ m[n].role \in Names
    BY MessageIs
  <2>2. PICK r \in Names : r = role(m[n].role)
    <3>1. "model" \in Names /\ "user" \in Names
      BY DEF Names, Roles
    <3> QED
      BY <2>1, <3>1
  <2> QED
    BY <2>1, <2>2, TurnIs
<1> HIDE DEF role
<1>3. ASSUME NEW n \in 1..Len(m), NEW x \in Loops
      PROVE  /\ Step(n, x) \in Loops
             /\ IF m[n].role = "system" /\ i THEN Step(n, x).system = n /\ Step(n, x).turns = x.turns
                ELSE \E t \in TurnType :
                       /\ t.of = n /\ Step(n, x).system = x.system
                       /\ \/ Step(n, x).turns = Append(x.turns, t)
                          \/ Step(n, x).turns = Append(Append(x.turns, t), Okay)
  <2>1. CASE m[n].role = "system" /\ i
    <3>2. Step(n, x) = LoopSet(x, n)
      BY <2>1, Zenon DEF LoopSet
    <3>3. n \in Nat
      BY <1>1
    <3>4. LoopSet(x, n) \in Loops /\ LoopSet(x, n).system = n /\ LoopSet(x, n).turns = x.turns
      BY <3>3, LoopSets
    <3> HIDE DEF Step
    <3> QED
      BY <2>1, <3>2, <3>4, Zenon
  <2>2. CASE ~ (m[n].role = "system" /\ i)
    <3>1. PICK t \in TurnType : t.of = n /\ t = Turn(role(m[n].role), n)
      BY <1>2
    <3>2. PICK d : d = (x.dummy \/ m[n].role = "system")
      OBVIOUS
    <3>3. PICK v : v = LoopAdd(x, t, d)
      OBVIOUS
    <3>4. Step(n, x) = v
      BY <2>2, <3>1, <3>2, <3>3, Zenon DEF LoopAdd
    <3>5. /\ v \in Loops /\ v.system = x.system
          /\ v.turns = Append(x.turns, t) \/ v.turns = Append(Append(x.turns, t), Okay)
      BY <3>3, LoopAdds
    <3> HIDE DEF Step
    <3> QED
      BY <2>2, <3>1, <3>4, <3>5, Zenon
  <2> QED
    BY <2>1, <2>2, Zenon
<1>4. Base \in Loops
  <2>1. <<>> \in Seq(TurnType)
    OBVIOUS
  <2> QED
    BY <2>1, Zenon DEF Loops
<1>5. PICK g \in [0..Len(m) -> Loops] : g[0] = Base /\ \A n \in 1..Len(m) : g[n] = Step(n, g[n - 1])
  <2> DEFINE F == [n \in 1..Len(m) |-> [x \in Loops |-> Step(n, x)]]
  <2>1. \A n \in 1..Len(m), x \in Loops : Step(n, x) \in Loops
    BY <1>3
  <2> HIDE DEF Step, Base
  <2>2. F \in [1..Len(m) -> [Loops -> Loops]]
    BY <2>1
  <2>3. PICK g : IsLoop(g, Len(m), Loops, Base, F)
    <3> HIDE DEF F
    <3> QED
      BY <1>1, <1>4, <2>2, Loop, Zenon
  <2>4. g \in [0..Len(m) -> Loops] /\ g[0] = Base
    BY <2>3 DEF IsLoop
  <2>5. ASSUME NEW n \in 1..Len(m) PROVE g[n] = Step(n, g[n - 1])
    <3>1. n - 1 \in 0..Len(m)
      BY <1>1
    <3>2. g[n - 1] \in Loops
      BY <2>4, <3>1
    <3>3. g[n] = F[n][g[n - 1]]
      BY <2>3 DEF IsLoop
    <3> QED
      BY <3>2, <3>3
  <2> QED
    BY <2>4, <2>5
<1>6. g = Body(g)
  <2>1. ASSUME NEW n \in 0..Len(m) PROVE g[n] = Body(g)[n]
    <3>1. CASE n = 0
      <4> HIDE DEF Step
      <4> QED
        BY <1>5, <3>1, Zenon
    <3>2. CASE n # 0
      <4>1. n \in 1..Len(m)
        BY <1>1, <3>2
      <4> QED
        BY <1>5, <3>2, <4>1, Zenon
    <3> QED
      BY <3>1, <3>2
  <2>2. DOMAIN g = 0..Len(m)
    BY <1>5
  <2>3. DOMAIN Body(g) = 0..Len(m) /\ Body(g) = [n \in 0..Len(m) |-> Body(g)[n]]
    BY Zenon
  <2>4. g = [n \in 0..Len(m) |-> g[n]]
    BY <1>5, Zenon
  <2> HIDE DEF Body
  <2> QED
    BY <2>1, <2>3, <2>4
<1> DEFINE f == CHOOSE h : h = Body(h)
<1>7. f = Body(f)
  <2> HIDE DEF Body
  <2> QED
    BY <1>6
<1>8. GeminiRequest(m, i) = Request(f[Len(m)].system, f[Len(m)].turns)
  BY Zenon DEF GeminiRequest, role
<1> HIDE DEF f
<1>9. \A n \in 0..Len(m) : f[n] = g[n]
  <2> DEFINE P == {n \in 0..Len(m) : f[n] = g[n]}
  <2>1. 0 \in P
    <3>1. 0 \in 0..Len(m)
      BY <1>1
    <3> QED
      BY <1>5, <1>7, <3>1, Zenon
  <2>2. ASSUME NEW n \in 1..Len(m), n - 1 \in P PROVE n \in P
    <3>1. n \in 0..Len(m) /\ n # 0
      BY <1>1
    <3>2. f[n - 1] = g[n - 1]
      BY <2>2
    <3>3. f[n] = Step(n, f[n - 1])
      BY <1>7, <3>1, Zenon
    <3> HIDE DEF Step
    <3> QED
      BY <1>5, <3>1, <3>2, <3>3
  <2> HIDE DEF P
  <2>3. \A n \in 0..Len(m) : n \in P
    BY <1>1, <2>1, <2>2, UpTo
  <2> QED
    BY <2>3 DEF P
<1>10. Len(m) \in 0..Len(m)
  BY <1>1
<1>11. GeminiRequest(m, i) = Request(g[Len(m)].system, g[Len(m)].turns)
  BY <1>8, <1>9, <1>10
<1>12. ASSUME NEW n \in 1..Len(m)
       PROVE  IF m[n].role = "system" /\ i THEN g[n].system = n /\ g[n].turns = g[n - 1].turns
              ELSE \E t \in TurnType :
                     /\ t.of = n /\ g[n].system = g[n - 1].system
                     /\ \/ g[n].turns = Append(g[n - 1].turns, t)
                        \/ g[n].turns = Append(Append(g[n - 1].turns, t), Okay)
  <2>1. n - 1 \in 0..Len(m)
    BY <1>1
  <2> HIDE DEF Step
  <2>2. PICK y \in Loops : y = g[n - 1]
    BY <1>5, <2>1
  <2>3. g[n] = Step(n, y)
    BY <1>5, <2>2
  <2>4. IF m[n].role = "system" /\ i THEN Step(n, y).system = n /\ Step(n, y).turns = y.turns
        ELSE \E t \in TurnType :
               /\ t.of = n /\ Step(n, y).system = y.system
               /\ \/ Step(n, y).turns = Append(y.turns, t)
                  \/ Step(n, y).turns = Append(Append(y.turns, t), Okay)
    BY <1>3, Zenon
  <2> QED
    BY <2>2, <2>3, <2>4, Zenon
<1> HIDE DEF Step
<1> QED
  BY <1>5, <1>11, <1>12, Zenon

LEMMA GeminiFollows ==
  ASSUME NEW m \in Seq(Messages), NEW i \in BOOLEAN
  PROVE  Follows("gemini", m, GeminiRequest(m, i))
<1> DEFINE N == Len(m)
<1>0. N = Len(m)
  OBVIOUS
<1>1. N \in Nat /\ DOMAIN m = 1..N /\ \A k \in 1..N : k \in Nat /\ k # 0
  BY <1>0, MessageIs
<1>2. PICK g \in [0..N -> Loops] :
        /\ g[0] = [system |-> 0, turns |-> <<>>, dummy |-> FALSE]
        /\ \A n \in 1..N :
             IF m[n].role = "system" /\ i THEN g[n].system = n /\ g[n].turns = g[n - 1].turns
             ELSE \E t \in TurnType :
                    /\ t.of = n /\ g[n].system = g[n - 1].system
                    /\ \/ g[n].turns = Append(g[n - 1].turns, t)
                       \/ g[n].turns = Append(Append(g[n - 1].turns, t), Okay)
        /\ GeminiRequest(m, i) = Request(g[N].system, g[N].turns)
  BY GeminiLoop
<1> HIDE DEF N
<1>3. PICK C : C = {k \in 1..N : m[k].role = "system" /\ i}
  OBVIOUS
<1> DEFINE
      K(n) == (1..n) \ C
      Late(x, n) == /\ x = 0 \/ (x \in C /\ x \in 1..n)
                    /\ \A k \in C : k \in 1..n => k <= x
      P == {n \in 0..N : Asks(g[n].turns, K(n)) /\ Late(g[n].system, n)}
<1>4. 0 \in P
  <2>1. 1..0 = {} /\ 0 \in 0..N
    BY <1>1
  <2>2. g[0].turns = <<>> /\ g[0].system = 0
    <3>1. PICK v : v = g[0]
      OBVIOUS
    <3>2. v = [system |-> 0, turns |-> <<>>, dummy |-> FALSE]
      BY <1>2, <3>1
    <3>3. v.turns = <<>> /\ v.system = 0
      BY <3>2, Zenon
    <3> QED
      BY <3>1, <3>3
  <2>3. K(0) = {}
    BY <2>1
  <2>4. Asks(g[0].turns, K(0))
    BY <2>2, <2>3, AsksNone
  <2> QED
    BY <2>1, <2>2, <2>4
<1>5. ASSUME NEW n \in 1..N, n - 1 \in P PROVE n \in P
  <2>1. n \in Nat /\ n # 0 /\ n - 1 \in 0..N /\ n \in 0..N /\ n \notin 1..n - 1 /\ n \in 1..n
        /\ (\A k \in 1..n - 1 : k < n /\ k \in 1..n) /\ 1..n = (1..n - 1) \cup {n}
    BY <1>1
  <2>2. Asks(g[n - 1].turns, K(n - 1)) /\ Late(g[n - 1].system, n - 1)
    BY <1>5
  <2>3. CASE m[n].role = "system" /\ i
    <3>1. g[n].system = n /\ g[n].turns = g[n - 1].turns
      BY <1>2, <2>3
    <3>2. n \in C
      BY <1>3, <2>3
    <3>3. K(n) = K(n - 1)
      BY <2>1, <3>2
    <3>4. Asks(g[n].turns, K(n))
      BY <2>2, <3>1, <3>3
    <3>5. Late(g[n].system, n)
      BY <2>1, <3>1, <3>2
    <3> QED
      BY <2>1, <3>4, <3>5
  <2>4. CASE ~ (m[n].role = "system" /\ i)
    <3>1. PICK t \in TurnType :
            /\ t.of = n /\ g[n].system = g[n - 1].system
            /\ \/ g[n].turns = Append(g[n - 1].turns, t)
               \/ g[n].turns = Append(Append(g[n - 1].turns, t), Okay)
      BY <1>2, <2>4
    <3>2. n \notin C
      BY <1>3, <2>4
    <3>3. K(n) = K(n - 1) \cup ({t.of} \ {0})
      BY <2>1, <3>1, <3>2
    <3>4. \A k \in K(n - 1) : k < t.of
      BY <2>1, <3>1
    <3>5. Asks(Append(g[n - 1].turns, t), K(n))
      <4> HIDE DEF K
      <4> QED
        BY <2>2, <3>3, <3>4, AsksMore
    <3>6. PICK o \in TurnType : o = Okay /\ o.of = 0
      <4>1. "model" \in Names /\ 0 \in Nat
        BY DEF Names
      <4> QED
        BY <4>1, TurnIs DEF Okay
    <3>7. Asks(Append(Append(g[n - 1].turns, t), o), K(n) \cup ({o.of} \ {0}))
      <4> HIDE DEF K
      <4> QED
        BY <3>5, <3>6, AsksMore
    <3>8. K(n) \cup ({o.of} \ {0}) = K(n)
      BY <3>6
    <3>9. Asks(g[n].turns, K(n))
      <4> HIDE DEF K
      <4> QED
        BY <3>1, <3>5, <3>6, <3>7, <3>8, Zenon
    <3>10. Late(g[n].system, n)
      <4>1. \A k \in C : k \in 1..n => k \in 1..n - 1
        BY <2>1, <3>2
      <4> QED
        BY <2>1, <2>2, <3>1, <4>1
    <3> QED
      BY <2>1, <3>9, <3>10
  <2> QED
    BY <2>3, <2>4
<1>6. N \in P
  <2> HIDE DEF P
  <2>1. \A n \in 0..N : n \in P
    BY <1>1, <1>4, <1>5, UpTo
  <2> QED
    BY <1>1, <2>1
<1>7. PICK x, t : x = g[N].system /\ t = g[N].turns
  OBVIOUS
<1>8. Asks(t, K(N)) /\ Late(x, N)
  BY <1>6, <1>7
<1>9. PICK r : r = Request(x, t)
  OBVIOUS
<1>10. ASSUME NEW k \in 1..Len(m)
       PROVE  (x = k => k \notin K(N)) /\ ((k \in K(N) \/ x = k) <=> ~ Rule("gemini", m, r, k))
  <2>1. r.system = x
    BY <1>9, RequestIs
  <2>2. Rule("gemini", m, r, k) <=> m[k].role = "system" /\ k < x
    BY <2>1 DEF Rule
  <2>3. k \in 1..N /\ k \in Nat /\ k # 0
    BY <1>0, <1>1
  <2>4. k \in C <=> m[k].role = "system" /\ i
    BY <1>3, <2>3
  <2>5. CASE x = 0
    <3>1. k \notin C
      BY <1>8, <2>3, <2>5
    <3> QED
      BY <2>2, <2>3, <2>5, <3>1
  <2>6. CASE x # 0
    <3>1. x \in C /\ x \in 1..N /\ (k \in C => k <= x)
      BY <1>8, <2>3, <2>6
    <3>2. i
      BY <1>3, <3>1
    <3> QED
      BY <1>1, <2>2, <2>3, <2>4, <3>1, <3>2
  <2> QED
    BY <2>5, <2>6
<1>11. GeminiRequest(m, i) = r
  BY <1>2, <1>7, <1>9
<1> HIDE DEF K
<1> QED
  BY <1>8, <1>9, <1>10, <1>11, AsksFollow

\* Every request is made by the rule of its adaptor.
LEMMA ConvertFollows ==
  ASSUME NEW m \in Seq(Messages), m # <<>>, call \in Calls, call.mode \in {"stream", "text"},
         NEW r \in ConvertRequest(m), r.got = "request"
  PROVE  Follows(a, m, r)
<1>1. PICK b : b = a
  OBVIOUS
<1>2. CASE a \in {"openai", "completions", "zhipuV4", "zhipu", "ali", "cloudflare", "awsLlama", "xunfei"}
  <2>1. r = Request(0, Turns(m))
    BY <1>2 DEF ConvertRequest, OpenaiRequest, ZhipuRequest, AliRequest, CloudflareRequest, LlamaRequest,
                XunfeiRequest
  <2> QED
    BY <1>2, <2>1, SameFollows
<1>3. CASE a = "tencent"
  <2>1. r = Request(0, Turns(m))
    <3>1. r \in {Request(0, Turns(m)), Refuse}
      BY <1>3 DEF ConvertRequest, TencentRequest
    <3>2. Refuse.got # "request"
      BY DEF Refuse
    <3> QED
      BY <3>1, <3>2
  <2> QED
    BY <1>3, <2>1, SameFollows
<1>4. CASE a \in {"anthropic", "awsClaude"}
  <2>1. r = AnthropicRequest(m)
    BY <1>4 DEF ConvertRequest
  <2> QED
    BY <1>4, <2>1, AnthropicFollows
<1>5. CASE a = "gemini"
  <2>1. PICK i \in BOOLEAN : r = GeminiRequest(m, i)
    BY <1>5 DEF ConvertRequest
  <2> QED
    BY <1>5, <2>1, GeminiFollows
<1>6. CASE a = "baidu"
  BY <1>6, BaiduFollows DEF ConvertRequest
<1>7. CASE a = "ollama"
  BY <1>7, OllamaFollows DEF ConvertRequest
<1>8. CASE a = "cohere"
  BY <1>8, CohereFollows DEF ConvertRequest
<1>9. CASE a = "coze"
  BY <1>9, CozeFollows DEF ConvertRequest
<1>10. CASE a \in {"aiproxy", "deepl"}
  <2>1. PICK name \in Names : r = Request(0, <<Turn(name, Len(m))>>)
    BY <1>10 DEF ConvertRequest, AiproxyRequest, DeeplRequest, Names
  <2> QED
    BY <1>10, <2>1, LastFollows
<1>11. CASE a = "replicate"
  <2>1. stream \in BOOLEAN
    BY DEF stream
  <2> QED
    BY <1>11, <2>1, ReplicateFollows DEF ConvertRequest
<1>12. CASE a = "palm"
  BY <1>12, PalmFollows DEF ConvertRequest
<1>13. a \in Streaming \cup {"xunfei", "palm", "deepl"}
  BY DEF a, Calls, Streaming
<1> QED
  BY <1>2, <1>3, <1>4, <1>5, <1>6, <1>7, <1>8, <1>9, <1>10, <1>11, <1>12, <1>13 DEF Streaming

LEMMA InputsFollow ==
  ASSUME NEW m \in Seq(Messages), call \in Calls, call.mode = "embedding",
         ConvertEmbeddingRequest(m).got = "request"
  PROVE  Follows(a, m, ConvertEmbeddingRequest(m))
<1>1. ConvertEmbeddingRequest(m) = Request(0, Turns(m))
  BY DEF ConvertEmbeddingRequest, Refuse
<1>2. a \notin {"cohere", "aiproxy", "deepl", "replicate"}
  BY DEF a, Calls
<1> QED
  BY <1>1, <1>2, SameFollows

-----------------------------------------------------------------------------
\* What is sent follows the rule from the conversion until it is forgotten.
SentInv ==
  /\ call \in Calls
  /\ ms \in Seq(Messages)
  /\ call.mode \in {"image", "proxy"} => ms = <<>>
  /\ Converted => Follows(a, ms, sent)

LEMMA SentInit == Init => SentInv
<1> SUFFICES ASSUME Init PROVE SentInv
  OBVIOUS
<1>1. call \in Calls /\ pc = "start" /\ ms \in Given(call.mode)
  BY DEF Init
<1>2. ms \in Conversations \/ ms \in Inputs \/ ms = <<>>
  BY <1>1, Zenon DEF Given
<1>3. Conversations \in SUBSET Seq(Messages)
  BY AdaptorAssumption DEF Conversations, AdaptorAssumption
<1>4. Inputs \in SUBSET Seq(Messages)
  <2>1. PICK x \in Messages : x = [role |-> "user", content |-> "string"]
    BY DEF Messages, Roles
  <2>2. Inputs = {<<>>} \cup {[k \in 1..n |-> x] : n \in 1..MaxMessages}
    BY <2>1 DEF Inputs
  <2>3. \A n \in 1..MaxMessages : [k \in 1..n |-> x] \in Seq(Messages)
    BY AdaptorAssumption DEF AdaptorAssumption
  <2>4. <<>> \in Seq(Messages)
    OBVIOUS
  <2> QED
    BY <2>2, <2>3, <2>4
<1>5. ms \in Seq(Messages)
  <2>1. <<>> \in Seq(Messages)
    OBVIOUS
  <2> QED
    BY <1>2, <1>3, <1>4, <2>1, Zenon
<1>6. call.mode \in {"image", "proxy"} => ms = <<>>
  BY <1>1 DEF Given
<1>7. ~ Converted
  BY <1>1 DEF Converted
<1> QED
  BY <1>1, <1>5, <1>6, <1>7 DEF SentInv

LEMMA SentStep == SentInv /\ [Next]_vars => SentInv'
<1> SUFFICES ASSUME SentInv, [Next]_vars PROVE SentInv'
  OBVIOUS
<1>0. call \in Calls /\ ms \in Seq(Messages) /\ (call.mode \in {"image", "proxy"} => ms = <<>>)
      /\ (Converted => Follows(a, ms, sent))
  BY DEF SentInv
<1>1. ASSUME call' = call, ms' = ms, sent' = sent, pc' = pc \/ pc' # "converted" PROVE SentInv'
  <2>1. Converted' => Converted
    BY <1>1 DEF Converted
  <2>2. Follows(a, ms, sent)' <=> Follows(a, ms, sent)
    BY <1>1 DEF Follows, Rule, Count, a
  <2> QED
    BY <1>0, <1>1, <2>1, <2>2 DEF SentInv
<1>2. ASSUME call' = call, ms' = <<>> PROVE SentInv'
  <2>1. ms' \in Seq(Messages) /\ ~ Converted'
    BY <1>2 DEF Converted
  <2> QED
    BY <1>0, <1>2, <2>1 DEF SentInv
<1>3. ASSUME NEW x, Converts(x), (ms # <<>> /\ x.got = "request") => Follows(a, ms, x) PROVE SentInv'
  <2>1. call' = call /\ ms' = ms /\ sent' = x
    BY <1>3 DEF Converts
  <2>2. Converted' => ms # <<>> /\ x.got = "request"
    BY <2>1 DEF Converted
  <2>3. Follows(a, ms, sent)' <=> Follows(a, ms, x)
    BY <2>1 DEF Follows, Rule, Count, a
  <2> QED
    BY <1>0, <1>3, <2>1, <2>2, <2>3 DEF SentInv
<1>4. CASE ConvertText
  <2>1. PICK x \in ConvertRequest(ms) : Converts(x)
    BY <1>4 DEF ConvertText
  <2>2. call.mode \in {"stream", "text"}
    BY <1>4 DEF ConvertText
  <2> QED
    BY <1>0, <1>3, <2>1, <2>2, ConvertFollows
<1>5. CASE ConvertEmbedding
  <2>1. PICK x : x = ConvertEmbeddingRequest(ms)
    OBVIOUS
  <2>2. call.mode = "embedding" /\ Converts(x)
    BY <1>5, <2>1 DEF ConvertEmbedding
  <2> QED
    BY <1>0, <1>3, <2>1, <2>2, InputsFollow
<1>6. CASE ConvertOther
  <2>1. PICK x : x = Request(0, <<>>)
    OBVIOUS
  <2>2. call.mode \in {"image", "proxy"} /\ Converts(x)
    BY <1>6, <2>1 DEF ConvertOther
  <2> QED
    BY <1>0, <1>3, <2>2
<1>7. CASE ConvertFails
  BY <1>2, <1>7 DEF ConvertFails, Forget
<1>8. CASE DoRequestFails
  BY <1>2, <1>8 DEF DoRequestFails, Forget
<1>9. CASE DoRequest
  BY <1>2, <1>9 DEF DoRequest, Forget
<1>10. CASE ReadItem
  BY <1>1, <1>10 DEF ReadItem
<1>11. CASE StreamRefused
  BY <1>1, <1>11 DEF StreamRefused
<1>12. CASE EndOfStream
  BY <1>1, <1>12 DEF EndOfStream
<1>13. CASE ClientLeaves
  BY <1>1, <1>13 DEF ClientLeaves
<1>14. CASE StreamLeft
  BY <1>1, <1>14 DEF StreamLeft
<1>15. CASE Connect
  BY <1>1, <1>15 DEF Connect
<1>16. CASE ProducerReads
  BY <1>1, <1>16 DEF ProducerReads
<1>17. CASE Receive
  BY <1>1, <1>17 DEF Receive
<1>18. CASE ReceiveStop
  BY <1>1, <1>18 DEF ReceiveStop
<1>19. CASE ReadBody
  BY <1>1, <1>19 DEF ReadBody
<1>20. CASE TaskAccepted
  BY <1>1, <1>20 DEF TaskAccepted
<1>21. CASE PollAgain
  BY <1>1, <1>21 DEF PollAgain
<1>22. CASE Wake
  BY <1>1, <1>22 DEF Wake
<1>23. CASE TaskFails
  BY <1>1, <1>23 DEF TaskFails
<1>24. CASE TaskStreams
  BY <1>1, <1>24 DEF TaskStreams
<1>25. CASE TaskImages
  BY <1>1, <1>25 DEF TaskImages
<1>26. CASE Settle
  BY <1>1, <1>26 DEF Settle
<1>27. CASE Finished
  BY <1>1, <1>27 DEF Finished, vars
<1>28. CASE UNCHANGED vars
  BY <1>1, <1>28 DEF vars
<1> QED
  BY <1>4, <1>5, <1>6, <1>7, <1>8, <1>9, <1>10, <1>11, <1>12, <1>13, <1>14, <1>15, <1>16, <1>17, <1>18,
     <1>19, <1>20, <1>21, <1>22, <1>23, <1>24, <1>25, <1>26, <1>27, <1>28 DEF Next

\* However long the conversation, whatever the roles and contents in it: every turn is in
\* the request once and in its place, but those that the adaptor's rule leaves out.
THEOREM TurnsSent == Spec => []TurnsDroppedByRule
<1>1. SentInv => TurnsDroppedByRule
  BY DEF SentInv, TurnsDroppedByRule, DroppedByRule, Follows, Rule, Count
<1> QED
  BY <1>1, SentInit, SentStep, PTL DEF Spec

=============================================================================
