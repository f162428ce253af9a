------------------------- MODULE AdaptorConversions -------------------------
(***************************************************************************)
(* What ConvertRequest of each protocol adaptor makes of the conversation  *)
(* in an OpenAI request: the turns the channel is sent, in their order.    *)
(* The words of a turn do not matter to the conversion, only its role, its *)
(* place and whether its content is one string or a list of parts (several *)
(* texts and images); no content is empty.                                 *)
(***************************************************************************)
EXTENDS Integers, Sequences

Roles == {"system", "user", "assistant", "tool"}
Messages == [role : Roles, content : {"string", "parts"}]

\* The text of the whole turn of the conversation, under a role of the channel.
Turn(role, of) == [role |-> role, of |-> of, whole |-> TRUE]

\* A turn that stands for none of the conversation.
Okay == Turn("model", 0)

\* A request to the channel: system is the turn that is sent as system prompt, or 0.
Request(system, turns) == [got |-> "request", system |-> system, turns |-> turns]
Refuse == [got |-> "error", system |-> 0, turns |-> <<>>]
Panic == [got |-> "panic", system |-> 0, turns |-> <<>>]

Turns(ms) == [k \in 1..Len(ms) |-> Turn(ms[k].role, k)]
Where(ms, roles) == {k \in 1..Len(ms) : ms[k].role \in roles}
Greatest(S) == IF S = {} THEN 0 ELSE CHOOSE k \in S : \A j \in S : j <= k
Least(S) == IF S = {} THEN 0 ELSE CHOOSE k \in S : \A j \in S : k <= j

\* The loop that appends the turns at the places in K.
Chosen(turns, K) ==
  LET after[n \in 0..Len(turns)] ==
        IF n = 0 THEN <<>>
        ELSE IF n \in K THEN Append(after[n - 1], turns[n]) ELSE after[n - 1]
  IN  after[Len(turns)]

-----------------------------------------------------------------------------
(* Adaptors that send every turn as it came. *)

OpenaiRequest(ms) == Request(0, Turns(ms))
TencentRequest(ms) == Request(0, Turns(ms))
ZhipuRequest(ms) == Request(0, Turns(ms))
AliRequest(ms) == Request(0, Turns(ms))
XunfeiRequest(ms) == Request(0, Turns(ms))
CloudflareRequest(ms) == Request(0, Turns(ms))
LlamaRequest(ms) == Request(0, Turns(ms))

\* A turn of several texts keeps the last of them.
OllamaRequest(ms) ==
  Request(0, [k \in 1..Len(ms) |-> [Turn(ms[k].role, k) EXCEPT !.whole = ms[k].content = "string"]])

PalmRequest(ms) == Request(0, [k \in 1..Len(ms) |-> Turn(IF ms[k].role = "user" THEN "0" ELSE "1", k)])

-----------------------------------------------------------------------------
(* Adaptors that set some turns apart. *)

\* Each system turn takes the place of the one before.
BaiduRequest(ms) ==
  Request(Greatest(Where(ms, {"system"})), Chosen(Turns(ms), Where(ms, Roles \ {"system"})))

\* Faulty variant: every system turn is taken out.
AnthropicRequestOneSystem(ms) ==
  Request(Least(Where(ms, {"system"})), Chosen(Turns(ms), Where(ms, Roles \ {"system"})))

\* The first system turn is the system prompt, later ones stay among the turns; the
\* result of a tool is given in the user's name if it is a string.
AnthropicRequest(ms) ==
  LET first == Least(Where(ms, {"system"}))
      turns == [k \in 1..Len(ms) |->
                  Turn(IF ms[k].role = "tool" /\ ms[k].content = "string" THEN "user" ELSE ms[k].role, k)]
  IN  Request(first, Chosen(turns, DOMAIN ms \ {first}))

\* A system turn is the instruction of a model that supports one and a turn of the user
\* for the others.  Either way a placeholder of the model's follows the next turn that
\* is appended.
GeminiRequest(ms, instruction) ==
  LET role(r) == CASE r = "assistant" -> "model" [] r = "system" -> "user" [] OTHER -> r
      after[n \in 0..Len(ms)] ==
        IF n = 0 THEN [system |-> 0, turns |-> <<>>, dummy |-> FALSE]
        ELSE IF ms[n].role = "system" /\ instruction THEN [after[n - 1] EXCEPT !.system = n, !.dummy = TRUE]
        ELSE [after[n - 1] EXCEPT
                !.turns = Append(@, Turn(role(ms[n].role), n)) \o
                          (IF after[n - 1].dummy \/ ms[n].role = "system" THEN <<Okay>> ELSE <<>>),
                !.dummy = FALSE]
  IN  Request(after[Len(ms)].system, after[Len(ms)].turns)

\* The last turn of the user is the message, its earlier ones are not sent; the others
\* are the history.  A content that is not a string makes the type assertion panic.
CohereRequest(ms) ==
  LET role(r) == CASE r = "assistant" -> "CHATBOT" [] r = "system" -> "SYSTEM" [] OTHER -> "USER"
      asked == Greatest(Where(ms, {"user"}))
      turns == [k \in 1..Len(ms) |-> Turn(IF ms[k].role = "user" THEN "message" ELSE role(ms[k].role), k)]
  IN  IF \E k \in 1..Len(ms) : ms[k].content # "string" THEN Panic
      ELSE Request(0, Chosen(turns, Where(ms, Roles \ {"user"})) \o Chosen(turns, {asked}))

\* The last turn is the query, whatever its role.
CozeRequest(ms) ==
  Request(0, [k \in 1..Len(ms) |-> Turn(IF k = Len(ms) THEN "query" ELSE ms[k].role, k)])

\* Only the last turn is sent.
AiproxyRequest(ms) == Request(0, <<Turn("query", Len(ms))>>)
DeeplRequest(ms) == Request(0, <<Turn("text", Len(ms))>>)

\* One prompt of all turns whose content is a string; only streams are served.
ReplicateRequest(ms, stream) ==
  IF ~stream THEN Refuse
  ELSE Request(0, Chosen(Turns(ms), {k \in DOMAIN ms : ms[k].content = "string"}))

=============================================================================
