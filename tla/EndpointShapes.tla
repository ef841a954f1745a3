----------------------------- MODULE EndpointShapes -----------------------------
(***************************************************************************)
(* The request bodies of the native and of the Anthropic-compatible        *)
(* endpoint, and the translation of an OpenAI answer into an Anthropic     *)
(* one (endpointAdapters.ts, with nativeChatStream and                     *)
(* anthropicMessagesStream of api.ts).  No panel of the application sends  *)
(* to these endpoints; the library's functions are modelled as they are.   *)
(*                                                                         *)
(* A text is one model value, an argument string is what JSON.parse makes  *)
(* of it, and a part of a message one of "text", "data" (an image as a     *)
(* data URL) and "link" (any other image).                                 *)
(***************************************************************************)
EXTENDS Integers, Sequences, FiniteSets

CONSTANTS
  CallIds,      \* ids that servers give tool calls
  Options,      \* keys of sampling.options
  MaxMessages   \* bound: messages of a conversation

VARIABLE shape
vars == <<shape>>

NoId == <<"none", 0>>
ServerId(n) == <<"server", n>>
Ids == {ServerId(n) : n \in CallIds}
Arguments == {"object", "array", "broken"}

\* ChatMessage: the content is a string or a list of parts.
Call(id, arguments) == [id |-> id, arguments |-> arguments]
Message(role, string, parts, calls, id) ==
  [role |-> role, string |-> string, parts |-> parts, calls |-> calls, id |-> id]

\* AnthropicContentBlock
Block(type, of, id) == [type |-> type, of |-> of, id |-> id]
BlockTypes == {"text", "image", "thinking", "tool_use", "tool_result"}

-----------------------------------------------------------------------------
\* toAnthropicContent: an image that is no data URL becomes a text.
Content(m) ==
  [k \in DOMAIN m.parts |->
     IF m.parts[k] = "data" THEN Block("image", "data", NoId) ELSE Block("text", m.parts[k], NoId)]

\* What the arguments of a call are, as the input of a tool_use block.
Input(arguments) ==
  CASE arguments = "object" -> "object" [] arguments = "broken" -> "raw" [] OTHER -> "empty"

ToolUse(call) == Block("tool_use", Input(call.arguments), call.id)

\* toAnthropicMessage: of the content beside calls only a string is kept.
AnthropicMessage(m) ==
  CASE m.role = "tool" -> [role |-> "user", content |-> <<Block("tool_result", "text", m.id)>>]
    [] m.role = "assistant" /\ m.calls # <<>> ->
         [role |-> "assistant",
          content |-> (IF m.string THEN Content(m) ELSE <<>>) \o [k \in DOMAIN m.calls |-> ToolUse(m.calls[k])]]
    [] OTHER -> [role |-> m.role, content |-> Content(m)]

\* Mutant: tool messages are left out.
Spoken_WithoutTools(ms) == SelectSeq(ms, LAMBDA m : m.role \notin {"system", "tool"})
Spoken(ms) == SelectSeq(ms, LAMBDA m : m.role # "system")

\* The first system message, if it is a string.
SystemPrompt(ms) ==
  LET at == {i \in DOMAIN ms : ms[i].role = "system"}
  IN  IF at # {} /\ ms[CHOOSE i \in at : \A j \in at : i <= j].string
      THEN {CHOOSE i \in at : \A j \in at : i <= j} ELSE {}

OwnKeys == {"model", "input", "stream", "store", "temperature", "top_p", "top_k"}

\* Mutant: the chat options win over the request's own fields.
NativeBody_OptionsLast(ms, options, reasoning) ==
  [endpoint |-> "native", messages |-> Spoken(ms), system |-> SystemPrompt(ms),
   options |-> options \ {"reasoning"}]

\* buildNativeChatRequestBody: the application's keys replace the options' ones;
\* without a system prompt or an earlier response the key goes away altogether.
NativeBody(ms, options, reasoning) ==
  [endpoint |-> "native", messages |-> Spoken(ms), system |-> SystemPrompt(ms),
   options |-> options \ (OwnKeys \cup {"system_prompt", "previous_response_id"}
                          \cup (IF reasoning = "default" THEN {} ELSE {"reasoning"}))]

\* buildAnthropicMessagesRequestBody: of the options only max_tokens counts.
AnthropicBody(ms, options) ==
  LET spoken == Spoken(ms)
  IN  [endpoint |-> "anthropic", messages |-> [i \in DOMAIN spoken |-> AnthropicMessage(spoken[i])],
       system |-> SystemPrompt(ms), options |-> options \cap {"max_tokens"}]

-----------------------------------------------------------------------------
StopReason(finish) ==
  CASE finish \in {"tool_calls", "function_call"} -> "tool_use"
    [] finish = "length" -> "max_tokens"
    [] finish = "stop" -> "end_turn"
    [] finish = "content_filter" -> "stop_sequence"
    [] OTHER -> "null"

\* textFromOpenAiMessage: the texts of the parts, joined.
AnswerText(m) ==
  IF \E k \in DOMAIN m.parts : m.parts[k] = "text" THEN <<Block("text", "text", NoId)>> ELSE <<>>

\* Mutant: a call without an id is not numbered by its place.
Translated_ById(m, reasoning, finish) ==
  [content |-> (IF reasoning THEN <<Block("thinking", "text", NoId)>> ELSE <<>>) \o AnswerText(m)
               \o [k \in DOMAIN m.calls |->
                     IF m.calls[k].id = NoId THEN Block("tool_use", Input(m.calls[k].arguments), <<"tool-call", 0>>)
                     ELSE ToolUse(m.calls[k])],
   stop |-> StopReason(finish)]

\* translateOpenAiResponseToAnthropic: a call without an id is numbered by the
\* blocks before it.
Translated(m, reasoning, finish) ==
  LET before == (IF reasoning THEN <<Block("thinking", "text", NoId)>> ELSE <<>>) \o AnswerText(m)
  IN  [content |-> before \o
         [k \in DOMAIN m.calls |->
            IF m.calls[k].id # NoId THEN ToolUse(m.calls[k])
            ELSE Block("tool_use", Input(m.calls[k].arguments), <<"tool-call", Len(before) + k - 1>>)],
       stop |-> StopReason(finish)]

-----------------------------------------------------------------------------
NoBody == [endpoint |-> "none", messages |-> <<>>, system |-> {}, options |-> {}]
NoAnswer == [content |-> <<>>, stop |-> "null"]

Init ==
  \E system \in 0..1 :
    shape = [ messages |-> IF system = 1 THEN <<Message("system", TRUE, <<"text">>, <<>>, NoId)>> ELSE <<>>,
              body |-> NoBody, of |-> <<>>, answer |-> NoAnswer, state |-> "idle" ]

Says(ms) == [shape EXCEPT !.messages = @ \o ms, !.body = NoBody, !.of = <<>>,
                          !.answer = NoAnswer, !.state = "idle"]

\* buildMultimodalContent: a question is a string, or a text and images.
Asks ==
  \E parts \in {<<"text">>, <<"text", "data">>, <<"link">>} :
    /\ Len(shape.messages) < MaxMessages
    /\ shape' = Says(<<Message("user", parts = <<"text">>, parts, <<>>, NoId)>>)

\* A round of approved tool calls, each answered; or an answer in words.
Replies ==
  \E parts \in {<<>>, <<"text">>} : \E n \in 0..2 : \E calls \in [1..n -> {Call(id, a) : id \in Ids, a \in Arguments}] :
    /\ Len(shape.messages) < MaxMessages /\ \A i, j \in 1..n : i # j => calls[i].id # calls[j].id
    /\ shape' = Says(<<Message("assistant", TRUE, parts, calls, NoId)>>
                     \o [k \in 1..n |-> Message("tool", TRUE, <<"text">>, <<>>, calls[k].id)])

\* nativeChatStream, anthropicMessagesStream: without a key nothing is sent; a
\* refusal and an empty body are errors.
Posts ==
  \E body \in {NativeBody(shape.messages, options, reasoning) :
                 options \in SUBSET Options, reasoning \in {"default", "low"}}
              \cup {AnthropicBody(shape.messages, options) : options \in SUBSET Options} :
    /\ shape.state = "idle" /\ shape.of = <<>>
    /\ \E key \in BOOLEAN :
         shape' = IF key THEN [shape EXCEPT !.body = body, !.state = "posted"]
                  ELSE [shape EXCEPT !.state = "unauthenticated"]
Ends ==
  /\ shape.state = "posted"
  /\ \E state \in {"refused", "empty", "stream"} : shape' = [shape EXCEPT !.state = state]

\* An answer of the OpenAI endpoint; servers may leave out ids.
AnswerComes ==
  \E parts \in {<<>>, <<"text">>, <<"text", "text">>}, reasoning \in BOOLEAN, n \in 0..2,
     finish \in {"stop", "length", "tool_calls", "other"} :
    \E calls \in [1..n -> {Call(id, a) : id \in Ids \cup {NoId}, a \in Arguments}] :
      LET m == Message("assistant", Len(parts) < 2, parts, calls, NoId)
      IN  /\ \A i, j \in 1..n : i # j /\ calls[i].id # NoId => calls[i].id # calls[j].id
          /\ shape.messages = <<>> /\ shape.of = <<>> /\ shape.body = NoBody
          /\ shape' = [shape EXCEPT !.of = <<m>>, !.answer = Translated(m, reasoning, finish)]

Next == Asks \/ Replies \/ Posts \/ Ends \/ AnswerComes

Spec == Init /\ [][Next]_vars
-----------------------------------------------------------------------------
TypeOK ==
  /\ shape.state \in {"idle", "unauthenticated", "posted", "refused", "empty", "stream"}
  /\ shape.body.endpoint \in {"none", "native", "anthropic"}
  /\ \A k \in DOMAIN shape.answer.content : shape.answer.content[k].type \in BlockTypes

Of(ms, i, type) == {k \in DOMAIN ms[i].content : ms[i].content[k].type = type}
IdsOf(ms, i, type) == {ms[i].content[k].id : k \in Of(ms, i, type)}

\* An Anthropic request says all the conversation says, in its order, between
\* a user and an assistant only: no part of a message is lost (where calls come
\* with a string, as the application's do), and the calls of a message are
\* answered, each once, by the messages right behind it.
ConversationKept ==
  shape.body.endpoint = "anthropic" =>
    LET ms == shape.body.messages  spoken == Spoken(shape.messages) IN
    /\ Len(ms) = Len(spoken)
    /\ \A i \in DOMAIN ms :
         /\ ms[i].role = (IF spoken[i].role = "assistant" THEN "assistant" ELSE "user")
         /\ Len(ms[i].content) = Len(spoken[i].parts) + Len(spoken[i].calls)
         /\ LET n == Cardinality(Of(ms, i, "tool_use"))
            IN  /\ i + n <= Len(ms)
                /\ IdsOf(ms, i, "tool_use") = UNION {IdsOf(ms, j, "tool_result") : j \in i + 1..i + n}
         /\ \A id \in IdsOf(ms, i, "tool_result") : \E j \in 1..i - 1 : id \in IdsOf(ms, j, "tool_use")

\* An OpenAI answer becomes the blocks that the same message, were it sent back
\* to an Anthropic endpoint, is translated to, behind its reasoning; the calls
\* of an answer can be told apart even where the server gave them no ids; and
\* the keys the application owns are never the options'.
AnswersAgree ==
  /\ shape.of # <<>> =>
       LET m == shape.of[1]
           said == SelectSeq(shape.answer.content, LAMBDA b : b.type # "thinking")
           uses == {k \in DOMAIN said : said[k].type = "tool_use"}
       IN  /\ \A k, l \in uses : k # l => said[k].id # said[l].id /\ said[k].id # NoId
           /\ m.string /\ (\A k \in DOMAIN m.calls : m.calls[k].id # NoId) =>
                said = AnthropicMessage(m).content
  /\ shape.body.options \cap {"model", "stream", "system_prompt"} = {}
================================================================================
