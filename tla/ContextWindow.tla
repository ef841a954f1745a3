------------------------------ MODULE ContextWindow ------------------------------
(***************************************************************************)
(* Fitting a conversation into the context window: what useChatSend puts   *)
(* together for a request, trimChatHistory and capMaxTokens, in            *)
(* chatUtils.ts.  Tokens are scaled down; the limits keep their relations. *)
(***************************************************************************)
EXTENDS Integers, Sequences, FiniteSets

CONSTANTS
  ContextSize,    \* store.cfg.ctx_size, at least its lower limit
  MinBudget,      \* 256: trimChatHistory never has less
  SystemReserve,  \* 32: what a system prompt leaves of the budget
  AnswerReserve,  \* 64: what capMaxTokens leaves of the window
  Overhead,       \* 4: tokens of a message beside its text, and of the least message
  ImageTokens,    \* 256
  Lengths,        \* tokens of a text
  MaxTokens,      \* values of chat_options.max_tokens, NoLimit for none
  MaxTurns        \* bound: questions of a conversation

\* The limits leave room for a message and an answer.
LimitsFit ==
  /\ MinBudget <= (3 * ContextSize) \div 4
  /\ SystemReserve + Overhead <= MinBudget /\ Overhead < SystemReserve
  /\ ((3 * ContextSize) \div 4) + AnswerReserve < ContextSize

VARIABLE window
vars == <<window>>

\* "call" numbers the tool call a message makes, or answers.
Message(role, text, images, call) ==
  [role |-> role, text |-> text, images |-> images, call |-> call]

\* estimateMessageTokens, estimateChatTokens
Cost(m) == m.text + m.images * ImageTokens + Overhead
TotalCost(ms) ==
  LET Sum[i \in 0..Len(ms)] == IF i = 0 THEN 0 ELSE Sum[i - 1] + Cost(ms[i])
  IN  Sum[Len(ms)]

\* truncateMessage: the longest beginning of the text that fits, and no image.
Truncated(m, budget) ==
  IF Cost(m) <= budget THEN m
  ELSE [m EXCEPT !.images = 0, !.text = IF @ + Overhead <= budget THEN @ ELSE budget - Overhead]

\* The places where a turn begins; what is before the first question is dropped.
Questions(ms) == {i \in 1..Len(ms) : ms[i].role = "user"}
From(ms, i) == SubSeq(ms, i, Len(ms))

\* The newest turns that fit, whole; the newest question alone, cut, if not
\* even its turn does.
Kept(ms, budget) ==
  LET newest == CHOOSE i \in Questions(ms) : \A j \in Questions(ms) : j <= i
      fits   == {i \in Questions(ms) : TotalCost(From(ms, i)) <= budget}
  IN  IF Questions(ms) = {} THEN <<>>
      ELSE IF fits = {} THEN <<Truncated(ms[newest], budget)>>
      ELSE From(ms, CHOOSE i \in fits : \A j \in fits : i <= j)

\* trimChatHistory (rollingWindow, the only policy the application uses).
Trim(ms, budget) ==
  IF TotalCost(ms) <= budget THEN ms
  ELSE IF ms[1].role # "system" THEN Kept(ms, budget)
  ELSE LET system == Truncated(ms[1], budget - SystemReserve)
       IN  <<system>> \o Kept(Tail(ms), budget - Cost(system))

Budget == IF (3 * ContextSize) \div 4 < MinBudget THEN MinBudget ELSE (3 * ContextSize) \div 4

\* max_tokens where it sets no limit: absent, not finite, or negative, as its default is.
NoLimit == -1

\* Mutant: the prompt is not deducted.
Capped_ByWindow(requested, prompt) == IF requested < ContextSize THEN requested ELSE ContextSize

\* capMaxTokens: a limit is capped at what the prompt leaves; no limit stays none.
Capped(requested, prompt) ==
  LET left == ContextSize - prompt - AnswerReserve
      available == IF left < 1 THEN 1 ELSE left
  IN  IF requested < 0 \/ requested < available THEN requested ELSE available

NoRequest == [messages |-> <<>>, answer |-> 0, of |-> <<>>, followup |-> FALSE]

Init ==
  \E system \in Lengths :
    window = [ system |-> Message("system", system, 0, 0),
               msgs |-> <<>>,         \* the bubbles, as toChatMessage gives them
               failed |-> <<>>,       \* failedRef.current.history, if there is one
               asked |-> FALSE,       \* and whether a question is with it
               calls |-> 0,           \* tool calls so far
               pending |-> FALSE,     \* one waits for its approval
               request |-> NoRequest ]

WithoutDangling(ms) ==
  IF ms # <<>> /\ ms[Len(ms)].role = "assistant" THEN SubSeq(ms, 1, Len(ms) - 1) ELSE ms

\* send, with the bubbles it leaves: a tool follow-up goes out as it is, anything
\* else is trimmed.
Sent(w, bubbles, raw, followup, requested) ==
  LET ms == IF followup THEN raw ELSE Trim(raw, Budget)
  IN  [w EXCEPT !.msgs = bubbles, !.failed = ms, !.asked = ~followup,
                !.request = [ messages |-> ms, answer |-> Capped(requested, TotalCost(ms)),
                              of |-> raw, followup |-> followup ]]

\* A question, with all bubbles; the answer before it, already sent with this request,
\* leaves the bubbles.  One that is there already, because it failed, has no second one.
Ask ==
  \E text \in Lengths, images \in 0..1, requested \in MaxTokens :
    LET question == Message("user", text, images, 0)
        before == WithoutDangling(window.msgs)
    IN  /\ Cardinality(Questions(window.msgs)) < MaxTurns
        /\ window.request = NoRequest
        /\ \E bubbles \in {Append(before, question)} \cup
                          (IF before # <<>> /\ before[Len(before)] = question THEN {before} ELSE {}) :
             window' = Sent(window, bubbles, <<window.system>> \o Append(window.msgs, question), FALSE, requested)

Shown(text) == Append(window.msgs, Message("assistant", text, 0, 0))

\* The answer's bubble.
Answered ==
  \E text \in Lengths :
    /\ window.request # NoRequest
    /\ window' = [window EXCEPT !.msgs = Shown(text), !.failed = <<>>, !.asked = FALSE, !.request = NoRequest]

\* The request failed or was stopped, with part of an answer or without; stopped
\* without one, it is forgotten.
Fails ==
  /\ window.request # NoRequest
  /\ \/ \E text \in Lengths : window' = [window EXCEPT !.msgs = Shown(text), !.request = NoRequest]
     \/ window' = [window EXCEPT !.request = NoRequest]
     \/ window' = [window EXCEPT !.failed = <<>>, !.asked = FALSE, !.request = NoRequest]

\* A question that failed is sent again, as it was trimmed.
Retry ==
  \E requested \in MaxTokens :
    /\ window.request = NoRequest /\ window.failed # <<>> /\ window.asked
    /\ window' = Sent(window, WithoutDangling(window.msgs), window.failed, FALSE, requested)

\* The answer is a tool call, which waits for the user.
CallsTool ==
  \E text \in Lengths :
    /\ window.request # NoRequest /\ window.calls < 2
    /\ window' = [window EXCEPT !.msgs = Shown(text), !.pending = TRUE, !.request = NoRequest]

\* Mutant: the call is not sent with its result.
ToolAnswered_ResultOnly ==
  \E text \in Lengths, requested \in MaxTokens :
    LET n == window.calls + 1
    IN  /\ window.pending /\ window.request = NoRequest /\ window.failed # <<>> /\ n <= 2
        /\ window' = Sent([window EXCEPT !.calls = n, !.pending = FALSE], WithoutDangling(window.msgs),
                          window.failed \o <<Message("tool", text, 0, n)>>, TRUE, requested)

\* approvePendingTool: the call and its result go behind the request that failedRef
\* has by then.
ToolAnswered ==
  \E text \in Lengths, requested \in MaxTokens :
    LET n == window.calls + 1
    IN  /\ window.pending /\ window.request = NoRequest /\ window.failed # <<>> /\ n <= 2
        /\ window' = Sent([window EXCEPT !.calls = n, !.pending = FALSE], WithoutDangling(window.msgs),
                          window.failed \o <<Message("assistant", 0, 0, n), Message("tool", text, 0, n)>>,
                          TRUE, requested)

\* The tool failed, or rejectPendingTool.
ToolDropped ==
  /\ window.pending /\ window.request = NoRequest
  /\ \/ window.failed # <<>> /\ window' = [window EXCEPT !.pending = FALSE]
     \/ window' = [window EXCEPT !.pending = FALSE, !.failed = <<>>, !.asked = FALSE,
                                 !.msgs = WithoutDangling(@)]

Next == Ask \/ Answered \/ Fails \/ Retry \/ CallsTool \/ ToolAnswered \/ ToolDropped

Spec == Init /\ [][Next]_vars

-----------------------------------------------------------------------------
TypeOK ==
  /\ LimitsFit /\ window.calls \in 0..2 /\ window.request.answer \in Nat \cup {NoLimit}
  /\ window.asked \in BOOLEAN /\ window.pending \in BOOLEAN
  /\ \A ms \in {window.msgs, window.failed} : \A i \in DOMAIN ms :
       ms[i].role \in {"system", "user", "assistant", "tool"} /\ ms[i].text \in Nat

\* What is sent fits: the prompt into its budget and, when max_tokens sets a limit,
\* prompt, answer and reserve into the window.  (Tool follow-ups are sent at any
\* length, and without a limit, the default, the server bounds the answer.)  The
\* system prompt, however long, is in front of a question, and the newest question
\* is in it.
FitsTheWindow ==
  window.request # NoRequest =>
    LET ms  == window.request.messages
        raw == window.request.of
        newest(s) == CHOOSE i \in Questions(s) : \A j \in Questions(s) : j <= i
    IN  /\ ~window.request.followup =>
             /\ TotalCost(ms) <= Budget
             /\ window.request.answer # NoLimit =>
                  TotalCost(ms) + window.request.answer + AnswerReserve <= ContextSize
        /\ ms[1].role = "system" /\ ms[2].role = "user"
        /\ Questions(ms) # {} /\ ms[newest(ms)].text <= raw[newest(raw)].text
        /\ ms[newest(ms)] # raw[newest(raw)] => Len(ms) = 2

\* A request never has a tool result without the call it answers right before
\* it, nor a call without its result, whatever was trimmed between them.
ToolPairsWhole ==
  LET ms == window.request.messages
  IN  \A i \in DOMAIN ms :
        /\ ms[i].role = "tool" => i > 1 /\ ms[i - 1].role = "assistant" /\ ms[i - 1].call = ms[i].call
        /\ ms[i].role = "assistant" /\ ms[i].call # 0 => i < Len(ms) /\ ms[i + 1].role = "tool"
================================================================================
