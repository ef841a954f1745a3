------------------------------- MODULE ToolCalls --------------------------------
(***************************************************************************)
(* From the deltas of a streamed answer to the call the user is asked to   *)
(* approve (createStreamDeltaHandler, resolveDetectedToolCall and          *)
(* validateToolArguments of chatSendHelpers.ts).  The model makes one or   *)
(* two calls; the server streams each as a name and two halves of its      *)
(* arguments, in any interleaving, and may end the body early, which is an *)
(* error (consumeChatStream).                                              *)
(***************************************************************************)
EXTENDS Naturals, Sequences

CONSTANTS
  Functions,   \* the functions the request named
  Unknown,     \* a name that is none of them
  Keys,        \* keys of arguments
  Types        \* of values, and what a schema asks for: "string", "integer", "fraction", "null"

VARIABLE call
vars == <<call>>

\* A schema: what is required, and what type a key has.  "number" allows both
\* kinds of number.
Rules == {"string", "integer", "number", "any"}
Schemas == [required : SUBSET Keys, rules : [Keys -> Rules]]

\* The arguments a model writes: none at all, text that is no JSON, JSON that
\* is no object, or an object with some keys.
Objects == UNION {[keys -> Types] : keys \in SUBSET Keys}
Nothing == [kind |-> "nothing"]
Arguments == {Nothing, [kind |-> "broken"], [kind |-> "array"]} \cup {[kind |-> "object", value |-> o] : o \in Objects}
Empty == << >>  \* the object without keys
Calls == [name : Functions \cup {Unknown}, arguments : Arguments]

NoCall == [name |-> <<>>, arguments |-> <<>>]
Pieces == <<"name", "first", "second">>

TypeOK ==
  /\ call.schema \in Schemas /\ Len(call.sent) \in 1..2 /\ Len(call.at) = Len(call.sent)
  /\ \A i \in DOMAIN call.at : call.at[i] \in 0..Len(Pieces)
  /\ call.phase \in {"streaming", "failed", "ended", "offered", "refused", "none"}

\* One call or two; a second one, with arguments or none, is there to be told from the first.
OneOrTwo == {<<a>> : a \in Calls} \cup
            {<<a, [name |-> f, arguments |-> b]>> : a \in Calls, f \in Functions, b \in {Nothing, [kind |-> "array"]}}

\* Which schema and calls there are does not change.
Init ==
  \E schema \in Schemas, sent \in OneOrTwo :
    call = [schema |-> schema, sent |-> sent,
            at |-> [i \in DOMAIN sent |-> 0],            \* pieces that arrived
            got |-> [i \in DOMAIN sent |-> NoCall],      \* streamRef.current.toolCalls
            phase |-> "streaming", offered |-> NoCall]

\* A delta adds to the name or to the arguments of what came of a call.
Added(text, i, piece) ==
  IF piece = "name" THEN [text EXCEPT !.name = Append(@, <<i, piece>>)]
  ELSE [text EXCEPT !.arguments = Append(@, <<i, piece>>)]
\* Mutant: the newest call takes every delta.
Accumulated_Last(got, i, piece) == [got EXCEPT ![Len(got)] = Added(got[Len(got)], i, piece)]
\* A delta belongs to the call of its index (createStreamDeltaHandler).
Accumulated(got, i, piece) == [got EXCEPT ![i] = Added(got[i], i, piece)]

Delta ==
  /\ call.phase = "streaming"
  /\ \E i \in DOMAIN call.sent :
       /\ call.at[i] < IF call.sent[i].arguments = Nothing THEN 1 ELSE Len(Pieces)
       /\ call' = [call EXCEPT !.at[i] = @ + 1, !.got = Accumulated(@, i, Pieces[call.at[i] + 1])]

Complete(i) == call.at[i] = IF call.sent[i].arguments = Nothing THEN 1 ELSE Len(Pieces)
End ==
  /\ call.phase = "streaming"
  /\ call' = [call EXCEPT !.phase = IF \A i \in DOMAIN call.sent : Complete(i) THEN "ended" ELSE "failed"]

\* What the text that was put together says: a name and arguments are those of
\* a call only when they are its pieces, in order; half of an object is no JSON.
Name(got) == IF \E i \in DOMAIN call.sent : got.name = << <<i, "name">> >>
             THEN call.sent[got.name[1][1]].name ELSE Unknown
Parsed(got) ==
  IF got.arguments = <<>> THEN [kind |-> "object", value |-> Empty]
  ELSE IF \E i \in DOMAIN call.sent : got.arguments = << <<i, "first">>, <<i, "second">> >>
       THEN call.sent[got.arguments[1][1]].arguments ELSE [kind |-> "broken"]

\* validateToolArguments
Fits(rule, type) ==
  CASE rule = "string" -> type = "string"  [] rule = "integer" -> type = "integer"
    [] rule = "number" -> type \in {"integer", "fraction"}  [] rule = "any" -> TRUE
Valid(schema, value) ==
  /\ schema.required \subseteq DOMAIN value
  /\ \A key \in DOMAIN value \cap Keys : Fits(schema.rules[key], value[key])

\* resolveDetectedToolCall, of the first call; without one it is an answer.
Resolve ==
  /\ call.phase = "ended"
  /\ LET parsed == Parsed(call.got[1]) IN
     call' = IF call.got[1] = NoCall THEN [call EXCEPT !.phase = "none"]
             ELSE IF /\ Name(call.got[1]) \in Functions
                     /\ parsed.kind = "object" /\ Valid(call.schema, parsed.value)
             THEN [call EXCEPT !.phase = "offered", !.offered = [name |-> Name(call.got[1]), arguments |-> parsed]]
             ELSE [call EXCEPT !.phase = "refused"]

Next == Delta \/ End \/ Resolve
Spec == Init /\ [][Next]_vars

\* However the pieces of two calls are interleaved, what the user is asked to
\* approve is the first call as the model wrote it, when it is one the schema
\* allows: nothing of the other call, nothing changed, nothing cut off, and a
\* proper call is neither refused nor passed over.
Intended == call.sent[1]
Proper == /\ Intended.name \in Functions
          /\ \/ Intended.arguments = Nothing /\ call.schema.required = {}
             \/ Intended.arguments.kind = "object" /\ Valid(call.schema, Intended.arguments.value)
OfferedAsWritten ==
  /\ call.phase = "offered" =>
       /\ Proper /\ call.offered.name = Intended.name
       /\ call.offered.arguments = IF Intended.arguments = Nothing THEN [kind |-> "object", value |-> Empty]
                                   ELSE Intended.arguments
  /\ call.phase = "refused" => ~Proper
  /\ call.phase # "none"

=================================================================================
