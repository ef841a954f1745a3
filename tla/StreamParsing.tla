----------------------------- MODULE StreamParsing -----------------------------
(***************************************************************************)
(* Reading a streamed answer.  The transport hands over the text of the    *)
(* body in chunks cut anywhere; SseParser (sse.ts), NativeChatSseParser    *)
(* and AnthropicSseParser (endpointAdapters.ts) put the lines together     *)
(* again and translate every frame.                                        *)
(*                                                                         *)
(* A line is one of a few kinds of frame.  Its text is three characters:   *)
(* the opening and the closing half of the frame, and the newline; one     *)
(* half alone is not JSON.                                                 *)
(***************************************************************************)
EXTENDS SequencesExt

CONSTANTS
  Dialects,    \* of "openai", "native", "anthropic"
  Kinds,       \* the frames a server sends
  MaxLines,    \* bound: lines of a body
  MaxFrame,    \* MAX_SSE_FRAME_CHARS
  MaxResult    \* MAX_STREAM_RESULT_CHARS, in pieces of text

VARIABLE stream
vars == <<stream>>

\* The characters of a body: line i is closed by a newline unless it is the
\* last one and the server did not get so far.
Chars(lines, closed) ==
  FlattenSeq([i \in 1..Len(lines) |->
    << <<lines[i], i, 1>>, <<lines[i], i, 2>> >>
      \o (IF i < Len(lines) \/ closed THEN << <<"newline", i, 3>> >> ELSE <<>>)])

IsNewline(c) == c[1] = "newline"

\* The lines up to the last newline (lines.pop() is what follows it).
LastNewline(text) ==
  LET at == {i \in 1..Len(text) : IsNewline(text[i])}
  IN  IF at = {} THEN 0 ELSE CHOOSE i \in at : \A j \in at : j <= i

\* What consumeLine makes of a line, which is two characters or a cut one.
\* A frame "null" is JSON that is no object; "stop" is [DONE], chat.end or
\* message_stop; "silent" a frame the dialect has no delta for.
Frame(line, dialect) ==
  CASE Len(line) = 0 -> "skip"
    [] Len(line) = 1 -> IF line[1][1] = "comment" THEN "skip" ELSE "bad"
    [] line[1][1] \in {"comment", "null"} -> "skip"
    [] line[1][1] = "tool" -> IF dialect = "anthropic" THEN "skip" ELSE "delta"
    [] line[1][1] \in {"reasoning", "usage"} -> "delta"
    [] OTHER -> line[1][1]    \* "text", "error", "bad", "stop"

\* Mutant: lines after the stop are taken.
Consume_AfterStop(s, line) ==
  LET frame == Frame(line, s.dialect)
  IN  CASE s.phase = "failed" \/ frame = "skip" -> s
        [] frame \in {"error", "bad"} -> [s EXCEPT !.phase = "failed"]
        [] frame = "stop" ->
             [s EXCEPT !.finished = TRUE,
                       !.deltas = IF s.dialect = "native" THEN Append(@, line[1][2]) ELSE @]
        [] frame = "delta" -> [s EXCEPT !.deltas = Append(@, line[1][2])]
        [] frame = "text" ->
             IF s.result + 1 > MaxResult THEN [s EXCEPT !.phase = "failed"]
             ELSE [s EXCEPT !.deltas = Append(@, line[1][2]), !.result = @ + 1]

\* consumeLine, on a stream that neither finished nor failed.
Consume(s, line) ==
  LET frame == Frame(line, s.dialect)
  IN  CASE s.finished \/ s.phase = "failed" \/ frame = "skip" -> s
        [] frame \in {"error", "bad"} -> [s EXCEPT !.phase = "failed"]
        [] frame = "stop" ->
             [s EXCEPT !.finished = TRUE,
                       !.deltas = IF s.dialect = "native" THEN Append(@, line[1][2]) ELSE @]
        [] frame = "delta" -> [s EXCEPT !.deltas = Append(@, line[1][2])]
        [] frame = "text" ->
             IF s.result + 1 > MaxResult THEN [s EXCEPT !.phase = "failed"]
             ELSE [s EXCEPT !.deltas = Append(@, line[1][2]), !.result = @ + 1]

ConsumeAll(s, lines) == FoldLeft(Consume, s, lines)

\* text.split("\n"), without the part after the last newline.
Split(text) ==
  LET ends == SetToSortSeq({i \in 1..Len(text) : IsNewline(text[i])}, <)
  IN  [k \in 1..Len(ends) |->
         SubSeq(text, IF k = 1 THEN 1 ELSE ends[k - 1] + 1, ends[k] - 1)]

Rest(text) == SubSeq(text, LastNewline(text) + 1, Len(text))

\* Mutant: the unfinished line is dropped.
Push_DropsRest(s, chunk) ==
  LET text == s.buffer \o chunk
  IN  IF Len(text) > MaxFrame THEN [s EXCEPT !.phase = "failed", !.limit = TRUE]
      ELSE ConsumeAll([s EXCEPT !.buffer = <<>>], Split(text))

\* push
Push(s, chunk) ==
  LET text == s.buffer \o chunk
  IN  IF Len(text) > MaxFrame THEN [s EXCEPT !.phase = "failed", !.limit = TRUE]
      ELSE ConsumeAll([s EXCEPT !.buffer = Rest(text)], Split(text))

\* finish, at the end of the body: what is left in the buffer is a line too.
\* A body that ends before the frame that closes the answer is an error.
Finished(s) ==
  LET last == IF s.buffer = <<>> THEN s ELSE Consume(s, s.buffer)
  IN  [last EXCEPT !.buffer = <<>>,
                   !.phase = IF last.phase = "failed" \/ ~last.finished THEN "failed" ELSE "done"]

Start(dialect, body) ==
  [ dialect |-> dialect, body |-> body, at |-> 0, buffer |-> <<>>,
    deltas |-> <<>>,      \* the lines handed to onDelta
    result |-> 0,         \* pieces of text put together
    finished |-> FALSE, phase |-> "reading", limit |-> FALSE ]

Bodies ==
  {Chars(lines, closed) : lines \in UNION {[1..n -> Kinds] : n \in 0..MaxLines}, closed \in BOOLEAN}

Init == \E dialect \in Dialects, body \in Bodies : stream = Start(dialect, body)

\* consumeChatStream, consumeNativeChatStream, consumeAnthropicStream: one read.
Read ==
  /\ stream.phase = "reading" /\ stream.at < Len(stream.body)
  /\ \E to \in stream.at + 1 .. Len(stream.body) :
       LET read == Push([stream EXCEPT !.at = to], SubSeq(stream.body, stream.at + 1, to))
       IN  stream' = IF read.finished /\ read.phase = "reading"
                     THEN [read EXCEPT !.phase = "done", !.buffer = <<>>] ELSE read

BodyEnds ==
  /\ stream.phase = "reading" /\ stream.at = Len(stream.body)
  /\ stream' = Finished(stream)

\* The connection breaks, or the signal aborts the request.
ReadFails == stream.phase = "reading" /\ stream' = [stream EXCEPT !.phase = "broken"]

Next == Read \/ BodyEnds \/ ReadFails

Spec == Init /\ [][Next]_vars

-----------------------------------------------------------------------------
\* What the whole body says, read in one piece and without a limit on frames.
Whole ==
  LET text == stream.body
      s    == ConsumeAll(Start(stream.dialect, text), Split(text))
  IN  Finished([s EXCEPT !.buffer = Rest(text)])

TypeOK ==
  /\ stream.phase \in {"reading", "done", "failed", "broken"}
  /\ stream.at \in 0..Len(stream.body) /\ Len(stream.buffer) <= MaxFrame
  /\ stream.result \in 0..MaxResult /\ stream.finished \in BOOLEAN

\* However the transport cuts the body, the caller sees the deltas of the
\* whole body in their order, each once, and an answer is complete, and fails,
\* exactly when the whole body is (except for the limit on one read).
CutsDoNotMatter ==
  /\ IsPrefix(stream.deltas, Whole.deltas)
  /\ stream.phase = "done" =>
       Whole.phase = "done" /\ stream.deltas = Whole.deltas /\ stream.result = Whole.result
  /\ stream.phase = "failed" /\ ~stream.limit => Whole.phase = "failed" /\ stream.deltas = Whole.deltas
================================================================================
