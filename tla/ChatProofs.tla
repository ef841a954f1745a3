------------------------------ MODULE ChatProofs ------------------------------
(***************************************************************************)
(* Proofs about Chat for any number of conversations, sends, texts and     *)
(* tool rounds.  That no question is lost rests on Mirrored: an idle panel *)
(* has stored what is on the screen.  That every message is in its own     *)
(* conversation, as long as the user waits, rests on HomeIsActive: all     *)
(* that is under way, waits for approval or runs as a tool belongs to the  *)
(* active conversation, and there is one of them at most.                  *)
(***************************************************************************)
EXTENDS Chat, FiniteSetTheorems, SequenceTheorems, TLAPS

-------------------------------------------------------------------------------
(* The inductive invariant *)

Runs == [at : {"unsent", "activity", "retrieves", "streams", "ends", "done"},
         followup : BOOLEAN, text : 0 .. MaxTexts, home : Threads, aborted : BOOLEAN]

PanelTypes ==
  /\ phase \in {"idle", "busy"} /\ aborting \in BOOLEAN
  /\ stream \in [text : BOOLEAN, call : BOOLEAN]
  /\ serverOn \in BOOLEAN /\ settled \in BOOLEAN

RefTypes ==
  /\ ctrl \in 0 .. MaxSends /\ failed \in 0 .. MaxSends
  /\ pending \in 0 .. MaxSends /\ tool \in [of : 0 .. MaxSends, on : BOOLEAN]
  /\ pending # 0 => send[pending].at # "unsent"
  /\ tool.of # 0 => send[tool.of].at # "unsent"

SendTypes == send \in [Sends -> Runs]

ConversationTypes ==
  /\ DOMAIN kept \subseteq Threads /\ active \in DOMAIN kept /\ asked \in 0 .. MaxThreads
  /\ kept \in [DOMAIN kept -> Seq(Messages)]
  /\ msgs \in Seq(Messages)

\* The back end has counted a send and not been told that it ended.
Counted == {s \in Sends : send[s].at \in {"retrieves", "streams", "ends"}}
Over == {s \in Sends : send[s].at \in {"ends", "done"}}
Counts ==
  /\ activity = Cardinality(Counted)
  /\ rounds \in Nat /\ rounds <= Cardinality(Over)

\* An idle panel has stored what is on the screen.
Mirrored == phase = "idle" => kept[active] = msgs

Streaming == \E s \in Sends : send[s].at = "streams"

HomeIsActive ==
  /\ \A r, s \in UnderWay : r = s
  /\ \A s \in UnderWay : send[s].home = active
  /\ pending # 0 => send[pending].home = active
  /\ tool.of # 0 => send[tool.of].home = active /\ UnderWay = {}

Own(t, m) == m.home = t /\ m.body # "empty"
KeptAreOwn == \A t \in DOMAIN kept \ {active} : \A i \in 1 .. Len(kept[t]) : Own(t, kept[t][i])

\* Only the answer that is streamed is empty, and it is the last message.
ShownAreOwn ==
  /\ \A i \in 1 .. Len(msgs) :
       Own(active, msgs[i]) \/ (msgs[i].home = active /\ i = Len(msgs) /\ Streaming)
  /\ Streaming => msgs # <<>> /\ Last(msgs).role = "assistant"

Settled == settled => HomeIsActive /\ KeptAreOwn /\ ShownAreOwn

Types == PanelTypes /\ RefTypes /\ SendTypes /\ ConversationTypes
IInv == Types /\ Counts /\ Mirrored /\ Settled

-------------------------------------------------------------------------------
(* What the operators on messages do *)

Bodies == {"text", "empty", "partial", "whole", "call"}

\* What was a question in m is the same question in n.
Keeps(m, n) ==
  \A i \in 1 .. Len(m) : m[i].role = "assistant" \/ (i \in 1 .. Len(n) /\ n[i] = m[i])

AskedIn(m) == {x.of : x \in {y \in Range(m) : y.role = "user"}}

LEMMA QuestionsStay ==
  ASSUME NEW m \in Seq(Messages), NEW n \in Seq(Messages), Keeps(m, n)
  PROVE  AskedIn(m) \subseteq AskedIn(n)
<1> SUFFICES ASSUME NEW i \in 1 .. Len(m), m[i].role = "user"
             PROVE  m[i].of \in AskedIn(n)
  BY DEF AskedIn, Range
<1>1. i \in 1 .. Len(n) /\ n[i] = m[i]
  BY DEF Keeps
<1> QED
  BY <1>1 DEF AskedIn, Range

LEMMA LastIsAMessage ==
  ASSUME NEW m \in Seq(Messages), m # <<>>
  PROVE  /\ Len(m) \in Nat \ {0} /\ Last(m) = m[Len(m)] /\ Last(m) \in Messages
BY DEF Last

LEMMA FrontIsShorter ==
  ASSUME NEW m \in Seq(Messages), m # <<>>
  PROVE  /\ Front(m) \in Seq(Messages) /\ Len(Front(m)) = Len(m) - 1
         /\ \A i \in 1 .. Len(m) - 1 : Front(m)[i] = m[i]
<1> DEFINE n == Len(m) - 1
           f == SubSeq(m, 1, n)
<1>1. 1 \in Int /\ n \in Nat /\ \A i \in 1 .. n : m[i] \in Messages
  BY LastIsAMessage
<1> HIDE DEF n
<1>2. /\ f \in Seq(Messages) /\ Len(f) = IF 1 <= n THEN n - 1 + 1 ELSE 0
      /\ \A i \in 1 .. n - 1 + 1 : f[i] = m[1 + i - 1]
  <2>1. n \in Int
    BY <1>1
  <2> QED
    BY <1>1, <2>1, SubSeqProperties
<1> HIDE DEF f
<1>3. Len(f) = n /\ \A i \in 1 .. n : f[i] = m[i]
  BY <1>1, <1>2
<1> QED
  BY <1>2, <1>3 DEF Front, f, n

\* WithoutDangling drops an answer at most.
LEMMA WithoutDanglingKeeps ==
  ASSUME NEW m \in Seq(Messages)
  PROVE  /\ WithoutDangling(m) \in Seq(Messages) /\ Keeps(m, WithoutDangling(m))
         /\ Len(WithoutDangling(m)) \in Nat /\ Len(WithoutDangling(m)) <= Len(m)
         /\ \A i \in 1 .. Len(WithoutDangling(m)) : WithoutDangling(m)[i] = m[i]
         /\ m # <<>> /\ Last(m).role = "assistant" => Len(WithoutDangling(m)) = Len(m) - 1
<1>1. CASE m # <<>> /\ Last(m).role = "assistant"
  BY <1>1, LastIsAMessage, FrontIsShorter DEF WithoutDangling, Keeps
<1>2. CASE ~(m # <<>> /\ Last(m).role = "assistant")
  BY <1>2 DEF WithoutDangling, Keeps
<1> QED
  BY <1>1, <1>2

\* An answer is a message of the conversation its send comes from.
LEMMA AnswerIsAMessage ==
  ASSUME SendTypes, NEW s \in Sends, NEW body \in Bodies
  PROVE  /\ Answer(s, send[s].home, body) \in Messages
         /\ User(send[s].text, send[s].home) \in Messages
<1>1. send[s].home \in Threads /\ send[s].text \in 0 .. MaxTexts
  BY DEF SendTypes, Runs
<1>2. s \in 0 .. MaxTexts + MaxSends /\ send[s].text \in 0 .. MaxTexts + MaxSends
  BY <1>1, BoundsAssumption DEF Sends
<1> QED
  BY <1>1, <1>2 DEF Answer, User, Messages, Bodies

\* Filled replaces the last message, if it is an answer.
LEMMA FilledKeeps ==
  ASSUME SendTypes, NEW m \in Seq(Messages), NEW s \in Sends, NEW body \in Bodies
  PROVE  /\ Filled(m, s, body) \in Seq(Messages) /\ Keeps(m, Filled(m, s, body))
         /\ Len(Filled(m, s, body)) = Len(m)
         /\ \A i \in 1 .. Len(m) - 1 : Filled(m, s, body)[i] = m[i]
         /\ m # <<>> /\ Last(m).role = "assistant" =>
              Filled(m, s, body)[Len(m)] = Answer(s, send[s].home, body)
         /\ m # <<>> /\ Last(m).role # "assistant" => Filled(m, s, body) = m
<1> DEFINE a == Answer(s, send[s].home, body)
<1>1. a \in Messages
  BY AnswerIsAMessage
<1>2. CASE m # <<>> /\ Last(m).role = "assistant"
  <2>1. Filled(m, s, body) = [m EXCEPT ![Len(m)] = a]
    BY <1>2 DEF Filled
  <2> HIDE DEF a
  <2>2. Len(m) \in Nat \ {0} /\ m[Len(m)].role = "assistant"
    BY <1>2, LastIsAMessage
  <2>3. [m EXCEPT ![Len(m)] = a] \in Seq(Messages) /\ Len([m EXCEPT ![Len(m)] = a]) = Len(m)
    BY <1>1, <2>2
  <2>4. \A i \in 1 .. Len(m) : [m EXCEPT ![Len(m)] = a][i] = IF i = Len(m) THEN a ELSE m[i]
    BY <2>2
  <2>5. Keeps(m, [m EXCEPT ![Len(m)] = a])
    BY <2>2, <2>3, <2>4 DEF Keeps
  <2>6. [m EXCEPT ![Len(m)] = a][Len(m)] = Answer(s, send[s].home, body)
    BY <2>2, <2>4 DEF a
  <2>7. \A i \in 1 .. Len(m) - 1 : [m EXCEPT ![Len(m)] = a][i] = m[i]
    BY <2>2, <2>4
  <2> QED
    BY <1>2, <2>1, <2>3, <2>5, <2>6, <2>7, Zenon
<1>3. CASE ~(m # <<>> /\ Last(m).role = "assistant")
  BY <1>3 DEF Filled, Keeps
<1> QED
  BY <1>2, <1>3

\* Appended adds the question, if any, and an empty answer.
LEMMA AppendedKeeps ==
  ASSUME SendTypes, NEW m \in Seq(Messages), NEW s \in Sends
  PROVE  /\ Appended(m, s) \in Seq(Messages) /\ Keeps(m, Appended(m, s))
         /\ Len(Appended(m, s)) \in Nat \ {0}
         /\ Appended(m, s)[Len(Appended(m, s))] = Answer(s, send[s].home, "empty")
         /\ \A i \in 1 .. Len(Appended(m, s)) - 1 :
              \/ Appended(m, s)[i] = User(send[s].text, send[s].home)
              \/ i \in 1 .. Len(WithoutDangling(m)) /\ Appended(m, s)[i] = m[i]
<1> DEFINE k == WithoutDangling(m)
           question == User(send[s].text, send[s].home)
           a == Answer(s, send[s].home, "empty")
           added == send[s].followup \/ (k # <<>> /\ Last(k).role = "user" /\ Last(k).of = send[s].text)
           turn == IF added THEN k ELSE Append(k, question)
<1>1. /\ k \in Seq(Messages) /\ Keeps(m, k) /\ Len(k) \in Nat
      /\ \A i \in 1 .. Len(k) : k[i] = m[i]
  BY WithoutDanglingKeeps
<1>2. question \in Messages /\ a \in Messages
  BY AnswerIsAMessage DEF Bodies
<1>3. Appended(m, s) = turn \o <<a>>
  BY DEF Appended
<1> HIDE DEF question, a, added
<1>4. /\ turn \in Seq(Messages) /\ Len(turn) \in Nat /\ Len(turn) >= Len(k)
      /\ \A i \in 1 .. Len(k) : turn[i] = k[i]
      /\ \A i \in 1 .. Len(turn) : i \in 1 .. Len(k) \/ turn[i] = question
  <2> HIDE DEF k
  <2> QED
    BY <1>1, <1>2
<1> HIDE DEF k, turn
<1>5. /\ turn \o <<a>> \in Seq(Messages) /\ Len(turn \o <<a>>) = Len(turn) + 1
      /\ (turn \o <<a>>)[Len(turn) + 1] = a
      /\ \A i \in 1 .. Len(turn) : (turn \o <<a>>)[i] = turn[i]
  BY <1>2, <1>4
<1> HIDE DEF Appended
<1>6. Keeps(m, Appended(m, s))
  BY <1>1, <1>3, <1>4, <1>5 DEF Keeps
<1> QED
  BY <1>1, <1>3, <1>4, <1>5, <1>6 DEF a, question, k

\* What catch leaves of the messages keeps the questions, too.
LEMMA CaughtKeeps ==
  ASSUME SendTypes, NEW m \in Seq(Messages), NEW s \in Sends
  PROVE  CaughtMessages(m, s) \in Seq(Messages) /\ Keeps(m, CaughtMessages(m, s))
<1>1. CaughtMessages(m, s) \in {m, Filled(m, s, "partial"), WithoutDangling(m)}
  BY DEF CaughtMessages
<1>2. Keeps(m, m)
  BY DEF Keeps
<1> QED
  BY <1>1, <1>2, FilledKeeps, WithoutDanglingKeeps DEF Bodies

LEMMA KeepsOn ==
  ASSUME NEW l \in Seq(Messages), NEW m \in Seq(Messages), NEW n \in Seq(Messages),
         Keeps(l, m), Keeps(m, n)
  PROVE  Keeps(l, n)
<1> SUFFICES ASSUME NEW i \in 1 .. Len(l), l[i].role # "assistant"
             PROVE  i \in 1 .. Len(n) /\ n[i] = l[i]
  BY DEF Keeps
<1>1. i \in 1 .. Len(m) /\ m[i] = l[i]
  BY DEF Keeps
<1> QED
  BY <1>1 DEF Keeps

-------------------------------------------------------------------------------
(* What the steps do to the sends *)

\* A send begins, in a conversation.
Starts(s, home) ==
  /\ send' \in [Sends -> Runs]
  /\ send[s].at = "unsent" /\ send'[s].at = "activity" /\ send'[s].home = home
  /\ \A r \in Sends \ {s} : send'[r] = send[r]

\* A send gets from one of its awaits to the next, or ends.
Goes(s, from, to) ==
  /\ send' \in [Sends -> Runs]
  /\ send[s].at = from /\ send'[s].at = to
  /\ \A r \in Sends : /\ send'[r].home = send[r].home
                      /\ r # s => send'[r].at = send[r].at

LEMMA BeginsStarts ==
  ASSUME SendTypes, NEW s \in Sends, NEW text \in 0 .. MaxTexts, NEW home \in Threads,
         NEW followup \in BOOLEAN, Begins(s, text, home, followup)
  PROVE  Starts(s, home)
<1> DEFINE r == [Unsent EXCEPT !.at = "activity", !.text = text,
                                 !.home = home, !.followup = followup]
<1>1. r \in Runs /\ r.at = "activity" /\ r.home = home
  BY DEF Unsent, Runs
<1>2. send' = [send EXCEPT ![s] = r] /\ send[s].at = "unsent"
  BY DEF Begins, Next1
<1> HIDE DEF r
<1> QED
  BY <1>1, <1>2 DEF SendTypes, Starts

\* The four steps that call send() give it the active conversation or the tool's.
LEMMA NewSend ==
  ASSUME Types, NEW s \in Sends, Sends1(s) \/ Retries(s)
  PROVE  Starts(s, active)
<1>1. active \in Threads
  BY DEF Types, ConversationTypes
<1>2. CASE Sends1(s)
  <2>1. PICK text \in Texts : Begins(s, text, active, FALSE)
    BY <1>2 DEF Sends1
  <2>2. text \in 0 .. MaxTexts
    BY BoundsAssumption DEF Texts
  <2> QED
    BY <1>1, <2>1, <2>2, BeginsStarts DEF Types
<1>3. CASE Retries(s)
  <2>1. failed \in Sends
    BY <1>3, BoundsAssumption DEF Retries, Types, RefTypes, Sends
  <2>2. send[failed].text \in 0 .. MaxTexts
    BY <2>1 DEF Types, SendTypes, Runs
  <2> QED
    BY <1>1, <1>3, <2>2, BeginsStarts DEF Retries, Types
<1> QED
  BY <1>2, <1>3

LEMMA FollowUp ==
  ASSUME Types, NEW s \in Sends, ToolAnswers(s)
  PROVE  \/ Starts(s, send[tool.of].home)
         \/ send' = send
<1>1. tool.of \in Sends
  BY BoundsAssumption DEF ToolAnswers, Types, RefTypes, Sends
<1>2. send[tool.of].home \in Threads /\ 0 \in 0 .. MaxTexts
  BY <1>1, BoundsAssumption DEF Types, SendTypes, Runs
<1>3. CASE tool.on
  BY <1>2, <1>3, BeginsStarts DEF ToolAnswers, Types
<1>4. CASE ~tool.on
  BY <1>4 DEF ToolAnswers
<1> QED
  BY <1>3, <1>4

LEMMA GoesOn ==
  ASSUME SendTypes, NEW s \in Sends
  PROVE  /\ ActivityCounted(s) => Goes(s, "activity", "retrieves")
         /\ Retrieved(s) => Goes(s, "retrieves", "streams")
         /\ Released(s) => Goes(s, "ends", "done")
<1>1. ASSUME NEW to \in {"retrieves", "streams", "done"}, send' = [send EXCEPT ![s].at = to]
      PROVE  Goes(s, send[s].at, to)
  BY <1>1 DEF SendTypes, Runs, Goes
<1> QED
  BY <1>1 DEF ActivityCounted, Retrieved, Released

LEMMA EndGoes ==
  ASSUME SendTypes, NEW s \in Sends, Ends(s)
  PROVE  /\ send[s].at = "activity" => Goes(s, "activity", "done")
         /\ send[s].at = "streams" => Goes(s, "streams", "ends")
<1> DEFINE r == [send[s] EXCEPT !.at = IF send[s].at = "activity" THEN "done" ELSE "ends",
                                !.aborted = FALSE]
<1>1. /\ r \in Runs /\ r.home = send[s].home
      /\ r.at = IF send[s].at = "activity" THEN "done" ELSE "ends"
  BY DEF SendTypes, Runs
<1>2. send' = [send EXCEPT ![s] = r]
  BY DEF Ends, SendTypes
<1> HIDE DEF r
<1> QED
  BY <1>1, <1>2 DEF SendTypes, Goes

\* The steps that end a send.
Ending(s) == ActivityFails(s) \/ Answers(s) \/ Calls(s) \/ Fails(s)

LEMMA EndingEnds ==
  ASSUME NEW s \in Sends, Ending(s)
  PROVE  Ends(s) /\ send[s].at \in {"activity", "streams"}
BY DEF Ending, ActivityFails, Answers, Calls, Fails, Caught

\* A stop marks a send and moves none.
LEMMA StopGoes ==
  ASSUME SendTypes, Stop
  PROVE  /\ send' \in [Sends -> Runs]
         /\ \A r \in Sends : send'[r].at = send[r].at /\ send'[r].home = send[r].home
BY DEF SendTypes, Stop, Runs

\* The steps that leave the sends alone.
LEMMA SendsRest ==
  ASSUME \/ Confirms \/ Approves \/ Rejects \/ ServerComesOrGoes \/ ToolFails
         \/ UNCHANGED vars
         \/ \E t \in Threads : Select(t) \/ New(t) \/ DeleteThread(t)
         \/ \E s \in Sends : Delta(s)
  PROVE  send' = send
BY DEF Confirms, Approves, Rejects, ServerComesOrGoes, ToolFails, Select, New, DeleteThread,
       Delta, vars

LEMMA SendTypesStep == Types /\ [Next]_vars => SendTypes'
<1> SUFFICES ASSUME Types, [Next]_vars PROVE SendTypes'
  OBVIOUS
<1>1. SendTypes
  BY DEF Types
<1>2. ASSUME NEW s \in Sends, Sends1(s) \/ Retries(s) PROVE SendTypes'
  BY <1>2, NewSend DEF Starts, SendTypes
<1>3. ASSUME NEW s \in Sends, ToolAnswers(s) PROVE SendTypes'
  BY <1>1, <1>3, FollowUp DEF Starts, SendTypes
<1>4. ASSUME NEW s \in Sends, ActivityCounted(s) \/ Retrieved(s) \/ Released(s) PROVE SendTypes'
  BY <1>1, <1>4, GoesOn DEF Goes, SendTypes
<1>5. ASSUME NEW s \in Sends, Ending(s) PROVE SendTypes'
  BY <1>1, <1>5, EndingEnds, EndGoes DEF Goes, SendTypes
<1>6. CASE Stop
  BY <1>1, <1>6, StopGoes DEF SendTypes
<1>7. CASE send' = send
  BY <1>1, <1>7 DEF SendTypes
<1> QED
  BY <1>2, <1>3, <1>4, <1>5, <1>6, <1>7, SendsRest DEF Next, Step, Ending

\* Between unsent and done a send never goes back.
LEMMA SentStaysSent ==
  ASSUME Types, [Next]_vars, NEW s \in Sends, send[s].at # "unsent"
  PROVE  send'[s].at # "unsent"
<1>1. SendTypes
  BY DEF Types
<1>2. ASSUME NEW r \in Sends, Sends1(r) \/ Retries(r) PROVE send'[s].at # "unsent"
  BY <1>2, NewSend DEF Starts
<1>3. ASSUME NEW r \in Sends, ToolAnswers(r) PROVE send'[s].at # "unsent"
  BY <1>3, FollowUp DEF Starts
<1>4. ASSUME NEW r \in Sends, ActivityCounted(r) \/ Retrieved(r) \/ Released(r)
      PROVE  send'[s].at # "unsent"
  BY <1>1, <1>4, GoesOn DEF Goes
<1>5. ASSUME NEW r \in Sends, Ending(r) PROVE send'[s].at # "unsent"
  BY <1>1, <1>5, EndingEnds, EndGoes DEF Goes
<1>6. CASE Stop
  BY <1>1, <1>6, StopGoes
<1>7. CASE send' = send
  BY <1>7
<1> QED
  BY <1>2, <1>3, <1>4, <1>5, <1>6, <1>7, SendsRest DEF Next, Step, Ending

-------------------------------------------------------------------------------
(* The panel and its refs *)

LEMMA PanelTypesStep == Types /\ [Next]_vars => PanelTypes'
<1> SUFFICES ASSUME Types, [Next]_vars PROVE PanelTypes'
  OBVIOUS
<1>0. NoStream \in [text : BOOLEAN, call : BOOLEAN] /\ stream \in [text : BOOLEAN, call : BOOLEAN]
  BY DEF Types, PanelTypes, NoStream
<1> USE DEF Types, PanelTypes
<1>1. CASE Stop
  BY <1>1 DEF Stop, refs
<1>2. CASE Confirms
  BY <1>2 DEF Confirms, Delete, Waits, Quiet, ui, refs
<1>3. CASE Approves
  BY <1>3 DEF Approves, Quiet, refs
<1>4. CASE Rejects
  BY <1>4 DEF Rejects, Quiet
<1>5. CASE ServerComesOrGoes
  BY <1>5 DEF ServerComesOrGoes, ui, refs
<1>6. ASSUME NEW s \in Sends, Sends1(s) PROVE PanelTypes'
  BY <1>6 DEF Sends1, Begins, Waits, Quiet, ui, NoStream
<1>7. ASSUME NEW s \in Sends, Retries(s) PROVE PanelTypes'
  BY <1>7 DEF Retries, Begins, Waits, Quiet, ui, NoStream
<1>8. ASSUME NEW s \in Sends, Delta(s) PROVE PanelTypes'
  BY <1>8 DEF Delta
<1>9. ASSUME NEW s \in Sends, ActivityCounted(s) PROVE PanelTypes'
  BY <1>9 DEF ActivityCounted, ui, refs
<1>10. ASSUME NEW s \in Sends, Ending(s) PROVE PanelTypes'
  <2>1. /\ stream' \in {NoStream, stream} /\ phase' = "idle" /\ aborting' = FALSE
        /\ UNCHANGED <<serverOn, settled>>
    BY <1>10, EndingEnds DEF Ends
  <2>2. stream' \in [text : BOOLEAN, call : BOOLEAN]
    BY <1>0, <2>1, Zenon
  <2> QED
    BY <2>1, <2>2
<1>11. ASSUME NEW s \in Sends, Retrieved(s) PROVE PanelTypes'
  BY <1>11 DEF Retrieved
<1>12. ASSUME NEW s \in Sends, Released(s) PROVE PanelTypes'
  BY <1>12 DEF Released, ui, refs
<1>13. ASSUME NEW s \in Sends, ToolAnswers(s) PROVE PanelTypes'
  <2>1. stream' \in {NoStream, stream} /\ UNCHANGED <<phase, aborting, serverOn, settled>>
    BY <1>13 DEF ToolAnswers, Begins, ui, refs
  <2>2. stream' \in [text : BOOLEAN, call : BOOLEAN]
    BY <1>0, <2>1, Zenon
  <2> QED
    BY <2>1, <2>2
<1>14. CASE ToolFails
  BY <1>14 DEF ToolFails, refs
<1>15. ASSUME NEW t \in Threads, Select(t) \/ New(t) \/ DeleteThread(t) PROVE PanelTypes'
  BY <1>15 DEF Select, New, DeleteThread, Waits, Quiet, ui, refs
<1>16. CASE UNCHANGED vars
  BY <1>16 DEF vars, ui, refs
<1> QED
  BY <1>1, <1>2, <1>3, <1>4, <1>5, <1>6, <1>7, <1>8, <1>9, <1>10, <1>11, <1>12, <1>13, <1>14,
     <1>15, <1>16 DEF Next, Step, Ending

\* What waits for approval, and what runs as a tool, is from a send that was called.
LEMMA RefTypesStep == Types /\ [Next]_vars => RefTypes'
<1> SUFFICES ASSUME Types, [Next]_vars PROVE RefTypes'
  OBVIOUS
<1>1. 0 \in 0 .. MaxSends /\ Sends \subseteq 0 .. MaxSends /\ \A x \in 0 .. MaxSends : x = 0 \/ x \in Sends
  BY BoundsAssumption DEF Sends
<1>2. RefTypes
  BY DEF Types
<1>3. \A s \in Sends : send[s].at # "unsent" => send'[s].at # "unsent"
  BY SentStaysSent
<1>4. ASSUME /\ ctrl' \in 0 .. MaxSends /\ failed' \in 0 .. MaxSends
             /\ UNCHANGED <<pending, tool>>
      PROVE  RefTypes'
  BY <1>1, <1>2, <1>3, <1>4 DEF RefTypes
<1>5. CASE Approves
  <2>1. /\ pending' = 0 /\ tool' = [of |-> pending, on |-> serverOn] /\ pending # 0
        /\ UNCHANGED <<ctrl, failed>>
    BY <1>5 DEF Approves, refs
  <2>2. tool' \in [of : 0 .. MaxSends, on : BOOLEAN] /\ tool'.of = pending
    BY <1>2, <2>1 DEF RefTypes, Types, PanelTypes
  <2> QED
    BY <1>1, <1>2, <1>3, <2>1, <2>2 DEF RefTypes
<1>6. CASE Rejects
  BY <1>1, <1>2, <1>3, <1>6 DEF Rejects, RefTypes
<1>7. ASSUME NEW s \in Sends, ToolAnswers(s) PROVE RefTypes'
  <2>1. /\ tool' = NoTool /\ ctrl' \in {ctrl, s} /\ UNCHANGED <<pending, failed>>
    BY <1>7 DEF ToolAnswers, Begins, refs
  <2>2. tool' \in [of : 0 .. MaxSends, on : BOOLEAN] /\ tool'.of = 0
    BY <1>1, <2>1 DEF NoTool
  <2> QED
    BY <1>1, <1>2, <1>3, <2>1, <2>2 DEF RefTypes
<1>8. CASE ToolFails
  <2>1. tool' = NoTool /\ UNCHANGED <<ctrl, pending, failed>>
    BY <1>8 DEF ToolFails, refs
  <2>2. tool' \in [of : 0 .. MaxSends, on : BOOLEAN] /\ tool'.of = 0
    BY <1>1, <2>1 DEF NoTool
  <2> QED
    BY <1>1, <1>2, <1>3, <2>1, <2>2 DEF RefTypes
<1>9. ASSUME NEW s \in Sends, Ending(s) PROVE RefTypes'
  <2>1. /\ ctrl' = 0 /\ failed' \in {failed, s, 0} /\ pending' \in {pending, s} /\ tool' = tool
    BY <1>9 DEF Ending, ActivityFails, Answers, Calls, Fails, Caught, Ends
  <2>2. send[s].at # "unsent"
    BY <1>9, EndingEnds
  <2> QED
    BY <1>1, <1>2, <1>3, <2>1, <2>2 DEF RefTypes
<1>10. ASSUME NEW s \in Sends, Sends1(s) \/ Retries(s) PROVE RefTypes'
  BY <1>1, <1>2, <1>4, <1>10 DEF Sends1, Retries, Begins, RefTypes
<1>11. ASSUME NEW s \in Sends, ActivityCounted(s) \/ Delta(s) \/ Retrieved(s) \/ Released(s)
       PROVE  RefTypes'
  BY <1>1, <1>2, <1>4, <1>11 DEF ActivityCounted, Delta, Retrieved, Released, RefTypes, refs
<1>12. CASE Stop \/ Confirms \/ ServerComesOrGoes \/ UNCHANGED vars
  BY <1>2, <1>4, <1>12 DEF Stop, Confirms, ServerComesOrGoes, RefTypes, vars, refs
<1>13. ASSUME NEW t \in Threads, Select(t) \/ New(t) \/ DeleteThread(t) PROVE RefTypes'
  BY <1>2, <1>4, <1>13 DEF Select, New, DeleteThread, RefTypes, refs
<1> QED
  BY <1>5, <1>6, <1>7, <1>8, <1>9, <1>10, <1>11, <1>12, <1>13 DEF Next, Step, Ending

-------------------------------------------------------------------------------
(* Requests in use, and tool rounds *)

LEMMA FiniteSends ==
  /\ IsFiniteSet(Sends) /\ Cardinality(Sends) = MaxSends
  /\ \A S \in SUBSET Sends : IsFiniteSet(S) /\ Cardinality(S) \in Nat /\ Cardinality(S) <= MaxSends
<1>1. IsFiniteSet(Sends) /\ Cardinality(Sends) = MaxSends
  <2>1. 1 \in Int /\ MaxSends \in Int
    BY BoundsAssumption
  <2> QED
    BY <2>1, BoundsAssumption, FS_Interval DEF Sends
<1>2. ASSUME NEW S \in SUBSET Sends
      PROVE  IsFiniteSet(S) /\ Cardinality(S) \in Nat /\ Cardinality(S) <= MaxSends
  BY <1>1, FS_Subset, FS_CardinalityType
<1> QED
  BY <1>1, <1>2

LEMMA OneMore ==
  ASSUME NEW S \in SUBSET Sends, NEW s \in Sends \ S
  PROVE  Cardinality(S \cup {s}) = Cardinality(S) + 1
BY FiniteSends, FS_AddElement

LEMMA OneLess ==
  ASSUME NEW S \in SUBSET Sends, NEW s \in S
  PROVE  Cardinality(S \ {s}) = Cardinality(S) - 1
BY FiniteSends, FS_RemoveElement

\* The back end counts a send when it answers and uncounts it when it is told of
\* the end; a tool call is counted for a send that is over.
LEMMA CountsStep == Types /\ Counts /\ [Next]_vars => Counts'
<1> SUFFICES ASSUME Types, Counts, [Next]_vars PROVE Counts'
  OBVIOUS
<1>1. SendTypes /\ Counted \in SUBSET Sends /\ Over \in SUBSET Sends
  BY DEF Types, Counted, Over
<1>2. Cardinality(Over) \in Nat /\ 0 <= Cardinality(Over)
  BY <1>1, FiniteSends
<1>3. ASSUME Counted' = Counted, Over' = Over, activity' = activity, rounds' \in {0, rounds}
      PROVE  Counts'
  BY <1>2, <1>3 DEF Counts
<1>4. ASSUME NEW s \in Sends, Starts(s, send'[s].home), activity' = activity, rounds' \in {0, rounds}
      PROVE  Counts'
  <2>1. Counted' = Counted /\ Over' = Over
    BY <1>4 DEF Starts, Counted, Over
  <2> QED
    BY <1>3, <1>4, <2>1
<1>5. ASSUME NEW s \in Sends, Sends1(s) \/ Retries(s) PROVE Counts'
  <2>1. Starts(s, send'[s].home)
    BY <1>5, NewSend DEF Starts
  <2>2. activity' = activity /\ rounds' \in {0, rounds}
    BY <1>5 DEF Sends1, Retries, Begins
  <2> QED
    BY <1>4, <2>1, <2>2
<1>6. ASSUME NEW s \in Sends, ToolAnswers(s) PROVE Counts'
  <2>1. Starts(s, send'[s].home) \/ send' = send
    BY <1>6, FollowUp DEF Starts
  <2>2. activity' = activity /\ rounds' \in {0, rounds}
    BY <1>6 DEF ToolAnswers, Begins, refs
  <2>3. CASE send' = send
    BY <1>3, <2>2, <2>3 DEF Counted, Over
  <2> QED
    BY <1>4, <2>1, <2>2, <2>3
<1>7. ASSUME NEW s \in Sends, ActivityCounted(s) PROVE Counts'
  <2>1. Goes(s, "activity", "retrieves") /\ activity' = activity + 1 /\ rounds' = rounds
    BY <1>1, <1>7, GoesOn DEF ActivityCounted, refs
  <2>2. Counted' = Counted \cup {s} /\ s \notin Counted /\ Over' = Over
    BY <2>1 DEF Goes, Counted, Over
  <2> QED
    BY <1>1, <2>1, <2>2, OneMore DEF Counts
<1>8. ASSUME NEW s \in Sends, Retrieved(s) PROVE Counts'
  <2>1. Goes(s, "retrieves", "streams") /\ activity' = activity /\ rounds' = rounds
    BY <1>1, <1>8, GoesOn DEF Retrieved
  <2> QED
    BY <1>3, <2>1 DEF Goes, Counted, Over
<1>9. ASSUME NEW s \in Sends, Released(s) PROVE Counts'
  <2>1. Goes(s, "ends", "done") /\ activity' = activity - 1 /\ rounds' = rounds
    BY <1>1, <1>9, GoesOn DEF Released, refs
  <2>2. Counted' = Counted \ {s} /\ s \in Counted /\ Over' = Over
    BY <2>1 DEF Goes, Counted, Over
  <2> QED
    BY <1>1, <2>1, <2>2, OneLess DEF Counts
<1>10. ASSUME NEW s \in Sends, Ending(s) PROVE Counts'
  <2>1. Goes(s, "activity", "done") \/ Goes(s, "streams", "ends")
    BY <1>1, <1>10, EndingEnds, EndGoes
  <2>2. Counted' = Counted /\ Over' = Over \cup {s} /\ s \notin Over
    BY <2>1 DEF Goes, Counted, Over
  <2>3. Cardinality(Over') = Cardinality(Over) + 1
    BY <1>1, <2>2, OneMore
  <2>4. activity' = activity /\ rounds' \in {0, rounds, rounds + 1}
    BY <1>10 DEF Ending, ActivityFails, Answers, Calls, Fails, Caught, Ends
  <2> QED
    BY <1>2, <2>2, <2>3, <2>4 DEF Counts
<1>11. CASE Stop
  <2>1. Counted' = Counted /\ Over' = Over
    BY <1>1, <1>11, StopGoes DEF Counted, Over
  <2> QED
    BY <1>3, <1>11, <2>1 DEF Stop, refs
<1>12. ASSUME send' = send, activity' = activity, rounds' \in {0, rounds} PROVE Counts'
  BY <1>3, <1>12 DEF Counted, Over
<1>13. CASE Confirms \/ Approves \/ Rejects \/ ServerComesOrGoes \/ ToolFails \/ UNCHANGED vars
  BY <1>12, <1>13 DEF Confirms, Approves, Rejects, ServerComesOrGoes, ToolFails, vars, refs
<1>14. ASSUME NEW t \in Threads, Select(t) \/ New(t) \/ DeleteThread(t) PROVE Counts'
  BY <1>12, <1>14 DEF Select, New, DeleteThread, refs
<1>15. ASSUME NEW s \in Sends, Delta(s) PROVE Counts'
  BY <1>12, <1>15 DEF Delta
<1> QED
  BY <1>5, <1>6, <1>7, <1>8, <1>9, <1>10, <1>11, <1>13, <1>14, <1>15 DEF Next, Step, Ending

-------------------------------------------------------------------------------
(* The conversations *)

\* A step that stays in its conversation keeps the questions, and stores what it
\* shows when it leaves the panel idle.
Stays ==
  /\ active' = active /\ msgs' \in Seq(Messages) /\ Keeps(msgs, msgs')
  /\ \/ phase' = "idle" /\ kept' = [kept EXCEPT ![active] = msgs']
     \/ kept' = kept /\ (phase' = "idle" => phase = "idle" /\ msgs' = msgs)

\* A step to another conversation changes none, though it may delete one or make
\* an empty one.
Switches ==
  /\ DOMAIN kept' \subseteq Threads /\ active' \in DOMAIN kept'
  /\ kept' \in [DOMAIN kept' -> Seq(Messages)] /\ msgs' \in Seq(Messages)
  /\ phase' = "idle" => kept'[active'] = msgs'
  /\ msgs' = IF active' \in DOMAIN kept THEN Content(active') ELSE <<>>
  /\ \A t \in DOMAIN kept' \ {active'} : t \in DOMAIN kept /\ kept'[t] = Content(t)

LEMMA SameKeeps ==
  ASSUME NEW m \in Seq(Messages)
  PROVE  Keeps(m, m)
BY DEF Keeps

LEMMA StoresStays ==
  ASSUME active' = active, msgs' \in Seq(Messages), Keeps(msgs, msgs'), Stores(kept)
  PROVE  Stays
BY DEF Stores, Stays

LEMMA EndingStays ==
  ASSUME Types, NEW s \in Sends, Ending(s)
  PROVE  Stays
<1>1. SendTypes /\ msgs \in Seq(Messages) /\ Keeps(msgs, msgs)
  BY SameKeeps DEF Types, ConversationTypes
<1>2. active' = active /\ Stores(kept)
  BY EndingEnds DEF Ends
<1>3. msgs' \in Seq(Messages) /\ Keeps(msgs, msgs')
  <2>1. CASE ActivityFails(s) \/ Fails(s)
    BY <1>1, <2>1, CaughtKeeps DEF ActivityFails, Fails, Caught
  <2>2. CASE Answers(s)
    BY <1>1, <2>2, FilledKeeps DEF Answers, Bodies
  <2>3. CASE Calls(s)
    <3> DEFINE m == Filled(msgs, s, "call")
    <3>1. m \in Seq(Messages) /\ Keeps(msgs, m)
      BY <1>1, FilledKeeps DEF Bodies
    <3>2. msgs' = m \/ msgs' = CaughtMessages(m, s)
      BY <2>3 DEF Calls, Caught
    <3> HIDE DEF m
    <3>3. CaughtMessages(m, s) \in Seq(Messages) /\ Keeps(m, CaughtMessages(m, s))
      BY <1>1, <3>1, CaughtKeeps
    <3> QED
      BY <1>1, <3>1, <3>2, <3>3, KeepsOn
  <2> QED
    BY <2>1, <2>2, <2>3 DEF Ending
<1> QED
  BY <1>2, <1>3, StoresStays

\* Whatever is not a choice of the user in the list of conversations stays.
LEMMA StepStays ==
  ASSUME Types,
         \/ Stop \/ Approves \/ Rejects \/ ServerComesOrGoes \/ ToolFails \/ UNCHANGED vars
         \/ \E s \in Sends : \/ Sends1(s) \/ Retries(s) \/ Delta(s) \/ Step(s) \/ ToolAnswers(s)
         \/ \E t \in Threads : DeleteThread(t)
  PROVE  Stays
<1>1. SendTypes /\ msgs \in Seq(Messages) /\ Keeps(msgs, msgs)
  BY SameKeeps DEF Types, ConversationTypes
<1>2. ASSUME UNCHANGED <<active, kept, msgs>>, phase' = phase PROVE Stays
  BY <1>1, <1>2 DEF Stays
<1>3. CASE Stop \/ ServerComesOrGoes \/ UNCHANGED vars
  BY <1>2, <1>3 DEF Stop, ServerComesOrGoes, vars, ui, conversations
<1>4. ASSUME NEW s \in Sends,
             Sends1(s) \/ Retries(s) \/ ActivityCounted(s) \/ Released(s) \/ ToolAnswers(s)
      PROVE  Stays
  BY <1>2, <1>4 DEF Sends1, Retries, ActivityCounted, Released, ToolAnswers, ui, conversations
<1>5. ASSUME NEW t \in Threads, DeleteThread(t) PROVE Stays
  BY <1>2, <1>5 DEF DeleteThread, ui
<1>6. CASE Approves
  BY <1>1, <1>6 DEF Approves, conversations, Stays
<1>7. CASE Rejects
  <2>1. msgs' = WithoutDangling(msgs) /\ active' = active /\ Stores(kept)
    BY <1>7 DEF Rejects
  <2> QED
    BY <1>1, <2>1, WithoutDanglingKeeps, StoresStays
<1>8. ASSUME ToolFails \/ \E s \in Sends : Delta(s) PROVE Stays
  BY <1>1, <1>8, StoresStays DEF ToolFails, Delta
<1>9. ASSUME NEW s \in Sends, Retrieved(s) PROVE Stays
  <2>1. msgs' = Appended(msgs, s) /\ phase' = "busy" /\ UNCHANGED <<active, kept>>
    BY <1>9 DEF Retrieved
  <2> QED
    BY <1>1, <2>1, AppendedKeeps DEF Stays
<1> QED
  BY <1>3, <1>4, <1>5, <1>6, <1>7, <1>8, <1>9, EndingStays DEF Step, Ending

LEMMA SelectSwitches ==
  ASSUME Types, Mirrored, NEW t \in Threads, Select(t)
  PROVE  Switches
<1>1. /\ phase = "idle" /\ phase' = phase /\ t \in DOMAIN kept /\ active' = t /\ msgs' = kept[t]
      /\ kept' = [kept EXCEPT ![t] = msgs']
  BY DEF Select, Stores, ui
<1>2. kept' = kept /\ kept[active] = msgs
  BY <1>1 DEF Mirrored, Types, ConversationTypes
<1>3. \A u \in DOMAIN kept : kept[u] = Content(u)
  BY <1>2 DEF Content
<1> QED
  BY <1>1, <1>2, <1>3 DEF Types, ConversationTypes, Switches

LEMMA NewSwitches ==
  ASSUME Types, Mirrored, NEW t \in Threads, New(t)
  PROVE  Switches
<1>1. /\ phase = "idle" /\ phase' = phase /\ t \notin DOMAIN kept /\ active' = t /\ msgs' = <<>>
      /\ kept' = [With(t, kept) EXCEPT ![t] = <<>>]
  BY DEF New, Stores, ui
<1>2. kept' = [u \in {t} \cup DOMAIN kept |-> IF u = t THEN <<>> ELSE kept[u]]
  BY <1>1 DEF With
<1>3. kept[active] = msgs
  BY <1>1 DEF Mirrored
<1>4. \A u \in DOMAIN kept : kept[u] = Content(u)
  BY <1>3 DEF Content
<1>5. <<>> \in Seq(Messages)
  OBVIOUS
<1> QED
  BY <1>1, <1>2, <1>4, <1>5 DEF Types, ConversationTypes, Switches

LEMMA DeleteSwitches ==
  ASSUME Types, Mirrored, NEW t, Delete(t)
  PROVE  Switches
<1> DEFINE left == DOMAIN kept \ {t}
<1>1. /\ DOMAIN kept \subseteq Threads /\ active \in DOMAIN kept
      /\ kept \in [DOMAIN kept -> Seq(Messages)] /\ msgs \in Seq(Messages)
  BY DEF Types, ConversationTypes
<1>2. \A u \in DOMAIN kept \ {active} : kept[u] = Content(u)
  BY DEF Content
<1>3. CASE t # active
  <2>1. /\ UNCHANGED <<active, msgs, phase>>
        /\ kept' = IF phase' = "idle" THEN [Without(t, kept) EXCEPT ![active] = msgs]
                                      ELSE Without(t, kept)
    BY <1>3 DEF Delete, Stores, ui
  <2>2. DOMAIN kept' = left /\ \A u \in left \ {active} : kept'[u] = kept[u]
    BY <2>1 DEF Without
  <2>3. kept' \in [left -> Seq(Messages)]
    BY <1>1, <2>1 DEF Without
  <2>4. phase' = "idle" => kept'[active] = msgs
    BY <1>1, <1>3, <2>1 DEF Without
  <2>5. Content(active) = msgs
    BY DEF Content
  <2> QED
    BY <1>1, <1>2, <1>3, <2>1, <2>2, <2>3, <2>4, <2>5 DEF Switches
<1>4. CASE t = active /\ left # {}
  <2>1. PICK r \in left : /\ active' = r /\ phase' = phase /\ msgs' = Without(t, kept)[r]
                          /\ kept' = IF phase' = "idle" THEN [Without(t, kept) EXCEPT ![r] = msgs']
                                                        ELSE Without(t, kept)
    BY <1>4 DEF Delete, Stores, ui
  <2>2. msgs' = kept[r]
    BY <2>1 DEF Without
  <2>3. kept' = [u \in left |-> kept[u]]
    BY <2>1, <2>2 DEF Without
  <2>4. \A u \in left : kept[u] = Content(u)
    BY <1>2, <1>4
  <2>5. kept' \in [left -> Seq(Messages)] /\ DOMAIN kept' = left /\ left \subseteq DOMAIN kept
    BY <1>1, <2>3
  <2>6. r \in DOMAIN kept /\ msgs' = Content(r) /\ msgs' \in Seq(Messages) /\ kept'[r] = msgs'
    BY <1>1, <2>2, <2>3, <2>4
  <2>7. \A u \in left : kept'[u] = Content(u)
    BY <2>3, <2>4
  <2> QED
    BY <1>1, <2>1, <2>5, <2>6, <2>7 DEF Switches
<1>5. CASE t = active /\ left = {}
  <2>1. PICK r \in Threads \ {t} :
          /\ active' = r /\ phase' = phase /\ msgs' = Without(t, With(r, kept))[r]
          /\ kept' = IF phase' = "idle" THEN [Without(t, With(r, kept)) EXCEPT ![r] = msgs']
                                        ELSE Without(t, With(r, kept))
    BY <1>5 DEF Delete, Stores, ui
  <2>2. DOMAIN kept = {t} /\ r \notin DOMAIN kept
    BY <1>1, <1>5, <2>1
  <2>3. Without(t, With(r, kept)) = [u \in {r} |-> <<>>]
    BY <2>2 DEF Without, With
  <2>4. msgs' = <<>> /\ kept' = [u \in {r} |-> <<>>] /\ <<>> \in Seq(Messages)
    BY <2>1, <2>3
  <2> QED
    BY <2>1, <2>2, <2>4 DEF Switches
<1> QED
  BY <1>3, <1>4, <1>5

\* The list of conversations: the step switches, or only closes the dialog.
LEMMA ConfirmsSwitches ==
  ASSUME Types, Mirrored, Confirms
  PROVE  Switches \/ UNCHANGED <<ui, active, kept, msgs, settled>>
BY DeleteSwitches DEF Confirms

LEMMA StaysOrSwitches ==
  ASSUME Types, Mirrored, [Next]_vars
  PROVE  Stays \/ Switches
<1>1. msgs \in Seq(Messages) /\ Keeps(msgs, msgs)
  BY SameKeeps DEF Types, ConversationTypes
<1>2. CASE Confirms
  BY <1>1, <1>2, ConfirmsSwitches DEF Stays, ui
<1>3. ASSUME NEW t \in Threads, Select(t) \/ New(t) PROVE Switches
  BY <1>3, SelectSwitches, NewSwitches
<1> QED
  BY <1>2, <1>3, StepStays DEF Next

LEMMA ConversationTypesStep == Types /\ Mirrored /\ [Next]_vars => ConversationTypes' /\ Mirrored'
<1> SUFFICES ASSUME Types, Mirrored, [Next]_vars PROVE ConversationTypes' /\ Mirrored'
  OBVIOUS
<1>1. asked' \in 0 .. MaxThreads
  <2>1. 0 \in 0 .. MaxThreads /\ Threads \subseteq 0 .. MaxThreads
    BY BoundsAssumption DEF Threads
  <2>2. asked' \in {asked, 0} \cup Threads
    BY DEF Next, vars, conversations, Stop, Confirms, Approves, Rejects, ServerComesOrGoes, Sends1,
           Retries, Delta, Step, ActivityCounted, ActivityFails, Retrieved, Answers, Calls, Fails,
           Caught, Ends, Released, ToolAnswers, ToolFails, Select, New, DeleteThread
  <2> QED
    BY <2>1, <2>2 DEF Types, ConversationTypes
<1>2. CASE Stays
  BY <1>1, <1>2 DEF Stays, Types, ConversationTypes, Mirrored
<1>3. CASE Switches
  BY <1>1, <1>3 DEF Switches, ConversationTypes, Mirrored
<1> QED
  BY <1>2, <1>3, StaysOrSwitches

\* Neither loses a question of a conversation that is still there.
LEMMA QuestionsStep ==
  ASSUME Types, Mirrored, [Next]_vars, NEW t \in DOMAIN kept \cap DOMAIN kept'
  PROVE  Questions(t) \subseteq Questions(t)'
<1>1. Questions(t) = AskedIn(Content(t)) /\ Questions(t)' = AskedIn(Content(t)')
  BY DEF Questions, AskedIn
<1>2. CASE Switches
  <2>1. Content(t)' = Content(t)
    BY <1>2 DEF Switches, Content
  <2> QED
    BY <1>1, <2>1
<1>3. CASE Stays
  <2>1. CASE t = active
    BY <1>1, <1>3, <2>1, QuestionsStay DEF Stays, Content, Types, ConversationTypes
  <2>2. CASE t # active
    <3>1. Content(t)' = Content(t)
      BY <1>3, <2>2 DEF Stays, Content, Types, ConversationTypes
    <3> QED
      BY <1>1, <3>1
  <2> QED
    BY <2>1, <2>2
<1> QED
  BY <1>2, <1>3, StaysOrSwitches

-------------------------------------------------------------------------------
(* Every message in its own conversation *)

\* Nothing that is shown is empty.
AllOwn(t, m) == \A i \in 1 .. Len(m) : Own(t, m[i])

LEMMA NothingStreams ==
  ASSUME UnderWay = {}
  PROVE  ~Streaming
BY DEF UnderWay, Streaming

LEMMA QuietShown ==
  ASSUME ShownAreOwn, ~Streaming
  PROVE  AllOwn(active, msgs)
BY DEF ShownAreOwn, AllOwn

\* A step to another conversation, by a user who has waited.
LEMMA SwitchSettled ==
  ASSUME Types, Switches, UNCHANGED <<pending, tool, send>>, Quiet, pending = 0,
         KeptAreOwn, ShownAreOwn
  PROVE  HomeIsActive' /\ KeptAreOwn' /\ ShownAreOwn'
<1>1. UnderWay = {} /\ UnderWay' = {} /\ ~Streaming /\ ~Streaming' /\ tool.of = 0
  BY NothingStreams DEF Quiet, UnderWay, Streaming
<1>2. HomeIsActive'
  BY <1>1 DEF HomeIsActive
<1>3. \A t \in DOMAIN kept : AllOwn(t, Content(t))
  BY <1>1, QuietShown DEF KeptAreOwn, AllOwn, Content
<1>4. KeptAreOwn'
  BY <1>3 DEF Switches, KeptAreOwn, AllOwn
<1>5. AllOwn(active', msgs')
  <2>1. CASE active' \in DOMAIN kept
    BY <1>3, <2>1 DEF Switches
  <2>2. CASE active' \notin DOMAIN kept
    BY <2>2 DEF Switches, AllOwn
  <2> QED
    BY <2>1, <2>2
<1>6. ShownAreOwn'
  BY <1>1, <1>5 DEF ShownAreOwn, AllOwn
<1> QED
  BY <1>2, <1>4, <1>6

\* A step that stays does not touch the other conversations.
LEMMA OthersRest ==
  ASSUME Types, Stays, KeptAreOwn
  PROVE  KeptAreOwn'
<1>1. DOMAIN kept' = DOMAIN kept /\ \A t \in DOMAIN kept \ {active} : kept'[t] = kept[t]
  BY DEF Stays, Types, ConversationTypes
<1> QED
  BY <1>1 DEF Stays, KeptAreOwn

\* A new send of the active conversation, when nothing else was under way.
LEMMA StartSettled ==
  ASSUME Types, HomeIsActive, ShownAreOwn, NEW s \in Sends, Starts(s, active), UnderWay = {},
         UNCHANGED <<active, msgs, pending>>, tool'.of = 0
  PROVE  HomeIsActive' /\ ShownAreOwn'
<1>1. UnderWay' = {s} /\ send'[s].home = active
  BY DEF Starts, UnderWay
<1>2. pending # 0 => send'[pending] = send[pending]
  <2> SUFFICES ASSUME pending # 0 PROVE send'[pending] = send[pending]
    OBVIOUS
  <2>1. pending \in Sends /\ send[pending].at # "unsent"
    BY BoundsAssumption DEF Types, RefTypes, Sends
  <2> QED
    BY <2>1 DEF Starts
<1>3. ~Streaming /\ ~Streaming'
  BY <1>1, NothingStreams DEF Starts, Streaming, UnderWay
<1> QED
  BY <1>1, <1>2, <1>3 DEF HomeIsActive, ShownAreOwn

\* Sends are where they were.
SameSends ==
  \A r \in Sends : send'[r].at = send[r].at /\ send'[r].home = send[r].home

LEMMA SameSettled ==
  ASSUME Types, HomeIsActive, ShownAreOwn, SameSends, UNCHANGED <<active, msgs, pending>>,
         tool' = tool \/ tool'.of = 0
  PROVE  HomeIsActive' /\ ShownAreOwn'
<1>1. UnderWay' = UnderWay /\ Streaming' = Streaming
  BY DEF SameSends, UnderWay, Streaming
<1>2. /\ pending # 0 => send'[pending].home = send[pending].home
      /\ tool.of # 0 => send'[tool.of].home = send[tool.of].home
  BY BoundsAssumption DEF SameSends, Types, RefTypes, Sends
<1>3. \A s \in UnderWay : send'[s].home = send[s].home
  BY DEF SameSends, UnderWay
<1> QED
  BY <1>1, <1>2, <1>3 DEF HomeIsActive, ShownAreOwn

\* A send gets further and remains under way, or was not.
LEMMA GoSettled ==
  ASSUME Types, HomeIsActive, NEW s \in Sends, NEW from, NEW to, Goes(s, from, to),
         UnderWay' = UnderWay, UNCHANGED <<active, pending, tool>>
  PROVE  HomeIsActive'
<1>1. \A r \in Sends : send'[r].home = send[r].home
  BY DEF Goes
<1>2. /\ pending # 0 => send'[pending].home = send[pending].home
      /\ tool.of # 0 => send'[tool.of].home = send[tool.of].home
  BY <1>1, BoundsAssumption DEF Types, RefTypes, Sends
<1>3. \A r \in UnderWay : r \in Sends
  BY DEF UnderWay
<1> QED
  BY <1>1, <1>2, <1>3 DEF HomeIsActive

\* The turn that is shown ends with the empty answer of the send that streams.
LEMMA RetrievedSettled ==
  ASSUME Types, HomeIsActive, ShownAreOwn, NEW s \in Sends, Retrieved(s)
  PROVE  HomeIsActive' /\ ShownAreOwn'
<1>1. Goes(s, "retrieves", "streams")
  BY GoesOn DEF Types, Retrieved
<1>2. UnderWay' = UnderWay /\ s \in UnderWay /\ Streaming'
  BY <1>1 DEF Goes, UnderWay, Streaming
<1>3. UNCHANGED <<active, pending, tool>> /\ msgs' = Appended(msgs, s)
  BY DEF Retrieved
<1>4. HomeIsActive'
  BY <1>1, <1>2, <1>3, GoSettled
<1>5. ~Streaming /\ send[s].home = active
  BY <1>1, <1>2 DEF HomeIsActive, Goes, Streaming, UnderWay
<1>6. AllOwn(active, msgs)
  BY <1>5, QuietShown
<1>7. SendTypes /\ msgs \in Seq(Messages) /\ Len(msgs) \in Nat
  BY DEF Types, ConversationTypes
<1> DEFINE n == Appended(msgs, s)
<1>8. /\ n \in Seq(Messages) /\ Len(n) \in Nat \ {0}
      /\ n[Len(n)] = Answer(s, send[s].home, "empty")
      /\ \A i \in 1 .. Len(n) - 1 :
           \/ n[i] = User(send[s].text, send[s].home)
           \/ i \in 1 .. Len(WithoutDangling(msgs)) /\ n[i] = msgs[i]
  BY <1>7, AppendedKeeps
<1>9. Len(WithoutDangling(msgs)) \in Nat /\ Len(WithoutDangling(msgs)) <= Len(msgs)
  BY <1>7, WithoutDanglingKeeps
<1> HIDE DEF n
<1>10. \A i \in 1 .. Len(n) - 1 : Own(active, n[i])
  <2> TAKE i \in 1 .. Len(n) - 1
  <2>1. CASE n[i] = User(send[s].text, send[s].home)
    BY <1>5, <2>1 DEF User, Own
  <2>2. CASE i \in 1 .. Len(WithoutDangling(msgs)) /\ n[i] = msgs[i]
    <3>1. i \in 1 .. Len(msgs)
      BY <1>7, <1>9, <2>2
    <3> QED
      BY <1>6, <2>2, <3>1 DEF AllOwn
  <2> QED
    BY <1>8, <2>1, <2>2
<1>11. n[Len(n)].home = active /\ n[Len(n)].role = "assistant"
  BY <1>5, <1>8 DEF Answer
<1>12. ShownAreOwn'
  <2>1. \A i \in 1 .. Len(n) : Own(active, n[i]) \/ (n[i].home = active /\ i = Len(n))
    BY <1>8, <1>10, <1>11
  <2>2. n # <<>> /\ Last(n).role = "assistant"
    BY <1>8, <1>11 DEF Last
  <2>3. msgs' = n /\ active' = active
    BY <1>3 DEF n
  <2> QED
    BY <1>2, <2>1, <2>2, <2>3 DEF ShownAreOwn
<1> QED
  BY <1>4, <1>12

\* What an end leaves on the screen is not empty.
LEMMA EndingShows ==
  ASSUME Types, HomeIsActive, ShownAreOwn, NEW s \in Sends, Ending(s)
  PROVE  AllOwn(active, msgs')
<1>1. Ends(s) /\ send[s].at \in {"activity", "streams"}
  BY EndingEnds
<1>2. send[s].home = active /\ \A r \in UnderWay : r = s
  BY <1>1 DEF HomeIsActive, UnderWay
<1>3. SendTypes /\ msgs \in Seq(Messages)
  BY DEF Types, ConversationTypes
<1>4. CASE send[s].at = "activity"
  <2>1. ~Streaming
    BY <1>2, <1>4 DEF Streaming, UnderWay
  <2>2. msgs' = msgs
    BY <1>4 DEF Ending, ActivityFails, Answers, Calls, Fails, Caught, CaughtMessages
  <2> QED
    BY <2>1, <2>2, QuietShown
<1>5. CASE send[s].at = "streams"
  <2>1. msgs # <<>> /\ Last(msgs).role = "assistant" /\ Len(msgs) \in Nat \ {0}
    BY <1>3, <1>5, LastIsAMessage DEF ShownAreOwn, Streaming
  <2>2. \A i \in 1 .. Len(msgs) - 1 : Own(active, msgs[i])
    BY <2>1 DEF ShownAreOwn
  <2>3. ASSUME NEW m \in Seq(Messages), m # <<>>, Last(m).role = "assistant", Len(m) = Len(msgs),
               \A i \in 1 .. Len(m) - 1 : m[i] = msgs[i]
        PROVE  AllOwn(active, WithoutDangling(m))
    BY <2>1, <2>2, <2>3, WithoutDanglingKeeps DEF AllOwn
  <2>4. ASSUME NEW m \in Seq(Messages), m # <<>>, Last(m).role = "assistant", Len(m) = Len(msgs),
               \A i \in 1 .. Len(m) - 1 : m[i] = msgs[i],
               NEW body \in Bodies \ {"empty"}
        PROVE  /\ AllOwn(active, Filled(m, s, body)) /\ Filled(m, s, body) \in Seq(Messages)
               /\ Filled(m, s, body) # <<>> /\ Last(Filled(m, s, body)).role = "assistant"
               /\ Len(Filled(m, s, body)) = Len(msgs)
               /\ \A i \in 1 .. Len(m) - 1 : Filled(m, s, body)[i] = msgs[i]
    <3> DEFINE n == Filled(m, s, body)
    <3>1. /\ n \in Seq(Messages) /\ Len(n) = Len(m) /\ \A i \in 1 .. Len(m) - 1 : n[i] = m[i]
          /\ n[Len(m)] = Answer(s, send[s].home, body)
      BY <1>3, <2>4, FilledKeeps
    <3> HIDE DEF n
    <3>2. Own(active, n[Len(m)]) /\ n[Len(m)].role = "assistant"
      BY <1>2, <3>1 DEF Answer, Own
    <3>3. \A i \in 1 .. Len(m) - 1 : Own(active, n[i]) /\ n[i] = msgs[i]
      BY <2>2, <2>4, <3>1
    <3>4. AllOwn(active, n)
      BY <2>1, <2>4, <3>1, <3>2, <3>3 DEF AllOwn
    <3>5. n # <<>> /\ Last(n).role = "assistant"
      BY <2>1, <2>4, <3>1, <3>2 DEF Last
    <3> QED
      BY <2>4, <3>1, <3>3, <3>4, <3>5 DEF n
  <2>5. \A body \in Bodies \ {"empty"} : AllOwn(active, Filled(msgs, s, body))
    BY <1>3, <2>1, <2>4
  <2>6. AllOwn(active, WithoutDangling(msgs))
    BY <1>3, <2>1, <2>3
  <2>7. CASE ActivityFails(s) \/ Fails(s)
    BY <1>5, <2>5, <2>6, <2>7 DEF ActivityFails, Fails, Caught, CaughtMessages, Bodies
  <2>8. CASE Answers(s)
    BY <2>5, <2>8 DEF Answers, Bodies
  <2>9. CASE Calls(s)
    <3> DEFINE m == Filled(msgs, s, "call")
    <3>1. msgs' \in {m, Filled(m, s, "partial"), WithoutDangling(m)}
      BY <1>5, <2>9 DEF Calls, Caught, CaughtMessages
    <3>2. /\ AllOwn(active, m) /\ m \in Seq(Messages) /\ m # <<>> /\ Last(m).role = "assistant"
          /\ Len(m) = Len(msgs) /\ \A i \in 1 .. Len(m) - 1 : m[i] = msgs[i]
      BY <1>3, <2>1, <2>4 DEF Bodies
    <3> HIDE DEF m
    <3>3. AllOwn(active, Filled(m, s, "partial"))
      BY <2>4, <3>2 DEF Bodies
    <3>4. AllOwn(active, WithoutDangling(m))
      BY <2>3, <3>2
    <3> QED
      BY <3>1, <3>2, <3>3, <3>4
  <2> QED
    BY <2>7, <2>8, <2>9 DEF Ending
<1> QED
  BY <1>1, <1>4, <1>5

LEMMA EndingSettled ==
  ASSUME Types, HomeIsActive, ShownAreOwn, NEW s \in Sends, Ending(s)
  PROVE  HomeIsActive' /\ ShownAreOwn'
<1>1. /\ active' = active /\ pending' \in {pending, s} /\ tool' = tool
  BY DEF Ending, ActivityFails, Answers, Calls, Fails, Caught, Ends
<1>2. Goes(s, "activity", "done") \/ Goes(s, "streams", "ends")
  BY EndingEnds, EndGoes DEF Types
<1>3. /\ \A r \in Sends : send'[r].home = send[r].home
      /\ s \in UnderWay /\ UnderWay' = UnderWay \ {s}
  BY <1>2 DEF Goes, UnderWay
<1>4. UnderWay' = {} /\ tool.of = 0 /\ send[s].home = active
  BY <1>3 DEF HomeIsActive
<1>5. pending # 0 => send'[pending].home = send[pending].home
  BY <1>3, BoundsAssumption DEF Types, RefTypes, Sends
<1>6. HomeIsActive'
  BY <1>1, <1>3, <1>4, <1>5 DEF HomeIsActive
<1>7. ~Streaming'
  BY <1>4 DEF UnderWay, Streaming
<1>8. ShownAreOwn'
  BY <1>1, <1>7, EndingShows DEF ShownAreOwn, AllOwn
<1> QED
  BY <1>6, <1>8

LEMMA SettledStep == Types /\ Mirrored /\ Settled /\ [Next]_vars => Settled'
<1> SUFFICES ASSUME Types, Mirrored, Settled, [Next]_vars, settled' PROVE HomeIsActive' /\ KeptAreOwn' /\ ShownAreOwn'
  BY DEF Settled
<1>1. SendTypes
  BY DEF Types
<1>2. ASSUME NEW s \in Sends, Sends1(s) \/ Retries(s)
      PROVE  HomeIsActive' /\ KeptAreOwn' /\ ShownAreOwn'
  <2>1. /\ settled /\ Quiet
        /\ UNCHANGED <<active, msgs, pending, tool>>
    BY <1>2 DEF Sends1, Retries, Waits, conversations
  <2>2. Starts(s, active) /\ Stays
    BY <1>2, NewSend, StepStays
  <2>3. HomeIsActive /\ ShownAreOwn /\ KeptAreOwn /\ UnderWay = {} /\ tool'.of = 0
    BY <2>1 DEF Settled, Quiet
  <2> QED
    BY <2>1, <2>2, <2>3, StartSettled, OthersRest
<1>3. ASSUME NEW s \in Sends, ToolAnswers(s)
      PROVE  HomeIsActive' /\ KeptAreOwn' /\ ShownAreOwn'
  <2>1. /\ settled /\ UNCHANGED <<active, msgs, pending>> /\ tool'.of = 0 /\ tool.of # 0
    BY <1>3 DEF ToolAnswers, conversations, NoTool
  <2>2. HomeIsActive /\ KeptAreOwn /\ ShownAreOwn
    BY <2>1 DEF Settled
  <2>3. Stays /\ UnderWay = {} /\ send[tool.of].home = active
    BY <1>3, <2>1, <2>2, StepStays DEF HomeIsActive
  <2>4. Starts(s, active) \/ send' = send
    BY <1>3, <2>3, FollowUp
  <2> QED
    BY <2>1, <2>2, <2>3, <2>4, StartSettled, SameSettled, OthersRest DEF SameSends
<1>4. ASSUME NEW s \in Sends, ActivityCounted(s) \/ Released(s)
      PROVE  HomeIsActive' /\ KeptAreOwn' /\ ShownAreOwn'
  <2>1. settled /\ UNCHANGED <<active, msgs, pending, tool>> /\ Stays
    BY <1>4, StepStays DEF ActivityCounted, Released, conversations, Step
  <2>2. HomeIsActive /\ KeptAreOwn /\ ShownAreOwn
    BY <2>1 DEF Settled
  <2>3. Goes(s, "activity", "retrieves") \/ Goes(s, "ends", "done")
    BY <1>1, <1>4, GoesOn
  <2>4. UnderWay' = UnderWay /\ Streaming' = Streaming
    BY <2>3 DEF Goes, UnderWay, Streaming
  <2>5. HomeIsActive'
    BY <2>1, <2>2, <2>3, <2>4, GoSettled
  <2>6. ShownAreOwn'
    BY <2>1, <2>2, <2>4 DEF ShownAreOwn
  <2> QED
    BY <2>1, <2>2, <2>5, <2>6, OthersRest
<1>5. ASSUME NEW s \in Sends, Retrieved(s) \/ Ending(s)
      PROVE  HomeIsActive' /\ KeptAreOwn' /\ ShownAreOwn'
  <2>1. settled /\ Stays
    BY <1>5, StepStays, EndingEnds DEF Retrieved, Ends, Step, Ending
  <2>2. HomeIsActive /\ KeptAreOwn /\ ShownAreOwn
    BY <2>1 DEF Settled
  <2> QED
    BY <1>5, <2>1, <2>2, RetrievedSettled, EndingSettled, OthersRest
<1>6. CASE Stop
  <2>1. settled /\ UNCHANGED <<active, msgs, pending, tool>> /\ Stays /\ SameSends
    BY <1>1, <1>6, StepStays, StopGoes DEF Stop, conversations, SameSends
  <2> QED
    BY <2>1, SameSettled, OthersRest DEF Settled
<1>7. CASE Approves
  <2>1. /\ settled /\ Quiet /\ pending # 0 /\ pending' = 0 /\ tool'.of = pending
        /\ UNCHANGED <<active, msgs, send>> /\ Stays
    BY <1>7, StepStays DEF Approves, conversations
  <2>2. HomeIsActive /\ KeptAreOwn /\ ShownAreOwn
    BY <2>1 DEF Settled
  <2>3. UnderWay = {} /\ UnderWay' = {} /\ Streaming' = Streaming
    BY <2>1 DEF Quiet, UnderWay, Streaming
  <2>4. HomeIsActive'
    BY <2>1, <2>2, <2>3 DEF HomeIsActive
  <2>5. ShownAreOwn'
    BY <2>1, <2>2, <2>3 DEF ShownAreOwn
  <2> QED
    BY <2>1, <2>2, <2>4, <2>5, OthersRest
<1>8. CASE Rejects
  <2>1. /\ settled /\ Quiet /\ pending' = 0 /\ msgs' = WithoutDangling(msgs)
        /\ UNCHANGED <<active, send, tool>> /\ Stays
    BY <1>8, StepStays DEF Rejects
  <2>2. HomeIsActive /\ KeptAreOwn /\ ShownAreOwn
    BY <2>1 DEF Settled
  <2>3. UnderWay = {} /\ UnderWay' = {} /\ ~Streaming /\ ~Streaming' /\ tool.of = 0
    BY <2>1, NothingStreams DEF Quiet, UnderWay, Streaming
  <2>4. HomeIsActive'
    BY <2>1, <2>3 DEF HomeIsActive
  <2>5. AllOwn(active, msgs) /\ msgs \in Seq(Messages)
    BY <2>2, <2>3, QuietShown DEF Types, ConversationTypes
  <2>6. AllOwn(active, msgs')
    BY <2>1, <2>5, WithoutDanglingKeeps DEF AllOwn
  <2>7. ShownAreOwn'
    BY <2>1, <2>3, <2>6 DEF ShownAreOwn, AllOwn
  <2> QED
    BY <2>1, <2>2, <2>4, <2>7, OthersRest
<1>9. ASSUME Stays, settled, UNCHANGED <<active, msgs, pending, send>>, tool' = tool \/ tool'.of = 0
      PROVE  HomeIsActive' /\ KeptAreOwn' /\ ShownAreOwn'
  BY <1>9, SameSettled, OthersRest DEF Settled, SameSends
<1>10. CASE ServerComesOrGoes \/ ToolFails \/ UNCHANGED vars
  <2>1. /\ settled /\ UNCHANGED <<active, msgs, pending, send>>
        /\ tool' = tool \/ tool'.of = 0
    <3>1. NoTool.of = 0
      BY DEF NoTool
    <3>2. CASE ToolFails
      BY <3>1, <3>2 DEF ToolFails
    <3>3. CASE ServerComesOrGoes
      BY <3>3 DEF ServerComesOrGoes, conversations
    <3>4. CASE UNCHANGED vars
      BY <3>4 DEF vars, conversations
    <3> QED
      BY <1>10, <3>2, <3>3, <3>4
  <2> QED
    BY <1>9, <1>10, <2>1, StepStays
<1>11. ASSUME NEW s \in Sends, Delta(s) PROVE HomeIsActive' /\ KeptAreOwn' /\ ShownAreOwn'
  BY <1>9, <1>11, StepStays DEF Delta
<1>12. ASSUME NEW t \in Threads, DeleteThread(t)
       PROVE  HomeIsActive' /\ KeptAreOwn' /\ ShownAreOwn'
  BY <1>9, <1>12, StepStays DEF DeleteThread
<1>13. ASSUME NEW t \in Threads, Select(t) \/ New(t)
       PROVE  HomeIsActive' /\ KeptAreOwn' /\ ShownAreOwn'
  <2>1. settled /\ Quiet /\ pending = 0 /\ UNCHANGED <<pending, tool, send>>
    BY <1>13 DEF Select, New, Waits
  <2> QED
    BY <1>13, <2>1, SelectSwitches, NewSwitches, SwitchSettled DEF Settled
<1>14. CASE Confirms
  <2>1. CASE UNCHANGED <<active, kept, msgs, settled>> /\ phase' = phase
    <3>1. Stays
      BY <2>1, SameKeeps DEF Stays, Types, ConversationTypes
    <3> QED
      BY <1>9, <1>14, <2>1, <3>1 DEF Confirms
  <2>2. CASE Delete(asked) /\ Waits
    <3>1. settled /\ Quiet /\ pending = 0 /\ UNCHANGED <<pending, tool, send>>
      BY <1>14, <2>2 DEF Confirms, Waits
    <3> QED
      BY <2>2, <3>1, DeleteSwitches, SwitchSettled DEF Settled
  <2> QED
    BY <1>14, <2>1, <2>2 DEF Confirms, ui
<1> QED
  BY <1>2, <1>3, <1>4, <1>5, <1>6, <1>7, <1>8, <1>10, <1>11, <1>12, <1>13, <1>14
     DEF Next, Step, Ending

-------------------------------------------------------------------------------
(* Theorems *)

LEMMA InitInv == Init => IInv
<1> SUFFICES ASSUME Init PROVE IInv
  OBVIOUS
<1>1. PanelTypes
  BY DEF Init, PanelTypes, NoStream
<1>2. SendTypes
  BY BoundsAssumption DEF Init, SendTypes, Runs, Unsent, Threads
<1>3. RefTypes
  BY BoundsAssumption DEF Init, RefTypes, NoTool
<1>4. ASSUME NEW t \in {1, 2}
      PROVE  Earlier(t) \in Seq(Messages) /\ AllOwn(t, Earlier(t))
  <2>1. t \in Threads /\ 0 \in 0 .. MaxTexts + MaxSends
    BY BoundsAssumption DEF Threads
  <2>2. User(0, t) \in Messages /\ Answer(0, t, "whole") \in Messages
    BY <2>1 DEF User, Answer, Messages
  <2>3. Own(t, User(0, t)) /\ Own(t, Answer(0, t, "whole"))
    BY DEF User, Answer, Own
  <2> QED
    BY <2>2, <2>3 DEF Earlier, AllOwn
<1>5. ConversationTypes
  BY <1>4, BoundsAssumption DEF Init, ConversationTypes, Threads
<1>6. Counts
  <2>1. Counted = {} /\ Over = {}
    BY DEF Init, Counted, Over, Unsent
  <2> QED
    BY <2>1, FS_EmptySet DEF Init, Counts
<1>7. Mirrored
  BY DEF Init, Mirrored
<1>8. Settled
  <2>1. UnderWay = {} /\ ~Streaming
    BY DEF Init, UnderWay, Streaming, Unsent
  <2>2. HomeIsActive
    BY <2>1 DEF Init, HomeIsActive, NoTool
  <2>3. KeptAreOwn
    BY <1>4 DEF Init, KeptAreOwn, AllOwn
  <2>4. ShownAreOwn
    BY <1>4, <2>1 DEF Init, ShownAreOwn, AllOwn
  <2> QED
    BY <2>2, <2>3, <2>4 DEF Settled
<1> QED
  BY <1>1, <1>2, <1>3, <1>5, <1>6, <1>7, <1>8 DEF IInv, Types

LEMMA StepInv == IInv /\ [Next]_vars => IInv'
BY PanelTypesStep, RefTypesStep, SendTypesStep, ConversationTypesStep, CountsStep, SettledStep
   DEF IInv, Types

LEMMA SpecInv == Spec => []IInv
BY InitInv, StepInv, PTL DEF Spec

\* The panel's refs and messages stay in their domains, whatever overlaps: the
\* active conversation exists, and the back end never counts more requests in use
\* than there were sends.
THEOREM ChatIsTyped == Spec => []TypeOK
<1>1. IInv => TypeOK
  <2> SUFFICES ASSUME IInv PROVE TypeOK
    OBVIOUS
  <2>1. \A m \in Range(msgs) \cup UNION {Range(kept[t]) : t \in DOMAIN kept} : m \in Messages
    <3>1. \A i \in DOMAIN msgs : msgs[i] \in Messages
      BY DEF IInv, Types, ConversationTypes
    <3>2. \A t \in DOMAIN kept : \A i \in DOMAIN kept[t] : kept[t][i] \in Messages
      <4> TAKE t \in DOMAIN kept
      <4>1. kept[t] \in Seq(Messages)
        BY DEF IInv, Types, ConversationTypes
      <4> QED
        BY <4>1
    <3> QED
      BY <3>1, <3>2 DEF Range
  <2>2. Counted \in SUBSET Sends /\ Over \in SUBSET Sends
    BY DEF Counted, Over
  <2>3. activity \in 0 .. MaxSends /\ rounds \in 0 .. MaxSends
    BY <2>2, FiniteSends, BoundsAssumption DEF IInv, Counts
  <2>4. \A s \in Sends : send[s].at \in {"unsent", "activity", "retrieves", "streams", "ends", "done"}
    BY DEF IInv, Types, SendTypes, Runs
  <2> QED
    BY <2>1, <2>3, <2>4 DEF IInv, Types, PanelTypes, RefTypes, ConversationTypes, TypeOK
<1> QED
  BY <1>1, SpecInv, PTL

\* No failure, stop, rejected tool, switch or overlapping send drops a question
\* from a conversation that is not deleted.
THEOREM NoQuestionIsLost == Spec => QuestionsKept
<1>1. IInv /\ [Next]_vars =>
        [\A t \in DOMAIN kept \cap DOMAIN kept' : Questions(t) \subseteq Questions(t)']_vars
  BY QuestionsStep DEF IInv
<1> QED
  BY <1>1, SpecInv, PTL DEF Spec, QuestionsKept

\* As long as the user waits for what is under way, every message is in the
\* conversation its send was started in, and no empty answer is left behind.
THEOREM MessagesStayHome == Spec => []OwnThread
<1>1. IInv => OwnThread
  <2> SUFFICES ASSUME IInv, settled, NEW t \in DOMAIN kept, NEW i \in DOMAIN Content(t)
               PROVE  Content(t)[i].home = t /\ (Quiet => Content(t)[i].body # "empty")
    BY DEF OwnThread, Range
  <2>1. HomeIsActive /\ KeptAreOwn /\ ShownAreOwn
    BY DEF IInv, Settled
  <2>2. msgs \in Seq(Messages) /\ kept[t] \in Seq(Messages)
    BY DEF IInv, Types, ConversationTypes
  <2>3. CASE t # active
    BY <2>1, <2>2, <2>3 DEF KeptAreOwn, Own, Content
  <2>4. CASE t = active
    <3>1. i \in 1 .. Len(msgs) /\ Content(t)[i] = msgs[i]
      BY <2>2, <2>4 DEF Content
    <3>2. Quiet => ~Streaming
      BY NothingStreams DEF Quiet
    <3> QED
      BY <2>1, <2>4, <3>1, <3>2 DEF ShownAreOwn, Own
  <2> QED
    BY <2>3, <2>4
<1> QED
  BY <1>1, SpecInv, PTL

===============================================================================
