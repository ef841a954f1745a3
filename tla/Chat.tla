--------------------------------- MODULE Chat ---------------------------------
(***************************************************************************)
(* The chat panel: sending, stopping, retrying, tool calls with approval   *)
(* (useChatSend.ts, chatSendHelpers.ts) and the conversations it writes    *)
(* into (useChatThreads.ts, Chat.tsx).                                     *)
(*                                                                         *)
(* A send is one run of send(), numbered in the order of the calls.  Each  *)
(* awaits server_activity, the retrieval of its documents and the stream,  *)
(* and the panel leaves phase "idle" only after the first two, so that the *)
(* user may send again or switch conversations in between.  All runs share *)
(* the refs of the panel: the controller, the failed request, the stream's *)
(* accumulator and the count of tool rounds.  A message records the send   *)
(* its text is from and the conversation that one was sent from (home).    *)
(***************************************************************************)
EXTENDS Naturals, Sequences, FiniteSets, SequencesExt

CONSTANTS
  MaxThreads, \* conversations there can be, numbered
  MaxSends,   \* bound: runs of send()
  MaxTexts,   \* bound: different texts he types
  MaxRounds   \* tool calls per response, 4 in the source

ASSUME BoundsAssumption ==
  /\ MaxThreads \in Nat \ {0, 1} /\ MaxSends \in Nat /\ MaxTexts \in Nat /\ MaxRounds \in Nat

VARIABLES
  phase, aborting,                \* "busy": thinking or streaming, which only the status line tells apart
  active, kept, msgs, asked,      \* the conversations; asked: pendingDelete
  ctrl, failed, rounds, stream,   \* the refs: ctrlRef, failedRef, toolRoundsRef, streamRef
  pending,                        \* pendingToolCall: the send whose call waits for approval
  tool,                           \* the approved call that runs
  send,                           \* each run of send()
  activity,                       \* the requests in use the back end has counted
  serverOn,                       \* whether the panel has a baseUrl
  settled                         \* whether the user has waited so far (see Waits)

ui == <<phase, aborting>>
conversations == <<active, kept, msgs, asked>>
refs == <<ctrl, failed, rounds, stream>>
vars == <<ui, conversations, refs, pending, tool, send, activity, serverOn, settled>>

Threads == 1 .. MaxThreads
Sends == 1 .. MaxSends
Texts == 1 .. MaxTexts
UnderWay == {s \in Sends : send[s].at \in {"activity", "retrieves", "streams"}}
Quiet == UnderWay = {} /\ tool.of = 0

User(text, home) == [role |-> "user", of |-> text, home |-> home, body |-> "text"]
Answer(of, home, body) == [role |-> "assistant", of |-> of, home |-> home, body |-> body]
Unsent == [at |-> "unsent", followup |-> FALSE, text |-> 0, home |-> 1, aborted |-> FALSE]
NoStream == [text |-> FALSE, call |-> FALSE]
NoTool == [of |-> 0, on |-> FALSE]
Messages == [role : {"user", "assistant"}, of : 0 .. MaxTexts + MaxSends, home : Threads,
             body : {"text", "empty", "partial", "whole", "call"}]

TypeOK ==
  /\ phase \in {"idle", "busy"} /\ aborting \in BOOLEAN
  /\ active \in DOMAIN kept /\ DOMAIN kept \subseteq Threads /\ asked \in 0 .. MaxThreads
  /\ \A m \in Range(msgs) \cup UNION {Range(kept[t]) : t \in DOMAIN kept} : m \in Messages
  /\ ctrl \in 0 .. MaxSends /\ failed \in 0 .. MaxSends /\ rounds \in 0 .. MaxSends
  /\ stream \in [text : BOOLEAN, call : BOOLEAN]
  /\ pending \in 0 .. MaxSends /\ tool \in [of : 0 .. MaxSends, on : BOOLEAN]
  /\ \A s \in Sends : send[s].at \in {"unsent", "activity", "retrieves", "streams", "ends", "done"}
  /\ activity \in 0 .. MaxSends

\* Two conversations with an answered question each.
Earlier(t) == <<User(0, t), Answer(0, t, "whole")>>

Init ==
  /\ phase = "idle" /\ aborting = FALSE
  /\ active = 1 /\ kept = [t \in {1, 2} |-> Earlier(t)] /\ msgs = Earlier(1) /\ asked = 0
  /\ ctrl = 0 /\ failed = 0 /\ rounds = 0 /\ stream = NoStream
  /\ pending = 0 /\ tool = NoTool
  /\ send = [s \in Sends |-> Unsent] /\ activity = 0
  /\ serverOn = TRUE /\ settled = TRUE

-----------------------------------------------------------------------------
\* The messages on screen.

\* Mutant: the last message goes whoever wrote it.
WithoutDangling_AnyRole(m) == IF m = <<>> THEN m ELSE Front(m)

\* What the source calls a dangling assistant message is any that is the last one.
WithoutDangling(m) == IF m # <<>> /\ Last(m).role = "assistant" THEN Front(m) ELSE m

\* The new turn: its question, unless that is the last message already, and an empty answer.
Appended(m, s) ==
  LET k == WithoutDangling(m)
      question == User(send[s].text, send[s].home)
      shown == k # <<>> /\ Last(k).role = "user" /\ Last(k).of = send[s].text
  IN  (IF send[s].followup \/ shown THEN k ELSE Append(k, question))
        \o <<Answer(s, send[s].home, "empty")>>

Filled(m, s, body) ==
  IF m # <<>> /\ Last(m).role = "assistant"
  THEN [m EXCEPT ![Len(m)] = Answer(s, send[s].home, body)] ELSE m

\* The effect that stores the messages in the active conversation, run by every
\* render that finds the panel idle.
Stores(k) ==
  kept' = IF phase' = "idle" THEN [k EXCEPT ![active'] = msgs'] ELSE k

-----------------------------------------------------------------------------
\* The user.  Waits: he acts only when nothing is under way and no call waits.

\* The confirmation is modal.
NoDialog == asked = 0

Waits == settled' = (settled /\ Quiet /\ pending = 0)

Next1(s) == send[s].at = "unsent" /\ \A r \in 1 .. (s - 1) : send[r].at # "unsent"

\* What send() does before it awaits server_activity.
Begins(s, text, home, followup) ==
  /\ Next1(s)
  /\ send' = [send EXCEPT ![s] = [Unsent EXCEPT !.at = "activity", !.text = text,
                                    !.home = home, !.followup = followup]]
  /\ ctrl' = s /\ stream' = NoStream
  /\ rounds' = IF followup THEN rounds ELSE 0
  /\ UNCHANGED <<failed, activity>>

\* canSend: the composer takes a text as long as the panel is idle.
CanSend == NoDialog /\ serverOn /\ phase = "idle" /\ ~aborting

Sends1(s) ==
  /\ CanSend /\ \E text \in Texts : Begins(s, text, active, FALSE)
  /\ Waits
  /\ UNCHANGED <<ui, conversations, pending, tool, serverOn>>

\* The retry button of the error banner, in which the composer, the clipboard and
\* the tool list show their errors too; a failed follow-up has no text to send.
Retries(s) ==
  /\ NoDialog /\ serverOn /\ phase = "idle" /\ failed # 0 /\ send[failed].text # 0
  /\ Begins(s, send[failed].text, active, FALSE) /\ Waits
  /\ UNCHANGED <<ui, conversations, pending, tool, serverOn>>

Stop ==
  /\ NoDialog /\ phase # "idle" /\ ~aborting /\ aborting' = TRUE
  /\ send' = [s \in Sends |-> IF s = ctrl THEN [send[s] EXCEPT !.aborted = TRUE] ELSE send[s]]
  /\ UNCHANGED <<phase, conversations, refs, pending, tool, activity, serverOn, settled>>

\* onSwitchThread clears the composer; a pending call and the failed request stay.

\* Mutant: the messages on the screen stay.
Select_KeepsMessages(t) ==
  /\ NoDialog /\ phase = "idle" /\ t \in DOMAIN kept
  /\ active' = t /\ msgs' = msgs /\ UNCHANGED ui /\ Stores(kept) /\ Waits
  /\ UNCHANGED <<asked, refs, pending, tool, send, activity, serverOn>>

Select(t) ==
  /\ NoDialog /\ phase = "idle" /\ t \in DOMAIN kept
  /\ active' = t /\ msgs' = kept[t] /\ UNCHANGED ui /\ Stores(kept) /\ Waits
  /\ UNCHANGED <<asked, refs, pending, tool, send, activity, serverOn>>

With(t, k) == [u \in {t} \cup DOMAIN k |-> IF u = t THEN <<>> ELSE k[u]]
Without(t, k) == [u \in DOMAIN k \ {t} |-> k[u]]

New(t) ==
  /\ NoDialog /\ phase = "idle" /\ t \in Threads \ DOMAIN kept
  /\ active' = t /\ msgs' = <<>> /\ UNCHANGED ui /\ Stores(With(t, kept)) /\ Waits
  /\ UNCHANGED <<asked, refs, pending, tool, send, activity, serverOn>>

\* performDeleteThread, which the dialog (when the preference asks for one) reaches in any phase.
Delete(t) ==
  LET left == DOMAIN kept \ {t} IN
  IF t # active
  THEN UNCHANGED <<ui, active, msgs>> /\ Stores(Without(t, kept))
  ELSE /\ UNCHANGED ui
       /\ \E r \in IF left # {} THEN left ELSE Threads \ {t} :
            LET k == IF left # {} THEN Without(t, kept) ELSE Without(t, With(r, kept))
            IN  active' = r /\ msgs' = k[r] /\ Stores(k)

DeleteThread(t) ==
  /\ phase = "idle" /\ t \in DOMAIN kept /\ NoDialog /\ asked' = t
  /\ UNCHANGED <<ui, active, kept, msgs, refs, pending, tool, send, activity, serverOn, settled>>

Confirms ==
  /\ asked # 0 /\ asked' = 0
  /\ \/ Delete(asked) /\ Waits
     \/ UNCHANGED <<ui, active, kept, msgs, settled>>
  /\ UNCHANGED <<refs, pending, tool, send, activity, serverOn>>

\* approvePendingTool up to its await, with the baseUrl of that render.
Approves ==
  /\ NoDialog /\ pending # 0 /\ failed # 0 /\ phase = "idle"
  /\ pending' = 0 /\ phase' = "busy"
  /\ tool' = [of |-> pending, on |-> serverOn]
  /\ settled' = (settled /\ Quiet)
  /\ UNCHANGED <<aborting, conversations, refs, send, activity, serverOn>>

Rejects ==
  /\ NoDialog /\ pending # 0 /\ pending' = 0
  /\ failed' = 0 /\ rounds' = 0 /\ phase' = "idle"
  /\ msgs' = WithoutDangling(msgs) /\ UNCHANGED active /\ Stores(kept)
  /\ settled' = (settled /\ Quiet)
  /\ UNCHANGED <<aborting, asked, ctrl, stream, tool, send, activity, serverOn>>

ServerComesOrGoes ==
  /\ serverOn' = ~serverOn
  /\ UNCHANGED <<ui, conversations, refs, pending, tool, send, activity, settled>>

-----------------------------------------------------------------------------
\* The end of a send: what catch leaves of the turn, and finally.

Ends(s) ==
  /\ ctrl' = 0 /\ aborting' = FALSE /\ phase' = "idle"
  /\ send' = [send EXCEPT ![s].at = IF @ = "activity" THEN "done" ELSE "ends", ![s].aborted = FALSE]
  /\ stream' = IF UnderWay = {s} THEN NoStream ELSE stream \* not looked at again
  /\ UNCHANGED <<active, asked, tool, activity, serverOn, settled>>
  /\ Stores(kept)

CaughtMessages(m, s) ==
  IF send[s].at # "streams" THEN m
  ELSE IF stream.text THEN Filled(m, s, "partial") ELSE WithoutDangling(m)

Caught(s, m) ==
  LET abort == send[s].aborted IN
  /\ msgs' = CaughtMessages(m, s)
  /\ failed' = IF send[s].at = "streams" /\ stream.text THEN (IF failed = 0 THEN s ELSE failed)
               ELSE IF abort /\ ~stream.text THEN 0 ELSE failed
  /\ UNCHANGED pending
  /\ Ends(s)

ActivityCounted(s) ==
  /\ send[s].at = "activity"
  /\ activity' = activity + 1
  /\ send' = [send EXCEPT ![s].at = "retrieves"]
  /\ UNCHANGED <<ui, conversations, refs, pending, tool, serverOn, settled>>

ActivityFails(s) ==
  /\ send[s].at = "activity"
  /\ Caught(s, msgs) /\ rounds' = IF send[s].aborted THEN 0 ELSE rounds

\* The documents are searched: the turn is shown and the request is sent.
Retrieved(s) ==
  /\ send[s].at = "retrieves"
  /\ failed' = s /\ phase' = "busy"
  /\ msgs' = Appended(msgs, s)
  /\ send' = [send EXCEPT ![s].at = "streams"]
  /\ UNCHANGED <<aborting, active, kept, asked, ctrl, rounds, stream, pending, tool,
                 activity, serverOn, settled>>

Delta(s) ==
  /\ send[s].at = "streams" /\ ~send[s].aborted
  /\ \/ ~stream.text /\ stream' = [stream EXCEPT !.text = TRUE] /\ phase' = "busy"
     \/ ~stream.call /\ stream' = [stream EXCEPT !.call = TRUE] /\ UNCHANGED phase
  /\ UNCHANGED <<aborting, active, msgs, asked, ctrl, failed, rounds, pending, tool,
                 send, activity, serverOn, settled>>
  /\ Stores(kept)

Answers(s) ==
  /\ send[s].at = "streams" /\ ~send[s].aborted /\ ~stream.call
  /\ msgs' = Filled(msgs, s, "whole")
  /\ failed' = 0 /\ rounds' = 0
  /\ Ends(s) /\ UNCHANGED pending

\* The model asks for a tool: the call waits for the user, unless it is one too
\* many or not one of the approved tools with valid arguments.
Calls(s) ==
  /\ send[s].at = "streams" /\ ~send[s].aborted /\ stream.call
  /\ rounds' = rounds + 1
  /\ \/ /\ rounds < MaxRounds
        /\ msgs' = Filled(msgs, s, "call") /\ pending' = s
        /\ Ends(s) /\ UNCHANGED failed
     \/ Caught(s, Filled(msgs, s, "call"))

Fails(s) ==
  /\ send[s].at = "streams"
  /\ Caught(s, msgs) /\ rounds' = IF send[s].aborted THEN 0 ELSE rounds

\* Mutant: the end is reported twice.
Released_Again(s) ==
  /\ send[s].at = "ends" /\ activity' = activity - 1
  /\ UNCHANGED <<ui, conversations, refs, pending, tool, send, serverOn, settled>>

\* Mutant: a failed request is not reported as ended.
Released_UnlessFailed(s) ==
  /\ send[s].at = "ends" /\ send' = [send EXCEPT ![s].at = "done"]
  /\ activity' = IF failed = s THEN activity ELSE activity - 1
  /\ UNCHANGED <<ui, conversations, refs, pending, tool, serverOn, settled>>

\* finally tells the back end and does not wait for it.
Released(s) ==
  /\ send[s].at = "ends" /\ send' = [send EXCEPT ![s].at = "done"]
  /\ activity' = activity - 1
  /\ UNCHANGED <<ui, conversations, refs, pending, tool, serverOn, settled>>

\* The approved tool has answered: the follow-up is sent, if there was a server.
ToolAnswers(s) ==
  /\ tool.of # 0 /\ tool' = NoTool
  /\ IF tool.on THEN Begins(s, 0, send[tool.of].home, TRUE)
                ELSE Next1(s) /\ UNCHANGED <<refs, send, activity>>
  /\ UNCHANGED <<ui, conversations, pending, serverOn, settled>>

ToolFails ==
  /\ tool.of # 0 /\ tool' = NoTool
  /\ phase' = "idle"
  /\ UNCHANGED <<aborting, active, msgs, asked, refs, pending, send, activity, serverOn, settled>>
  /\ Stores(kept)

Step(s) ==
  ActivityCounted(s) \/ ActivityFails(s) \/ Retrieved(s) \/ Answers(s) \/ Calls(s) \/ Fails(s)
  \/ Released(s)

Next ==
  \/ Stop \/ Confirms \/ Approves \/ Rejects \/ ServerComesOrGoes
  \/ \E s \in Sends : Sends1(s) \/ Retries(s) \/ Delta(s) \/ Step(s) \/ ToolAnswers(s)
  \/ ToolFails
  \/ \E t \in Threads : Select(t) \/ New(t) \/ DeleteThread(t)

Spec == Init /\ [][Next]_vars

\* Commands are answered, and a stream ends, fails or is aborted.
FairSpec == Spec /\ \A s \in Sends : WF_vars(Step(s))

-----------------------------------------------------------------------------
Content(t) == IF t = active THEN msgs ELSE kept[t]
Questions(t) == {m.of : m \in {x \in Range(Content(t)) : x.role = "user"}}

\* A question that is in a conversation stays there until the conversation is
\* deleted: no failure, stop, rejected tool, switch or overlapping send drops it.
QuestionsKept ==
  [][\A t \in DOMAIN kept \cap DOMAIN kept' : Questions(t) \subseteq Questions(t)']_vars

\* As long as the user waits for what is under way, every message is in the
\* conversation it was sent from, and none is left empty when nothing runs.
OwnThread ==
  settled => \A t \in DOMAIN kept : \A m \in Range(Content(t)) :
               m.home = t /\ (Quiet => m.body # "empty")

\* However sends end and overlap, the back end does not count a request in use
\* for ever, which would keep the model loaded.
InUseReleased == <>[](activity = 0)
===============================================================================
