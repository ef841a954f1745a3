------------------------------- MODULE AppStore -------------------------------
(***************************************************************************)
(* The front-end store (store.ts) and the panels that start and stop the   *)
(* server through it: the shell's button, the start buttons of Chat and    *)
(* Models, Models' "restart with this model" (performSelectAndStart),      *)
(* Tuning's "apply and restart" (performApplyRestart) and the automatic    *)
(* start.                                                                  *)
(*                                                                         *)
(* A click is one run of such a handler.  It works with the store of the   *)
(* render it was created in: seen is the status that render showed, and    *)
(* every start or stop of the handler is guarded by it, however much later *)
(* it is called.  An operation is numbered by statusGeneration.  The back  *)
(* end is the lock its commands take and the state server_status reports.  *)
(***************************************************************************)
EXTENDS Naturals, Sequences

CONSTANTS
  MaxClicks,  \* bound: runs of the handlers, numbered in the order of the clicks
  Kinds,      \* which handlers take part
  Preference  \* values the preference server.autoStart can have

AllKinds == {"toggle", "start", "unload", "switch", "apply"}
ASSUME MaxAssumption == MaxClicks \in Nat
ASSUME KindsAssumption == Kinds \subseteq AllKinds
ASSUME PreferenceAssumption == Preference # {} /\ Preference \subseteq BOOLEAN

VARIABLES
  shown,     \* status.state
  source,    \* where it is from: the store, or a poll (see Fresh)
  busy,      \* busy
  inFlight,  \* operationInFlight.current
  gen,       \* statusGeneration.current
  poll,      \* the request of refreshStatus, pollInFlight.current while there is one
  visible,   \* document.visibilityState
  revision,  \* configRevisionRef.current, 2 for any later one
  auto,      \* [on: the preference, used: autoStartConsumedRef.current]
  click,     \* each handler: where it is
  call,      \* the command each handler has sent to the back end
  server     \* Lifecycle as server_status reports it

vars == <<shown, source, busy, inFlight, gen, poll, visible,
          revision, auto, click, call, server>>
status == <<shown, source>>
flags == <<busy, inFlight, gen>>
store == <<status, flags, poll, visible, revision, auto>>

States == {"stopped", "starting", "running", "failed", "crashed"}
Clicks == 1 .. MaxClicks
NoPoll == [at |-> "none", gen |-> 0, state |-> "stopped", owner |-> 0, fresh |-> TRUE]
Rest == [kind |-> "none", at |-> "idle", seen |-> "stopped", todo |-> <<>>,
         ok |-> TRUE, did |-> {}]

NoCall == [op |-> "none", at |-> "none"]

\* What each handler awaits, one after the other, given the status it has seen.
Toggle(seen) == IF seen = "running" THEN <<"stop">> ELSE <<"start">>
StartButton == <<"start">>
SelectAndStart(seen) ==
  IF seen = "running" THEN <<"stop", "save", "start">> ELSE <<"save", "start">>
ApplyRestart == <<"stop", "start">>

Steps(kind, seen) ==
  CASE kind = "toggle" -> Toggle(seen)
    [] kind = "switch" -> SelectAndStart(seen)
    [] kind = "apply" -> ApplyRestart
    [] OTHER -> StartButton

TypeOK ==
  /\ shown \in States \cup {"stopping"} /\ source \in {"store", "poll", "stale poll"}
  /\ busy \in BOOLEAN /\ inFlight \in BOOLEAN /\ visible \in BOOLEAN
  /\ gen \in 0 .. 2 * MaxClicks
  /\ poll \in [at : {"none", "sent", "read"}, gen : 0 .. 2 * MaxClicks,
               state : States, owner : 0 .. MaxClicks, fresh : BOOLEAN]
  /\ revision \in 0 .. 2 /\ auto \in [on : BOOLEAN, used : BOOLEAN]
  /\ \A c \in Clicks :
       /\ click[c].at \in {"idle", "asks", "ready", "awaits", "refreshes", "done"}
       /\ click[c].seen \in States \cup {"stopping"}
       /\ click[c].at = "awaits" => call[c].at # "none"
       /\ call[c] \in [op : {"none", "start", "stop"}, at : {"none", "sent", "works", "ok", "error"}]
  /\ server \in States

Init ==
  /\ shown = "stopped" /\ source = "store"
  /\ busy = FALSE /\ inFlight = FALSE /\ gen = 0
  /\ poll = NoPoll /\ visible = TRUE
  /\ revision = 0
  /\ auto \in [on : Preference, used : {FALSE}]
  /\ click = [c \in Clicks |-> Rest]
  /\ call = [c \in Clicks |-> NoCall]
  /\ server = "stopped"

-----------------------------------------------------------------------------
\* Configuration and preferences, as far as the automatic start looks at them.

LoadConfig ==
  /\ revision = 0 /\ revision' = 1
  /\ UNCHANGED <<status, flags, poll, visible, auto, click, call, server>>

SetAutoStart ==
  /\ ~auto.used
  /\ \E on \in Preference : on # auto.on /\ auto' = [auto EXCEPT !.on = on]
  /\ UNCHANGED <<status, flags, poll, visible, revision, click, call, server>>

\* shouldAutoStart: the effect runs as soon as a render satisfies it.
AutoDue ==
  auto.on /\ ~auto.used /\ ~busy /\ shown = "stopped" /\ revision = 1

-----------------------------------------------------------------------------
\* Polling.

CanPoll == visible /\ poll = NoPoll /\ ~inFlight

PollTick ==
  /\ CanPoll
  /\ poll' = [NoPoll EXCEPT !.at = "sent", !.gen = gen]
  /\ UNCHANGED <<status, flags, visible, revision, auto, click, call, server>>

PollReads ==
  /\ poll.at = "sent"
  /\ poll' = [poll EXCEPT !.at = "read", !.state = server]
  /\ UNCHANGED <<status, flags, visible, revision, auto, click, call, server>>

\* Whether a start or stop was called since the poll read the state.
Fresh == IF poll.fresh THEN "poll" ELSE "stale poll"

Current == poll.gen = gen /\ ~inFlight

\* Mutant: the generation is not compared.
PollAnswers_AnyGeneration ==
  /\ poll.at = "read"
  /\ IF ~inFlight THEN shown' = poll.state /\ source' = Fresh ELSE UNCHANGED status
  /\ poll' = NoPoll
  /\ UNCHANGED <<flags, visible, revision, auto, click, call, server>>

PollAnswers ==
  /\ poll.at = "read"
  /\ IF Current THEN shown' = poll.state /\ source' = Fresh ELSE UNCHANGED status
  /\ poll' = NoPoll
  /\ UNCHANGED <<flags, visible, revision, auto, click, call, server>>

PollFails ==
  /\ poll.at = "read"
  /\ poll' = NoPoll
  /\ UNCHANGED <<status, flags, visible, revision, auto, click, call, server>>

Hide ==
  /\ visible' = ~visible
  /\ UNCHANGED <<status, flags, poll, revision, auto, click, call, server>>

-----------------------------------------------------------------------------
\* Handlers.

\* The buttons; before the configuration is there a start throws.
Offered(kind) ==
  /\ revision > 0 /\ ~busy
  /\ CASE kind = "toggle" -> shown \notin {"starting", "stopping"}
       [] kind = "apply" -> /\ shown = "running"
                            /\ \A c \in Clicks : click[c].kind # "apply" \/ click[c].at = "done"
       [] kind = "switch" -> TRUE
       [] OTHER -> shown # "running"

Turn(c) == click[c].at = "idle" /\ \A d \in 1 .. (c - 1) : click[d].at # "idle"

\* A click; a switch of the running model asks first.
Click(c) ==
  \E kind \in Kinds \ {"unload"} :
    /\ ~AutoDue /\ Turn(c) /\ Offered(kind)
    /\ click' = [click EXCEPT ![c] = [Rest EXCEPT !.kind = kind, !.seen = shown,
         !.todo = Steps(kind, shown),
         !.at = IF kind = "switch" /\ shown = "running" THEN "asks" ELSE "ready"]]
    /\ UNCHANGED <<store, call, server>>

Over == [Rest EXCEPT !.at = "done"]

Confirm(c) ==
  /\ ~AutoDue /\ click[c].at = "asks"
  /\ \E yes \in BOOLEAN :
       click' = [click EXCEPT ![c] = IF yes THEN [@ EXCEPT !.at = "ready"] ELSE Over]
  /\ UNCHANGED <<store, call, server>>

AutoStart(c) ==
  /\ AutoDue /\ Turn(c)
  /\ auto' = [auto EXCEPT !.used = TRUE]
  /\ click' = [click EXCEPT ![c] = [Rest EXCEPT !.kind = "start", !.seen = shown,
                                      !.todo = <<"start">>, !.at = "ready"]]
  /\ UNCHANGED <<status, flags, poll, visible, revision, call, server>>

Next1(c, op) == click[c].at = "ready" /\ click[c].todo # <<>> /\ Head(click[c].todo) = op
Pop(c) == [click[c] EXCEPT !.todo = Tail(@)]

\* start and stop return at once when the captured status says so.
Moot(c, op) ==
  inFlight \/ click[c].seen \in IF op = "start" THEN {"running", "starting"}
                                              ELSE {"stopped", "stopping"}

Skips(c) ==
  /\ \E op \in {"start", "stop"} : Next1(c, op) /\ Moot(c, op)
  /\ click' = [click EXCEPT ![c] = Pop(c)]
  /\ UNCHANGED <<store, call, server>>

Begins(c, op) ==
  /\ Next1(c, op)
  /\ busy' = TRUE /\ inFlight' = TRUE /\ gen' = gen + 1
  /\ shown' = (IF op = "start" THEN "starting" ELSE "stopping") /\ source' = "store"
  /\ call' = [call EXCEPT ![c] = [op |-> op, at |-> "sent"]]
  /\ click' = [click EXCEPT ![c] = [Pop(c) EXCEPT !.at = "awaits",
                                                    !.did = @ \cup {op}]]
  /\ poll' = [poll EXCEPT !.fresh = poll.at # "read"]
  /\ UNCHANGED <<visible, revision, auto, server>>

\* Mutant: only the status of the render keeps two operations apart.
StartOrStop_ByStatus(c) ==
  \E op \in {"start", "stop"} : (inFlight \/ ~Moot(c, op)) /\ Begins(c, op)

StartOrStop(c) == \E op \in {"start", "stop"} : ~Moot(c, op) /\ Begins(c, op)

Saves(c) ==
  /\ Next1(c, "save")
  /\ \E ok \in BOOLEAN :
       click' = [click EXCEPT ![c] = IF ok THEN Pop(c) ELSE Over]
  /\ revision' = (IF revision = 0 THEN 0 ELSE 2)
  /\ UNCHANGED <<status, flags, poll, visible, auto, call, server>>

\* Mutant: a failed command leaves operationInFlight set.
Settle_KeepsFlag(c, ok) ==
  /\ click[c].at = "awaits"
  /\ shown' = (IF ~ok THEN "failed" ELSE IF call[c].op = "stop" THEN "stopped" ELSE shown)
  /\ source' = "store"
  /\ inFlight' = ~ok
  /\ poll' = IF ok /\ poll = NoPoll /\ visible
             THEN [NoPoll EXCEPT !.at = "sent", !.gen = gen, !.owner = c] ELSE poll
  /\ click' = [click EXCEPT ![c].at = "refreshes", ![c].ok = ok]
  /\ call' = [call EXCEPT ![c] = IF @.at \in {"ok", "error"} THEN NoCall ELSE @]
  /\ UNCHANGED <<busy, gen, visible, revision, auto, server>>

\* The awaited command settles or times out; finally refreshes unless a poll is under way.
Settle(c, ok) ==
  /\ click[c].at = "awaits"
  /\ shown' = (IF ~ok THEN "failed" ELSE IF call[c].op = "stop" THEN "stopped" ELSE shown)
  /\ source' = "store"
  /\ inFlight' = FALSE
  /\ poll' = IF poll = NoPoll /\ visible
             THEN [NoPoll EXCEPT !.at = "sent", !.gen = gen, !.owner = c] ELSE poll
  /\ click' = [click EXCEPT ![c].at = "refreshes", ![c].ok = ok]
  /\ call' = [call EXCEPT ![c] = IF @.at \in {"ok", "error"} THEN NoCall ELSE @]
  /\ UNCHANGED <<busy, gen, visible, revision, auto, server>>

Returns(c) ==
  \E ok \in BOOLEAN :
    /\ click[c].at = "awaits" /\ call[c].at = (IF ok THEN "ok" ELSE "error")
    /\ Settle(c, ok)
TimesOut(c) ==
  click[c].at = "awaits" /\ call[c].at \in {"sent", "works"} /\ Settle(c, FALSE)

Refreshed(c) ==
  /\ click[c].at = "refreshes" /\ poll.owner # c
  /\ busy' = FALSE
  /\ click' = [click EXCEPT ![c] = IF click[c].ok THEN [@ EXCEPT !.at = "ready"] ELSE Over]
  /\ UNCHANGED <<status, inFlight, gen, poll, visible, revision, auto, call, server>>

Finish(c) ==
  /\ click[c].at = "ready" /\ click[c].todo = <<>>
  /\ click' = [click EXCEPT ![c] = Over]
  /\ UNCHANGED <<store, call, server>>

Handler(c) ==
  AutoStart(c) \/ Skips(c) \/ StartOrStop(c) \/ Saves(c) \/ Refreshed(c) \/ Finish(c)
  \/ Returns(c) \/ TimesOut(c)

-----------------------------------------------------------------------------
\* The back end: one command at a time (AppState.operation).

Free == \A c \in Clicks : call[c].at # "works"

\* Mutant: the result is dropped although the handler awaits it.
Done_Forgets(c, ok) == call' = [call EXCEPT ![c] = NoCall]

\* A command is over; nobody looks at the result when the handler timed out.
Done(c, ok) ==
  call' = [call EXCEPT ![c] = IF click[c].at # "awaits" THEN NoCall
                              ELSE [@ EXCEPT !.at = IF ok THEN "ok" ELSE "error"]]

Takes(c) ==
  /\ call[c].at = "sent" /\ Free
  /\ \/ call[c].op = "start" /\ server' = "starting" /\ call' = [call EXCEPT ![c].at = "works"]
     \/ call[c].op = "start" /\ Done(c, FALSE) /\ UNCHANGED server
     \/ call[c].op = "stop" /\ server' = "stopped" /\ Done(c, TRUE)
  /\ UNCHANGED <<store, click>>

Ends(c) ==
  /\ call[c].at = "works"
  /\ \E ok \in BOOLEAN : server' = (IF ok THEN "running" ELSE "failed") /\ Done(c, ok)
  /\ UNCHANGED <<store, click>>

Dies ==
  /\ server = "running" /\ server' = "crashed"
  /\ UNCHANGED <<store, click, call>>

\* unload_model from Models, or the idle watchdog: the store is not told.
Unload ==
  /\ "unload" \in Kinds /\ server = "running" /\ Free /\ server' = "stopped"
  /\ UNCHANGED <<store, click, call>>

Next ==
  \/ LoadConfig \/ SetAutoStart
  \/ PollTick \/ PollReads \/ PollAnswers \/ PollFails \/ Hide
  \/ \E c \in Clicks : Click(c) \/ Confirm(c) \/ Handler(c) \/ Takes(c) \/ Ends(c)
  \/ Dies \/ Unload

Spec == Init /\ [][Next]_vars

\* Timers fire, server_status answers now and then, awaited commands settle or time out, and
\* the back end's lock is fair.
Fairness ==
  /\ WF_vars(PollTick) /\ WF_vars(PollReads) /\ SF_vars(PollAnswers)
  /\ \A c \in Clicks : WF_vars(Handler(c)) /\ WF_vars(Takes(c) \/ Ends(c))
FairSpec == Spec /\ Fairness

-----------------------------------------------------------------------------
\* refreshStatus drops what is stale: a status taken from a poll is never one
\* the back end gave before the last start or stop was called.
NoStaleStatus == source # "stale poll"

\* operationInFlight: no two lifecycle commands are awaited at the same time,
\* also when a dialog or a captured store lets a handler past the busy buttons.
OneOperation ==
  \A c, d \in Clicks : click[c].at = "awaits" /\ click[d].at = "awaits" => c = d

\* What the window shows and does follows the back end: answers in the order of
\* the commands, and one command at a time.
FollowsBackEnd == NoStaleStatus /\ OneOperation

\* The store comes to rest: while the window stays visible, the status shown is
\* in the end the server's, no button stays blocked, and whoever awaits a
\* command is served, whatever timed out, failed or was dropped on the way.
ComesToRest == <>[]visible => <>[](shown = server /\ ~busy /\ ~inFlight)

\* "Applied: ngl={ngl} . ctx={ctx}." (uiI18n.ts): an apply that reports success
\* has started the server again.
AppliedMeansRestarted ==
  [][\A c \in Clicks : click[c].kind = "apply" /\ Finish(c) => "start" \in click[c].did]_vars
===============================================================================
