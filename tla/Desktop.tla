-------------------------------- MODULE Desktop --------------------------------
(***************************************************************************)
(* The Tauri back end of llama-board (src-tauri/src/lib.rs): concurrent    *)
(* command invocations, the idle watchdog, the status poll and the exit    *)
(* handler, all sharing AppState.                                          *)
(*                                                                         *)
(*   operation     the async mutex most commands hold from start to end    *)
(*   runtime_busy  the flag runtime mutations hold instead, so that a long *)
(*                 build does not block everything else                    *)
(*   server        what Mutex<ServerState> protects                        *)
(*   gateway       the registered Anthropic gateway                        *)
(*                                                                         *)
(* One action is one piece of a handler between two awaits, or between two *)
(* acquisitions of a mutex.  A launched llama-server is named by a session *)
(* number; 0 stands for None, for an empty url/key and for no session.     *)
(***************************************************************************)
EXTENDS Naturals, FiniteSets

CONSTANTS
  Calls,       \* invocations that may be in progress at the same time
  NoCall,      \* nobody holds the operation mutex
  MaxSessions  \* bound: llama-server launches in one behaviour

ASSUME CallsAssumption == NoCall \notin Calls
ASSUME SessionsAssumption == MaxSessions \in Nat

VARIABLES
  operation,    \* holder of the operation mutex
  runtime_busy,
  phase,        \* of the application: the exit handler's progress
  server,       \* ServerState: lifecycle, child, api_key, ...
  gateway,      \* session the registered gateway forwards to
  alive,        \* llama-server processes running on the machine
  key_files,    \* sessions whose temporary API key file is on disk
  launches,     \* sessions so far
  pc,           \* where each invocation is; "idle" when it is not running
  sess,         \* session an invocation has in hand
  stale_end     \* an "end" of an earlier session was counted in this one

vars == <<operation, runtime_busy, phase, server, gateway, alive, key_files,
          launches, pc, sess, stale_end>>

Sessions == 1..MaxSessions
Lifecycles == {"Stopped", "Starting", "Ready", "Stopping", "Failed", "Crashed"}
Phases == {"running", "flagged", "swept", "gone"}

LaunchedPcs == {"spawned", "waiting", "confirmed", "failed"}
StartPcs == {"validating", "launching"} \cup LaunchedPcs
ExclusivePcs == {"bench", "delete", "download"}
HoldingPcs == StartPcs \cup ExclusivePcs \cup {"stopping", "gateway_stopping", "binding"}
Pcs == HoldingPcs \cup {"idle", "chatting", "rt_wait", "rt_work"}

\* Lifecycle::blocks_resource_change
Blocks(lifecycle) == lifecycle \in {"Starting", "Ready", "Stopping"}

Exiting == phase # "running"

Init ==
  /\ operation = NoCall
  /\ runtime_busy = FALSE
  /\ phase = "running"
  /\ server = [lifecycle |-> "Stopped", child |-> 0, api_key |-> 0,
               redaction_secret |-> 0, active_requests |-> 0]
  /\ gateway = 0
  /\ alive = {}
  /\ key_files = {}
  /\ launches = 0
  /\ pc = [c \in Calls |-> "idle"]
  /\ sess = [c \in Calls |-> 0]
  /\ stale_end = FALSE

Goto(c, l) == pc' = [pc EXCEPT ![c] = l]

\* The caller waits for the mutex, then runs to its first await.
Lock(c, l) ==
  /\ pc[c] = "idle"
  /\ operation = NoCall
  /\ operation' = c
  /\ Goto(c, l)

\* The handler returns: its locals and the mutex guard are dropped.
Return(c) ==
  /\ operation' = NoCall
  /\ sess' = [sess EXCEPT ![c] = 0]
  /\ Goto(c, "idle")

\* url, api_key and redaction_secret cleared, no child.
Cleared(lifecycle) ==
  [server EXCEPT !.lifecycle = lifecycle, !.child = 0, !.api_key = 0,
                 !.redaction_secret = 0]

-------------------------------------------------------------------------------
(* start_server *)
\* Mutant: the runtime_busy test is forgotten.
StartBegin_Careless(c) ==
  /\ ~Exiting
  /\ Lock(c, "validating")
  /\ UNCHANGED <<runtime_busy, phase, server, gateway, alive, key_files,
                 launches, sess, stale_end>>

StartBegin(c) ==
  /\ ~runtime_busy
  /\ ~Exiting
  /\ Lock(c, "validating")
  /\ UNCHANGED <<runtime_busy, phase, server, gateway, alive, key_files,
                 launches, sess, stale_end>>

\* validate_launch_config or the config save fails.
StartInvalid(c) ==
  /\ pc[c] = "validating"
  /\ Return(c)
  /\ UNCHANGED <<runtime_busy, phase, server, gateway, alive, key_files,
                 launches, stale_end>>
\* Mutant: the gateway of the previous server is kept.
StartReset_KeepsGateway(c) ==
  /\ pc[c] = "validating"
  /\ Goto(c, "launching")
  /\ alive' = alive \ {server.child}
  /\ server' = Cleared("Starting")
  /\ UNCHANGED <<operation, runtime_busy, phase, gateway, key_files, launches,
                 sess, stale_end>>

\* Mutant: the previous child is forgotten, not killed.
StartReset_NoKill(c) ==
  /\ pc[c] = "validating"
  /\ Goto(c, "launching")
  /\ gateway' = 0
  /\ server' = Cleared("Starting")
  /\ UNCHANGED <<operation, runtime_busy, phase, alive, key_files, launches,
                 sess, stale_end>>

\* The gateway is aborted and whatever child there was is killed.
StartReset(c) ==
  /\ pc[c] = "validating"
  /\ Goto(c, "launching")
  /\ gateway' = 0
  /\ alive' = alive \ {server.child}
  /\ server' = Cleared("Starting")
  /\ UNCHANGED <<operation, runtime_busy, phase, key_files, launches, sess, stale_end>>

StartSpawn(c) ==
  /\ pc[c] = "launching"
  /\ launches < MaxSessions
  /\ launches' = launches + 1
  /\ sess' = [sess EXCEPT ![c] = launches + 1]
  /\ alive' = alive \cup {launches + 1}
  /\ key_files' = key_files \cup {launches + 1}
  /\ Goto(c, "spawned")
  /\ UNCHANGED <<operation, runtime_busy, phase, server, gateway, stale_end>>

StartSpawnFails(c) ==
  /\ pc[c] = "launching"
  /\ server' = [server EXCEPT !.lifecycle = IF Exiting THEN "Stopped" ELSE "Failed"]
  /\ Return(c)
  /\ UNCHANGED <<runtime_busy, phase, gateway, alive, key_files, launches,
                 stale_end>>
\* Mutant: the exit flag is not looked at again.
StartAttach_IgnoresExit(c) ==
  /\ pc[c] = "spawned"
  /\ server' = [lifecycle |-> "Starting", child |-> sess[c], api_key |-> sess[c],
                redaction_secret |-> sess[c], active_requests |-> 0]
  /\ stale_end' = FALSE
  /\ Goto(c, "waiting")
  /\ UNCHANGED <<operation, runtime_busy, phase, gateway, alive, key_files,
                 launches, sess>>

\* Mutant: the request count of the previous server is kept.
StartAttach_KeepsCount(c) ==
  /\ pc[c] = "spawned"
  /\ ~Exiting
  /\ server' = [server EXCEPT !.lifecycle = "Starting", !.child = sess[c],
                              !.api_key = sess[c], !.redaction_secret = sess[c]]
  /\ stale_end' = FALSE
  /\ Goto(c, "waiting")
  /\ UNCHANGED <<operation, runtime_busy, phase, gateway, alive, key_files,
                 launches, sess>>

StartAttach(c) ==
  /\ pc[c] = "spawned"
  /\ ~Exiting
  /\ server' = [lifecycle |-> "Starting", child |-> sess[c], api_key |-> sess[c],
                redaction_secret |-> sess[c], active_requests |-> 0]
  /\ stale_end' = FALSE
  /\ Goto(c, "waiting")
  /\ UNCHANGED <<operation, runtime_busy, phase, gateway, alive, key_files,
                 launches, sess>>
\* Mutant: the start gives up without killing what it launched.
StartSeesExit_NoKill(c) ==
  /\ pc[c] \in {"spawned", "confirmed"}
  /\ Exiting
  /\ key_files' = key_files \ {sess[c]}
  /\ server' = Cleared("Stopped")
  /\ Return(c)
  /\ UNCHANGED <<runtime_busy, phase, gateway, alive, launches, stale_end>>

\* The exit handler ran since the process was spawned, or since it was found
\* ready: the start itself kills what it launched.
StartSeesExit(c) ==
  /\ pc[c] \in {"spawned", "confirmed"}
  /\ Exiting
  /\ alive' = alive \ {IF pc[c] = "spawned" THEN sess[c] ELSE server.child}
  /\ key_files' = key_files \ {sess[c]}
  /\ server' = Cleared("Stopped")
  /\ Return(c)
  /\ UNCHANGED <<runtime_busy, phase, gateway, launches, stale_end>>

\* wait_ready returns Ok: the tracked child answers and owns the port.
WaitReady(c) ==
  /\ pc[c] = "waiting"
  /\ server.child \in alive
  /\ Goto(c, "confirmed")
  /\ UNCHANGED <<operation, runtime_busy, phase, server, gateway, alive,
                 key_files, launches, sess, stale_end>>
\* Mutant: a child that is no longer tracked is waited for without a deadline.
WaitFails_OnlyTracked(c) ==
  /\ pc[c] = "waiting"
  /\ server.child # 0
  /\ alive' = alive \ {server.child}
  /\ server' = [server EXCEPT !.child = 0]
  /\ Goto(c, "failed")
  /\ UNCHANGED <<operation, runtime_busy, phase, gateway, key_files, launches,
                 sess, stale_end>>

\* wait_ready returns Err: the child exited, is no longer tracked, or the
\* deadline passed.
WaitFails(c) ==
  /\ pc[c] = "waiting"
  /\ alive' = alive \ {server.child}
  /\ server' = [server EXCEPT !.child = 0]
  /\ Goto(c, "failed")
  /\ UNCHANGED <<operation, runtime_busy, phase, gateway, key_files, launches,
                 sess, stale_end>>
\* Mutant: the exit flag is not looked at again.
StartReady_IgnoresExit(c) ==
  /\ pc[c] = "confirmed"
  /\ server' = [server EXCEPT !.lifecycle = "Ready"]
  /\ key_files' = key_files \ {sess[c]}
  /\ Return(c)
  /\ UNCHANGED <<runtime_busy, phase, gateway, alive, launches, stale_end>>

StartReady(c) ==
  /\ pc[c] = "confirmed"
  /\ ~Exiting
  /\ server' = [server EXCEPT !.lifecycle = "Ready"]
  /\ key_files' = key_files \ {sess[c]}
  /\ Return(c)
  /\ UNCHANGED <<runtime_busy, phase, gateway, alive, launches, stale_end>>
\* Mutant: the key file is left behind on the error path.
StartFails_KeepsKeyFile(c) ==
  /\ pc[c] = "failed"
  /\ alive' = alive \ {server.child}
  /\ server' = [server EXCEPT !.lifecycle = IF Exiting THEN "Stopped" ELSE "Failed",
                              !.child = 0, !.api_key = 0]
  /\ Return(c)
  /\ UNCHANGED <<runtime_busy, phase, gateway, key_files, launches, stale_end>>

StartFails(c) ==
  /\ pc[c] = "failed"
  /\ alive' = alive \ {server.child}
  /\ server' = [server EXCEPT !.lifecycle = IF Exiting THEN "Stopped" ELSE "Failed",
                              !.child = 0, !.api_key = 0]
  /\ key_files' = key_files \ {sess[c]}
  /\ Return(c)
  /\ UNCHANGED <<runtime_busy, phase, gateway, launches, stale_end>>

-------------------------------------------------------------------------------
(* stop_server (unload_model is the same call) *)

\* Takes the gateway out and awaits its accept loop.
StopTake(c) ==
  /\ Lock(c, "stopping")
  /\ gateway' = 0
  /\ UNCHANGED <<runtime_busy, phase, server, alive, key_files, launches, sess, stale_end>>

StopKill(c) ==
  /\ pc[c] = "stopping"
  /\ alive' = alive \ {server.child}
  /\ server' = [Cleared("Stopped") EXCEPT !.active_requests = 0]
  /\ stale_end' = FALSE
  /\ Return(c)
  /\ UNCHANGED <<runtime_busy, phase, gateway, key_files, launches>>

-------------------------------------------------------------------------------
(* start_anthropic_gateway, stop_anthropic_gateway *)

GatewayTake(c) ==
  /\ Lock(c, "gateway_stopping")
  /\ gateway' = 0
  /\ UNCHANGED <<runtime_busy, phase, server, alive, key_files, launches, sess, stale_end>>

\* Copies the url and the key, then awaits the bind.
GatewayRead(c) ==
  /\ pc[c] = "gateway_stopping"
  /\ server.lifecycle = "Ready"
  /\ server.api_key # 0
  /\ sess' = [sess EXCEPT ![c] = server.api_key]
  /\ Goto(c, "binding")
  /\ UNCHANGED <<operation, runtime_busy, phase, server, gateway, alive,
                 key_files, launches, stale_end>>

\* The server is not ready, or the port cannot be bound.
GatewayRefused(c) ==
  /\ \/ pc[c] = "gateway_stopping" /\ (server.lifecycle # "Ready" \/ server.api_key = 0)
     \/ pc[c] = "binding"
  /\ Return(c)
  /\ UNCHANGED <<runtime_busy, phase, server, gateway, alive, key_files,
                 launches, stale_end>>

GatewayBound(c) ==
  /\ pc[c] = "binding"
  /\ gateway' = sess[c]
  /\ Return(c)
  /\ UNCHANGED <<runtime_busy, phase, server, alive, key_files, launches,
                 stale_end>>

\* Nothing follows the awaited stop, so the whole command is one step.
GatewayStop(c) ==
  /\ pc[c] = "idle"
  /\ operation = NoCall
  /\ gateway' = 0
  /\ UNCHANGED <<operation, runtime_busy, phase, server, alive, key_files,
                 launches, pc, sess, stale_end>>

-------------------------------------------------------------------------------
(* server_activity: a chat request brackets its stream with start and end. *)
(* There is no await after the mutex is taken.                             *)

ActivityStart(c) ==
  /\ pc[c] = "idle"
  /\ operation = NoCall
  /\ server.lifecycle = "Ready"
  /\ server' = [server EXCEPT !.active_requests = @ + 1]
  /\ sess' = [sess EXCEPT ![c] = server.child]
  /\ Goto(c, "chatting")
  /\ UNCHANGED <<operation, runtime_busy, phase, gateway, alive, key_files,
                 launches, stale_end>>
\* Mutant: the count is not saturated at zero.
ActivityEnd_Wraps(c) ==
  /\ pc[c] = "chatting"
  /\ operation = NoCall
  /\ server.lifecycle = "Ready"
  /\ server' = [server EXCEPT !.active_requests = @ - 1]
  /\ stale_end' = (stale_end \/ sess[c] # server.child)
  /\ sess' = [sess EXCEPT ![c] = 0]
  /\ Goto(c, "idle")
  /\ UNCHANGED <<operation, runtime_busy, phase, gateway, alive, key_files,
                 launches>>

\* The call names no session: whichever server is ready gets the decrement.
ActivityEnd(c) ==
  /\ pc[c] = "chatting"
  /\ operation = NoCall
  /\ server.lifecycle = "Ready"
  /\ server' = [server EXCEPT !.active_requests = IF @ = 0 THEN 0 ELSE @ - 1]
  /\ stale_end' = (stale_end \/ sess[c] # server.child)
  /\ sess' = [sess EXCEPT ![c] = 0]
  /\ Goto(c, "idle")
  /\ UNCHANGED <<operation, runtime_busy, phase, gateway, alive, key_files,
                 launches>>

\* "server is not ready for activity tracking": the caller ignores it.
ActivityEndRefused(c) ==
  /\ pc[c] = "chatting"
  /\ operation = NoCall
  /\ server.lifecycle # "Ready"
  /\ sess' = [sess EXCEPT ![c] = 0]
  /\ Goto(c, "idle")
  /\ UNCHANGED <<operation, runtime_busy, phase, server, gateway, alive,
                 key_files, launches, stale_end>>
\* Mutant: requests in flight are not looked at.
IdleUnload_Hasty ==
  /\ operation = NoCall
  /\ server.lifecycle = "Ready"
  /\ gateway = 0
  /\ alive' = alive \ {server.child}
  /\ server' = [Cleared("Stopped") EXCEPT !.active_requests = 0]
  /\ stale_end' = FALSE
  /\ UNCHANGED <<operation, runtime_busy, phase, gateway, key_files, launches, pc, sess>>

\* unload_idle_server, every five seconds; the idle time and the configured
\* limit are left to chance.  The watchdog looks at the exit flag before it
\* waits for the mutex, so it may still come here after the flag is set.
IdleUnload ==
  /\ operation = NoCall
  /\ server.lifecycle = "Ready"
  /\ gateway = 0
  /\ server.active_requests = 0
  /\ alive' = alive \ {server.child}
  /\ server' = [Cleared("Stopped") EXCEPT !.active_requests = 0]
  /\ stale_end' = FALSE
  /\ UNCHANGED <<operation, runtime_busy, phase, gateway, key_files, launches, pc, sess>>

-------------------------------------------------------------------------------
(* run_bench, delete_model and hf_download_model hold the mutex throughout *)

ExclusiveBegin(c, k) ==
  /\ k # "download" => ~Blocks(server.lifecycle)
  /\ Lock(c, k)
  /\ UNCHANGED <<runtime_busy, phase, server, gateway, alive, key_files,
                 launches, sess, stale_end>>

ExclusiveEnd(c) ==
  /\ pc[c] \in ExclusivePcs
  /\ Return(c)
  /\ UNCHANGED <<runtime_busy, phase, server, gateway, alive, key_files,
                 launches, stale_end>>

-------------------------------------------------------------------------------
(* rt_install, rt_install_pr, rt_export, rt_import, rt_uninstall, rt_select *)
\* Mutant: the flag is set without being tested.
RuntimeAcquire_Store(c) ==
  /\ pc[c] = "idle"
  /\ runtime_busy' = TRUE
  /\ Goto(c, "rt_wait")
  /\ UNCHANGED <<operation, phase, server, gateway, alive, key_files, launches,
                 sess, stale_end>>

\* RuntimeBusyGuard::acquire, before the operation mutex is asked for.
RuntimeAcquire(c) ==
  /\ pc[c] = "idle"
  /\ ~runtime_busy
  /\ runtime_busy' = TRUE
  /\ Goto(c, "rt_wait")
  /\ UNCHANGED <<operation, phase, server, gateway, alive, key_files, launches,
                 sess, stale_end>>
\* Mutant: the lifecycle is looked at without the operation mutex.
RuntimeCheck_NoMutex(c) ==
  /\ pc[c] = "rt_wait"
  /\ ~Blocks(server.lifecycle)
  /\ Goto(c, "rt_work")
  /\ UNCHANGED <<operation, runtime_busy, phase, server, gateway, alive,
                 key_files, launches, sess, stale_end>>

\* The mutex is held only to look at the lifecycle.
RuntimeCheck(c) ==
  /\ pc[c] = "rt_wait"
  /\ operation = NoCall
  /\ ~Blocks(server.lifecycle)
  /\ Goto(c, "rt_work")
  /\ UNCHANGED <<operation, runtime_busy, phase, server, gateway, alive,
                 key_files, launches, sess, stale_end>>

RuntimeRefused(c) ==
  /\ pc[c] = "rt_wait"
  /\ operation = NoCall
  /\ Blocks(server.lifecycle)
  /\ runtime_busy' = FALSE
  /\ Goto(c, "idle")
  /\ UNCHANGED <<operation, phase, server, gateway, alive, key_files, launches,
                 sess, stale_end>>

RuntimeDone(c) ==
  /\ pc[c] = "rt_work"
  /\ runtime_busy' = FALSE
  /\ Goto(c, "idle")
  /\ UNCHANGED <<operation, phase, server, gateway, alive, key_files, launches,
                 sess, stale_end>>

-------------------------------------------------------------------------------
(* server_status: the only place that notices a server that died; no mutex *)
(* but the server's.                                                        *)
\* Mutant: a child that cannot be inspected is left running.
MarkCrashed_NoKill ==
  /\ server.lifecycle = "Ready"
  /\ server' = Cleared("Crashed")
  /\ gateway' = 0
  /\ UNCHANGED <<operation, runtime_busy, phase, alive, key_files, launches, pc,
                 sess, stale_end>>

MarkCrashed ==
  /\ server.lifecycle = "Ready"
  /\ alive' = alive \ {server.child}
  /\ server' = Cleared("Crashed")
  /\ gateway' = 0
  /\ UNCHANGED <<operation, runtime_busy, phase, key_files, launches, pc, sess, stale_end>>

StatusFindsExited == server.child \notin alive /\ MarkCrashed

\* try_wait fails: the child is killed.
StatusCannotInspect == server.child \in alive /\ MarkCrashed

\* A gateway registered after the crash was noticed goes at the next poll.
StatusStillCrashed ==
  /\ server.lifecycle = "Crashed"
  /\ gateway' = 0
  /\ UNCHANGED <<operation, runtime_busy, phase, server, alive, key_files,
                 launches, pc, sess, stale_end>>

-------------------------------------------------------------------------------
(* A llama-server may end at any time; RunEvent::Exit, then the process end *)

ServerDies(s) ==
  /\ s \in alive
  /\ alive' = alive \ {s}
  /\ UNCHANGED <<operation, runtime_busy, phase, server, gateway, key_files,
                 launches, pc, sess, stale_end>>

ExitFlag ==
  /\ phase = "running"
  /\ phase' = "flagged"
  /\ UNCHANGED <<operation, runtime_busy, server, gateway, alive, key_files,
                 launches, pc, sess, stale_end>>

ExitSweep ==
  /\ phase = "flagged"
  /\ phase' = "swept"
  /\ gateway' = 0
  /\ alive' = alive \ {server.child}
  /\ server' = Cleared("Stopped")
  /\ UNCHANGED <<operation, runtime_busy, key_files, launches, pc, sess, stale_end>>

\* Futures that have not finished are dropped where they stand.
ProcessEnds ==
  /\ phase = "swept"
  /\ phase' = "gone"
  /\ UNCHANGED <<operation, runtime_busy, server, gateway, alive, key_files,
                 launches, pc, sess, stale_end>>

Gone == phase = "gone" /\ UNCHANGED vars

-------------------------------------------------------------------------------

StartStep(c) ==
  \/ StartInvalid(c) \/ StartReset(c) \/ StartSpawn(c) \/ StartSpawnFails(c)
  \/ StartAttach(c) \/ StartSeesExit(c) \/ WaitReady(c) \/ WaitFails(c)
  \/ StartReady(c) \/ StartFails(c)

GatewayStep(c) == GatewayRead(c) \/ GatewayRefused(c) \/ GatewayBound(c)

\* What a handler that holds the operation mutex does next.
HolderStep(c) == StartStep(c) \/ StopKill(c) \/ GatewayStep(c) \/ ExclusiveEnd(c)
\* Mutant: a mutation waits for the server to stop instead of refusing.
RuntimeVerdict_Patient(c) == RuntimeCheck(c)

RuntimeVerdict(c) == RuntimeCheck(c) \/ RuntimeRefused(c)

CallStep(c) ==
  \/ StartBegin(c) \/ StopTake(c) \/ GatewayTake(c) \/ GatewayStop(c)
  \/ ActivityStart(c) \/ ActivityEnd(c) \/ ActivityEndRefused(c)
  \/ \E k \in ExclusivePcs : ExclusiveBegin(c, k)
  \/ HolderStep(c)
  \/ RuntimeAcquire(c) \/ RuntimeVerdict(c) \/ RuntimeDone(c)

StatusStep == StatusFindsExited \/ StatusCannotInspect \/ StatusStillCrashed

Next ==
  \/ phase # "gone" /\ \E c \in Calls : CallStep(c)
  \/ phase # "gone" /\ IdleUnload
  \/ phase # "gone" /\ StatusStep
  \/ phase # "gone" /\ \E s \in Sessions : ServerDies(s)
  \/ ExitFlag
  \/ ExitSweep
  \/ ProcessEnds
  \/ Gone

Spec == Init /\ [][Next]_vars

(* Every await of a handler that holds the mutex is bounded (probe and bench *)
(* timeouts, the 120 s readiness deadline, read timeouts of a download), and *)
(* tokio's mutex is granted in the order it was asked for.  A runtime        *)
(* mutation may sit in a file dialog for ever, so RuntimeDone is not fair.   *)
Fairness ==
  \A c \in Calls :
    /\ WF_vars(phase # "gone" /\ HolderStep(c))
    /\ SF_vars(phase # "gone" /\ RuntimeVerdict(c))

FairSpec == Spec /\ Fairness

-------------------------------------------------------------------------------
(* Properties *)

\* Every variable stays in its domain; in particular the request counter never
\* goes below zero (ServerState::end_request saturates).
TypeOK ==
  /\ operation \in Calls \cup {NoCall}
  /\ runtime_busy \in BOOLEAN
  /\ phase \in Phases
  /\ server \in [lifecycle : Lifecycles, child : Sessions \cup {0},
                 api_key : Sessions \cup {0}, redaction_secret : Sessions \cup {0},
                 active_requests : Nat]
  /\ gateway \in Sessions \cup {0}
  /\ alive \subseteq Sessions
  /\ key_files \subseteq Sessions
  /\ launches \in 0..MaxSessions
  /\ pc \in [Calls -> Pcs]
  /\ sess \in [Calls -> Sessions \cup {0}]
  /\ stale_end \in BOOLEAN

Starting(c) == pc[c] \in StartPcs
Mutating(c) == pc[c] = "rt_work"

\* While a runtime mutation works on the installed runtimes no llama-server runs
\* out of them and no start is under way, although the mutation has long let go
\* of the operation mutex (rt_install and its kin check, then release it).
RuntimeExclusive ==
  (\E c \in Calls : Mutating(c)) => alive = {} /\ \A c \in Calls : ~Starting(c)

\* Runtime mutations exclude each other: RuntimeBusyGuard is one flag for all six
\* commands, held from before the check to the end, and dropped on every path.
BusyExclusive ==
  \A c, d \in Calls :
    /\ pc[c] \in {"rt_wait", "rt_work"} => runtime_busy
    /\ {pc[c], pc[d]} \subseteq {"rt_wait", "rt_work"} => c = d

\* A benchmark, or the deletion of a model file, never runs beside a server
\* (run_bench and delete_model refuse while the lifecycle blocks).
BenchAlone ==
  (\E c \in Calls : pc[c] \in {"bench", "delete"}) => alive = {}

\* Four pairs never run at the same time, whichever of the three locks each holds and
\* whatever crashes, polls or leaves meanwhile: a runtime mutation and a server or a
\* start, two mutations, a benchmark and a server, the deletion of a model and a
\* server.  A benchmark beside a mutation is not among them: run_bench does not look
\* at runtime_busy, and does run beside one.
Exclusion == RuntimeExclusive /\ BusyExclusive /\ BenchAlone

\* However starts, stops, crashes, polls, idle unloads and the exit interleave,
\* there are never two llama-servers holding the port and the GPU memory.
OneServer == Cardinality(alive) <= 1

\* Every running llama-server is the tracked child of a server that the status
\* shows as starting or ready, or was launched by a start that has yet to attach
\* it: no path of start_server, server_status or the exit handler loses one.
NoStrayServer ==
  \A s \in alive :
    \/ s = server.child /\ server.lifecycle \in {"Starting", "Ready"}
    \/ \E c \in Calls : pc[c] = "spawned" /\ sess[c] = s

\* A start that races the exit handler does not leave a server behind: once the
\* handler has swept, only a start that has not reached its next look at the exit
\* flag can own a process (start_server looks after the spawn and after the wait).
ExitLeavesNothing ==
  phase \in {"swept", "gone"} =>
    \A s \in alive : \E c \in Calls : pc[c] = "spawned" /\ sess[c] = s

\* The temporary API key file exists only while the start that launched the server
\* is in progress, whichever way that start ends (cleanup_api_key_file on each path).
KeyFileScoped ==
  \A s \in key_files :
    \E c \in Calls : pc[c] \in LaunchedPcs /\ sess[c] = s

\* No process and no key file is ever without the call or the state that answers
\* for it, whichever of the error paths, polls and exits comes in between.
ServerOwned == OneServer /\ NoStrayServer /\ ExitLeavesNothing /\ KeyFileScoped

\* "Ready" is backed by a tracked child with its own key: the status payload
\* never hands the front end a key of another launch (server_status, start_server).
ReadyIsServed ==
  server.lifecycle = "Ready" => server.child # 0 /\ server.api_key = server.child

\* The registered gateway forwards to the current server with its current key;
\* until the exit handler has run there is none beside a stopped, starting or
\* failed server (start_server, stop_server and the watchdog drop it first).
GatewayMatchesServer ==
  gateway # 0 =>
    /\ server.lifecycle = "Ready" => gateway = server.api_key
    /\ phase \in {"running", "flagged"} => server.lifecycle \in {"Ready", "Crashed"}

InFlight == {c \in Calls : pc[c] = "chatting" /\ sess[c] = server.child}

\* While a server is ready its counter is the number of requests in flight on it,
\* whatever servers came and went before.  server_activity names no server: an
\* "end" that belongs to an earlier one makes the counter too small, never too big.
RequestsCounted ==
  server.lifecycle = "Ready" =>
    /\ server.active_requests <= Cardinality(InFlight)
    /\ ~stale_end => server.active_requests = Cardinality(InFlight)

\* What the status, the gateway and the request counter say is said of the server
\* that runs now, not of an earlier one.
ServerFollowed == ReadyIsServed /\ GatewayMatchesServer /\ RequestsCounted

UnloadSparesRequestsStep ==
  /\ server.lifecycle = "Ready"
  /\ operation = NoCall
  /\ phase' = phase
  /\ server'.lifecycle = "Stopped"
  => InFlight = {} \/ stale_end

\* The idle watchdog never takes a server away from a request in flight, unless a
\* late "end" of an earlier server was counted on this one (auto_unload_due).
UnloadSparesRequests == [][UnloadSparesRequestsStep]_vars

\* What the runtimes directory is used for, as RuntimeUse sees it.
User ==
  IF \E c \in Calls : Mutating(c) THEN "mutation"
  ELSE IF alive # {} \/ \E c \in Calls : Starting(c) THEN "server"
  ELSE "none"

Abstract == INSTANCE RuntimeUse WITH user <- User

\* The operation mutex, runtime_busy and the lifecycle together implement a plain
\* lock on the runtimes directory, passed on only when nobody uses it.
RuntimesAreLocked == Abstract!Spec

\* A start always comes to an end, crashes and the exit handler notwithstanding:
\* the operation mutex is not held for ever (120 s deadline of wait_ready).
StartReturns ==
  \A c \in Calls : Starting(c) ~> (~Starting(c) \/ phase = "gone")

\* A runtime mutation that asked for the operation mutex is let in or refused.
MutationDecided ==
  \A c \in Calls : pc[c] = "rt_wait" ~> (pc[c] # "rt_wait" \/ phase = "gone")

\* Nobody who asked for the operation mutex or holds it is forgotten.
CallsReturn == StartReturns /\ MutationDecided
===============================================================================
