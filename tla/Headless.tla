-------------------------------- MODULE Headless --------------------------------
(***************************************************************************)
(* llama-board-cli (src-tauri/src/bin/llama-board-cli.rs): every command is *)
(* a process of its own.  They share three files, the lock                  *)
(* headless-state.lock, the state headless-state.json and the port in       *)
(* config.json, and the llama-servers they launch outlive them.             *)
(*                                                                          *)
(* One action is one file operation, or one look at another process.  A     *)
(* command that is killed leaves its lock file, and its server, behind.     *)
(*                                                                          *)
(* Process ids are not reused, and a command is over before its lock file   *)
(* is fifteen minutes old (STALE_LOCK_SECONDS).                             *)
(***************************************************************************)
EXTENDS Naturals, FiniteSets, TLC

CONSTANTS
  Procs,       \* command invocations of one behaviour, each a new process
  NoProc,      \* there is no lock file
  Commands,    \* the commands they run, among AllCommands
  Ports,       \* values the port setting takes
  MaxServers,  \* bound: llama-servers launched
  MaxCrashes   \* bound: commands killed half way

AllCommands == {"start", "stop", "restart", "set port", "status"}

ASSUME ProcsAssumption == NoProc \notin Procs
ASSUME CommandsAssumption == Commands \subseteq AllCommands
ASSUME BoundsAssumption == MaxServers \in Nat /\ MaxCrashes \in Nat

VARIABLES
  lock,          \* creator of the lock file
  lock_written,  \* its process id is in the file
  state,         \* headless-state.json: the server (0: no file) and its port
  port,          \* config.json
  alive,         \* llama-servers running and not told to end
  bound,         \* the port each server was launched on
  launches,
  crashes,
  pc,
  command,
  hand,          \* server a command launched, or read from the state file
  looked,        \* creator of the lock file a command has looked at
  mishaps        \* what has gone wrong so far, of Mishaps

vars == <<lock, lock_written, state, port, alive, bound, launches, crashes, pc,
          command, hand, looked, mishaps>>

\* A recovery removed another lock file than it had looked at; a status poll removed
\* the state of a server that runs; a start could neither record its server nor end
\* it; a command was killed between launching a server and recording it.
Mishaps == {"lock", "status", "start", "kill"}

Servers == 1..MaxServers
NoState == [server |-> 0, port |-> CHOOSE p \in Ports : TRUE]

LockedPcs == {"looking", "spawning", "waiting", "recording", "stopping", "setting",
              "removing", "finishing"}
Pcs == LockedPcs \cup {"new", "acquiring", "judging lock", "retrying", "writing",
                       "judging", "done", "crashed"}
Ended == {"done", "crashed"}

Init ==
  /\ lock = NoProc
  /\ lock_written = FALSE
  /\ state = NoState
  /\ port \in Ports
  /\ alive = {}
  /\ bound = [s \in Servers |-> port]
  /\ launches = 0
  /\ crashes = 0
  /\ pc = [p \in Procs |-> "new"]
  /\ command \in [Procs -> Commands]
  /\ hand = [p \in Procs |-> 0]
  /\ looked = [p \in Procs |-> NoProc]
  /\ mishaps = {}

Goto(p, l) == pc' = [pc EXCEPT ![p] = l]

\* state_process_is_managed: the process of the state file still runs.
Managed(s) == s \in alive

\* validate_state_url: the server was launched on the port that is set now.
ValidUrl(launch_port) == launch_port = port

-------------------------------------------------------------------------------
(* acquire_command_lock and CommandLock::drop *)

\* status reads the state file without the lock.
Begin(p) ==
  /\ pc[p] = "new"
  /\ IF command[p] = "status"
       THEN /\ hand' = [hand EXCEPT ![p] = state.server]
            /\ Goto(p, IF state.server = 0 THEN "done" ELSE "judging")
       ELSE Goto(p, "acquiring") /\ UNCHANGED hand
  /\ UNCHANGED <<lock, lock_written, state, port, alive, bound, launches, crashes, command, looked, mishaps>>

\* create_new on the lock file.
Create(p) ==
  /\ pc[p] \in {"acquiring", "retrying"}
  /\ lock = NoProc
  /\ lock' = p
  /\ lock_written' = FALSE
  /\ Goto(p, "writing")
  /\ UNCHANGED <<state, port, alive, bound, launches, crashes, command, hand, looked, mishaps>>

\* The process id goes into the file that was created, even if it is gone by now.
WritePid(p) ==
  /\ pc[p] = "writing"
  /\ lock_written' = (lock_written \/ lock = p)
  /\ Goto(p, CASE command[p] \in {"stop", "restart"} -> "stopping"
               [] command[p] = "start" -> "looking"
               [] OTHER -> "setting")
  /\ UNCHANGED <<lock, state, port, alive, bound, launches, crashes, command, hand, looked, mishaps>>

\* Mutant: any lock file is taken for a stale one.
Judged_Always(p) == TRUE

\* stale: the process that wrote the file has ended.  Once it has, it stays so, and
\* the look at it may as well come with the step that it leads to.
Judged(p) == pc[looked[p]] \in Ended

\* The lock exists, and the process id in it is read; without one, its age.
FindLock(p) ==
  /\ pc[p] = "acquiring"
  /\ lock # NoProc /\ (lock_written \/ pc[lock] \in Ended)
  /\ looked' = [looked EXCEPT ![p] = lock]
  /\ Goto(p, "judging lock")
  /\ UNCHANGED <<lock, lock_written, state, port, alive, bound, launches, crashes,
                 command, hand, mishaps>>

\* "another headless command is already running", or the stale file is gone.
Refused(p) ==
  /\ \/ pc[p] = "acquiring" /\ lock # NoProc /\ ~lock_written
     \/ pc[p] = "judging lock" /\ (~Judged(p) \/ lock = NoProc)
     \/ pc[p] = "retrying" /\ lock # NoProc
  /\ Goto(p, "done")
  /\ UNCHANGED <<lock, lock_written, state, port, alive, bound, launches, crashes,
                 command, hand, looked, mishaps>>

\* remove_file on the path, whichever lock file is there by now.
Recover(p) ==
  /\ pc[p] = "judging lock"
  /\ Judged(p) /\ lock # NoProc
  /\ lock' = NoProc
  /\ lock_written' = FALSE
  /\ mishaps' = IF lock # looked[p] THEN mishaps \cup {"lock"} ELSE mishaps
  /\ Goto(p, "retrying")
  /\ UNCHANGED <<state, port, alive, bound, launches, crashes, command, hand, looked>>

\* CommandLock::drop removes the path as well.
Finish(p) ==
  /\ pc[p] = "finishing"
  /\ lock' = NoProc
  /\ lock_written' = FALSE
  /\ Goto(p, "done")
  /\ UNCHANGED <<state, port, alive, bound, launches, crashes, command, hand, looked, mishaps>>

-------------------------------------------------------------------------------
(* server_start_unlocked *)

\* A server that the state file tracks is running.
AlreadyRunning(p) ==
  /\ pc[p] = "looking"
  /\ Managed(state.server)
  /\ Goto(p, "finishing")
  /\ UNCHANGED <<lock, lock_written, state, port, alive, bound, launches, crashes,
                 command, hand, looked, mishaps>>

StartLooks(p) ==
  /\ pc[p] = "looking"
  /\ ~Managed(state.server)
  /\ state' = NoState
  /\ Goto(p, "spawning")
  /\ UNCHANGED <<lock, lock_written, port, alive, bound, launches, crashes, command, hand, looked, mishaps>>

Spawn(p) ==
  /\ pc[p] = "spawning"
  /\ launches < MaxServers
  /\ launches' = launches + 1
  /\ hand' = [hand EXCEPT ![p] = launches + 1]
  /\ alive' = alive \cup {launches + 1}
  /\ bound' = [bound EXCEPT ![launches + 1] = port]
  /\ Goto(p, "waiting")
  /\ UNCHANGED <<lock, lock_written, state, port, crashes, command, looked, mishaps>>

\* The configuration is not valid, or the executable cannot be launched.
SpawnFails(p) ==
  /\ pc[p] = "spawning"
  /\ Goto(p, "finishing")
  /\ UNCHANGED <<lock, lock_written, state, port, alive, bound, launches, crashes,
                 command, hand, looked, mishaps>>

\* wait_ready: the child answers, and it is the one listening on the port.
Ready(p) ==
  /\ pc[p] = "waiting"
  /\ hand[p] \in alive
  /\ \A s \in alive \ {hand[p]} : bound[s] # bound[hand[p]]
  /\ Goto(p, "recording")
  /\ UNCHANGED <<lock, lock_written, state, port, alive, bound, launches, crashes,
                 command, hand, looked, mishaps>>

\* Mutant: a server that does not become ready is left running.
StartFails_NoKill(p) ==
  /\ pc[p] \in {"waiting", "recording"}
  /\ Goto(p, "finishing")
  /\ UNCHANGED <<lock, lock_written, state, port, alive, bound, launches, crashes,
                 command, hand, looked, mishaps>>

\* write_state fails, and so does terminate_pid, which nobody looks at.
StartLeaves(p) ==
  /\ pc[p] = "recording"
  /\ mishaps' = IF hand[p] \in alive THEN mishaps \cup {"start"} ELSE mishaps
  /\ Goto(p, "finishing")
  /\ UNCHANGED <<lock, lock_written, state, port, alive, bound, launches, crashes,
                 command, hand, looked>>

\* wait_ready or write_state fails: the server is ended.
StartFails(p) ==
  /\ pc[p] \in {"waiting", "recording"}
  /\ alive' = alive \ {hand[p]}
  /\ Goto(p, "finishing")
  /\ UNCHANGED <<lock, lock_written, state, port, bound, launches, crashes, command, hand, looked, mishaps>>

\* write_state: a temporary file renamed over the old state.
Record(p) ==
  /\ pc[p] = "recording"
  /\ state' = [server |-> hand[p], port |-> bound[hand[p]]]
  /\ Goto(p, "finishing")
  /\ UNCHANGED <<lock, lock_written, port, alive, bound, launches, crashes, command, hand, looked, mishaps>>

-------------------------------------------------------------------------------
(* server_stop_unlocked; restart goes on to server_start_unlocked *)

AfterStop(p) == IF command[p] = "restart" THEN "looking" ELSE "finishing"

NothingToStop(p) ==
  /\ pc[p] = "stopping"
  /\ state.server = 0
  /\ Goto(p, AfterStop(p))
  /\ UNCHANGED <<lock, lock_written, state, port, alive, bound, launches, crashes,
                 command, hand, looked, mishaps>>

\* Mutant: the error path returns without dropping the lock.
StopFails_KeepsLock(p) ==
  /\ pc[p] = "stopping"
  /\ state.server # 0
  /\ ~ValidUrl(state.port) \/ Managed(state.server)
  /\ Goto(p, "done")
  /\ UNCHANGED <<lock, lock_written, state, port, alive, bound, launches, crashes,
                 command, hand, looked, mishaps>>

\* The port setting is not the one the server was launched with, or its process
\* cannot be ended: nothing is changed, and restart does not go on.
StopFails(p) ==
  /\ pc[p] = "stopping"
  /\ state.server # 0
  /\ ~ValidUrl(state.port) \/ Managed(state.server)
  /\ Goto(p, "finishing")
  /\ UNCHANGED <<lock, lock_written, state, port, alive, bound, launches, crashes,
                 command, hand, looked, mishaps>>

Stop(p) ==
  /\ pc[p] = "stopping"
  /\ state.server # 0
  /\ ValidUrl(state.port)
  /\ alive' = alive \ {state.server}
  /\ Goto(p, "removing")
  /\ UNCHANGED <<lock, lock_written, state, port, bound, launches, crashes, command, hand, looked, mishaps>>

RemoveState(p) ==
  /\ pc[p] = "removing"
  /\ state' = NoState
  /\ Goto(p, AfterStop(p))
  /\ UNCHANGED <<lock, lock_written, port, alive, bound, launches, crashes, command, hand, looked, mishaps>>

-------------------------------------------------------------------------------
(* config_set_value for the port; server_status *)

\* Mutant: the port is saved without being normalized (0 stands for "not set").
SetPort_Raw(p) ==
  /\ pc[p] = "setting"
  /\ port' \in Ports \cup {0}
  /\ Goto(p, "finishing")
  /\ UNCHANGED <<lock, lock_written, state, alive, bound, launches, crashes, command, hand, looked, mishaps>>

SetPort(p) ==
  /\ pc[p] = "setting"
  /\ port' \in Ports
  /\ Goto(p, "finishing")
  /\ UNCHANGED <<lock, lock_written, state, alive, bound, launches, crashes, command, hand, looked, mishaps>>

\* The server that was in the state file is running on the configured port.
StatusReports(p) ==
  /\ pc[p] = "judging"
  /\ Managed(hand[p]) /\ ValidUrl(bound[hand[p]])
  /\ Goto(p, "done")
  /\ UNCHANGED <<lock, lock_written, state, port, alive, bound, launches, crashes,
                 command, hand, looked, mishaps>>

\* It is not: the state file, whatever it says by now, is removed.
StatusForgets(p) ==
  /\ pc[p] = "judging"
  /\ ~(Managed(hand[p]) /\ ValidUrl(bound[hand[p]]))
  /\ state' = NoState
  /\ mishaps' = IF state.server \in alive THEN mishaps \cup {"status"} ELSE mishaps
  /\ Goto(p, "done")
  /\ UNCHANGED <<lock, lock_written, port, alive, bound, launches, crashes, command, hand, looked>>

-------------------------------------------------------------------------------
(* The environment *)

Crash(p) ==
  /\ pc[p] \notin Ended \cup {"new"}
  /\ crashes < MaxCrashes
  /\ crashes' = crashes + 1
  /\ mishaps' = IF pc[p] \in {"waiting", "recording"} THEN mishaps \cup {"kill"} ELSE mishaps
  /\ Goto(p, "crashed")
  /\ UNCHANGED <<lock, lock_written, state, port, alive, bound, launches, command, hand, looked>>

ServerDies(s) ==
  /\ s \in alive
  /\ alive' = alive \ {s}
  /\ UNCHANGED <<lock, lock_written, state, port, bound, launches, crashes, pc,
                 command, hand, looked, mishaps>>

AllDone == (\A p \in Procs : pc[p] \in Ended) /\ UNCHANGED vars

-------------------------------------------------------------------------------

LockStep(p) ==
  Create(p) \/ WritePid(p) \/ FindLock(p) \/ Refused(p) \/ Recover(p) \/ Finish(p)

StartStep(p) ==
  \/ AlreadyRunning(p) \/ StartLooks(p) \/ Spawn(p) \/ SpawnFails(p) \/ Ready(p)
  \/ StartLeaves(p) \/ StartFails(p) \/ Record(p)

StopStep(p) == NothingToStop(p) \/ StopFails(p) \/ Stop(p) \/ RemoveState(p)

\* What a command does once it runs.
Step(p) ==
  \/ LockStep(p) \/ StartStep(p) \/ StopStep(p) \/ SetPort(p)
  \/ StatusReports(p) \/ StatusForgets(p)

Next ==
  \/ \E p \in Procs : Begin(p) \/ Step(p) \/ Crash(p)
  \/ \E s \in Servers : ServerDies(s)
  \/ AllDone

Spec == Init /\ [][Next]_vars

-------------------------------------------------------------------------------
(* Properties *)

\* Every variable stays in its domain; the state file names a launched server or
\* is not there.
TypeOK ==
  /\ lock \in Procs \cup {NoProc}
  /\ lock_written \in BOOLEAN
  /\ state \in [server : Servers \cup {0}, port : Ports]
  /\ port \in Ports
  /\ alive \subseteq Servers
  /\ bound \in [Servers -> Ports]
  /\ launches \in 0..MaxServers
  /\ crashes \in 0..MaxCrashes
  /\ pc \in [Procs -> Pcs]
  /\ command \in [Procs -> Commands]
  /\ hand \in [Procs -> Servers \cup {0}]
  /\ looked \in [Procs -> Procs \cup {NoProc}]
  /\ mishaps \subseteq Mishaps

Inside(p) == pc[p] \in LockedPcs \cup {"writing"}

\* What the error text "another headless command is already running" says: two
\* commands that change something do not run at the same time.
OneCommand == \A p, q \in Procs : Inside(p) /\ Inside(q) => p = q

\* They do so only after one of them, or a third, removed a lock file that had taken
\* the place of the stale one it looked at, however many start at the same moment
\* and are killed (acquire_command_lock reads, judges and removes in three steps).
OneCommandUnlessReplaced == "lock" \notin mishaps => OneCommand

\* A lock file without a running command behind it is the trace of a killed one:
\* every return path drops the lock, whatever was recovered or removed meanwhile.
LockHasOwner ==
  lock # NoProc => Inside(lock) \/ pc[lock] = "crashed"

\* Until a recovery removes a lock file it has not looked at, the lock admits one command
\* at a time, and at no time does it outlive a command that returned.
LockHeld == OneCommandUnlessReplaced /\ LockHasOwner

Tracked(s) ==
  \/ s = state.server
  \/ \E p \in Procs : pc[p] \in {"waiting", "recording"} /\ s = hand[p]

\* A running server that "server stop" cannot reach, or a second one, takes one of the
\* four mishaps: across any other sequence of starts, stops, restarts, status polls,
\* port changes and kills there is one at most, and it is in the state file or in
\* the hands of the command that launched it.
EveryServerTracked ==
  mishaps = {} => (\A s \in alive : Tracked(s)) /\ Cardinality(alive) <= 1

\* For TLC: no command is told from another.
ProcSymmetry == Permutations(Procs)
===============================================================================
