------------------------------ MODULE ConfigStore ------------------------------
(***************************************************************************)
(* config.json and everyone who writes it: the front end's save queue      *)
(* (configSaveQueue.ts over store.ts), start_server, rt_select and         *)
(* rt_uninstall under config_write (lib.rs), and the loads that migrate an *)
(* old schema as well as the command line's "config set", which know       *)
(* nothing of config_write (config.rs, llama-board-cli.rs).                *)
(*                                                                         *)
(* A configuration is the active runtime and the set of edits it contains: *)
(* an edit changes one field and leaves the others alone.  A role is one   *)
(* activity; within the desktop program there is one of each at a time.    *)
(***************************************************************************)
EXTENDS Naturals, Sequences, TLC

CONSTANTS
  Edits,     \* changes of settings, each submitted once by the front end
  CliEdit,   \* the change the command line makes
  Builds,    \* installed runtimes
  NoConfig,  \* cfgRef before the first load
  Roles,     \* who takes part, among AllRoles
  OldFile    \* the file may have an older schema

AllRoles == {"load", "save", "start", "select", "uninstall", "poll", "cli"}

ASSUME RolesAssumption == Roles \subseteq AllRoles
ASSUME BuildsAssumption == Builds # {}
ASSUME EditsAssumption == CliEdit \notin Edits
ASSUME OldFileAssumption == OldFile \in BOOLEAN

VARIABLES
  file,          \* contents of config.json
  old,           \* its schema is older than CURRENT_CONFIG_VERSION
  config_write,  \* who holds the mutex across steps
  installed,     \* runtimes on disk
  view,          \* cfgRef.current of the front end
  queue,         \* edits waiting in the save queue
  pc,            \* where each role is
  hand,          \* the configuration a role works with
  previous,      \* what the queue goes back to if a save fails
  target,        \* runtime being selected or uninstalled
  accepted,      \* edits whose save was reported as done
  failed,        \* edits whose save was reported as failed
  raced          \* somebody wrote or published what was stale by then

vars == <<file, old, config_write, installed, view, queue, pc, hand, previous,
          target, accepted, failed, raced>>
front == <<view, queue, previous, accepted, failed>>

Configs == [active : Builds, edits : SUBSET (Edits \cup {CliEdit})]
Free == "nobody"
Pcs == {"idle", "reading", "migrating", "read", "called", "waiting", "saved",
        "refused", "validating", "running", "removing"}

AddEdit(cfg, e) == [cfg EXCEPT !.edits = @ \cup {e}]

Init ==
  /\ file \in [active : Builds, edits : {{}}]
  /\ old \in {FALSE, OldFile}
  /\ config_write = Free
  /\ installed = Builds
  /\ view = NoConfig
  /\ queue = <<>>
  /\ pc = [r \in AllRoles |-> IF r = "load" THEN "reading" ELSE "idle"]
  /\ hand = [r \in AllRoles |-> NoConfig]
  /\ previous = NoConfig
  /\ target = file.active
  /\ accepted = {}
  /\ failed = {}
  /\ raced = FALSE

Goto(r, l) == pc' = [pc EXCEPT ![r] = l]

\* The call returns and its locals are dropped.
Done(r) ==
  /\ pc' = [pc EXCEPT ![r] = "idle"]
  /\ hand' = [hand EXCEPT ![r] = NoConfig]

Write(cfg) == file' = cfg /\ old' = FALSE

\* Writing back what was read earlier; nobody but a holder of config_write can be
\* sure that it is still what the file holds.
WriteBack(r, cfg) == Write(cfg) /\ raced' = (raced \/ hand[r] # file)

-------------------------------------------------------------------------------
(* load_result: read the file, and write it back when its schema is old *)

Reader(r) == pc[r] = "reading" /\ hand' = [hand EXCEPT ![r] = file]

Read(r) ==
  /\ Reader(r)
  /\ Goto(r, IF old THEN "migrating" ELSE "read")
  /\ UNCHANGED <<front, file, old, config_write, installed, target, raced>>

Migrate(r) ==
  /\ pc[r] = "migrating"
  /\ WriteBack(r, hand[r])
  /\ Goto(r, "read")
  /\ UNCHANGED <<front, config_write, installed, hand, target>>

\* loadConfig, at boot and after rt_select.
LoadReturns ==
  /\ pc["load"] = "read"
  /\ view' = hand["load"]
  /\ Done("load")
  /\ UNCHANGED <<file, old, config_write, installed, queue, previous,
                 target, accepted, failed, raced>>

LoadFails ==
  /\ pc["load"] \in {"reading", "migrating"}
  /\ Done("load")
  /\ UNCHANGED <<front, file, old, config_write, installed, target, raced>>

\* Any other reader, of the desktop or of the command line: the idle watchdog,
\* "config get".  Its result is not used here.
Poll ==
  /\ "poll" \in Roles
  /\ \/ pc["poll"] = "idle" /\ Goto("poll", "reading") /\ UNCHANGED hand
     \/ pc["poll"] = "read" /\ Done("poll")
  /\ UNCHANGED <<front, file, old, config_write, installed, target, raced>>

-------------------------------------------------------------------------------
(* createConfigSaveQueue and save_config *)

\* updateConfig: behind every earlier operation.
Submit(e) ==
  /\ "save" \in Roles
  /\ e \notin accepted \cup failed
  /\ \A i \in DOMAIN queue : queue[i] # e
  /\ queue' = Append(queue, e)
  /\ UNCHANGED <<file, old, config_write, installed, view, pc, hand, previous,
                 target, accepted, failed, raced>>

\* "Configuration is still loading."
QueueTooEarly ==
  /\ pc["save"] = "idle" /\ queue # <<>> /\ view = NoConfig
  /\ queue' = Tail(queue)
  /\ failed' = failed \cup {Head(queue)}
  /\ UNCHANGED <<file, old, config_write, installed, view, pc, hand, previous,
                 target, accepted, raced>>

\* Applies the patch to cfgRef, publishes the result and calls save_config.
QueueTakes ==
  /\ pc["save"] = "idle" /\ queue # <<>> /\ view # NoConfig
  /\ previous' = view
  /\ hand' = [hand EXCEPT !["save"] = AddEdit(view, Head(queue))]
  /\ view' = AddEdit(view, Head(queue))
  /\ Goto("save", "called")
  /\ UNCHANGED <<file, old, config_write, installed, queue, target, accepted,
                 failed, raced>>

\* save_config refuses another projector while a server runs, before it waits for
\* config_write.
SaveChecks ==
  /\ pc["save"] = "called"
  /\ \/ Goto("save", "waiting")
     \/ Goto("save", "refused")
  /\ UNCHANGED <<front, file, old, config_write, installed, hand, target, raced>>

\* A start was called with the configuration before this edit, or a load has read it.
Overlap == pc["start"] \in {"called", "validating"} \/ pc["load"] \in {"migrating", "read"}

SaveCommits ==
  /\ pc["save"] = "waiting"
  /\ config_write = Free
  /\ Write(hand["save"])
  /\ Goto("save", "saved")
  /\ raced' = (raced \/ Overlap)
  /\ UNCHANGED <<front, config_write, installed, hand, target>>

\* The configuration is not valid, or the temporary file cannot be written.
SaveFails ==
  /\ pc["save"] = "waiting"
  /\ config_write = Free
  /\ Goto("save", "refused")
  /\ UNCHANGED <<front, file, old, config_write, installed, hand, target, raced>>

\* Mutant: the rollback is done whatever became of the save.
SaveReturns_RollsBack ==
  /\ pc["save"] = "saved"
  /\ view' = previous
  /\ accepted' = accepted \cup {Head(queue)}
  /\ queue' = Tail(queue)
  /\ previous' = NoConfig
  /\ Done("save")
  /\ UNCHANGED <<file, old, config_write, installed, target, failed, raced>>

SaveReturns ==
  /\ pc["save"] = "saved"
  /\ view' = hand["save"]
  /\ accepted' = accepted \cup {Head(queue)}
  /\ queue' = Tail(queue)
  /\ previous' = NoConfig
  /\ Done("save")
  /\ UNCHANGED <<file, old, config_write, installed, target,
                 failed, raced>>

\* Mutant: the optimistic value is not taken back.
SaveRejects_KeepsView ==
  /\ pc["save"] = "refused"
  /\ failed' = failed \cup {Head(queue)}
  /\ queue' = Tail(queue)
  /\ previous' = NoConfig
  /\ Done("save")
  /\ UNCHANGED <<file, old, config_write, installed, view, target, accepted, raced>>

\* Mutant: a change reported as failed is tried again.
SaveRejects_Retries ==
  /\ pc["save"] = "refused"
  /\ view' = previous
  /\ failed' = failed \cup {Head(queue)}
  /\ previous' = NoConfig
  /\ Done("save")
  /\ UNCHANGED <<file, old, config_write, installed, queue, target, accepted, raced>>

\* Mutant: the queue goes on only after a success.
SaveRejects_Jams ==
  /\ pc["save"] = "refused"
  /\ view' = previous
  /\ Goto("save", "refused")
  /\ UNCHANGED <<file, old, config_write, installed, queue, hand, previous,
                 target, accepted, failed, raced>>

SaveRejects ==
  /\ pc["save"] = "refused"
  /\ view' = previous
  /\ failed' = failed \cup {Head(queue)}
  /\ queue' = Tail(queue)
  /\ previous' = NoConfig
  /\ Done("save")
  /\ UNCHANGED <<file, old, config_write, installed, target,
                 accepted, raced>>

-------------------------------------------------------------------------------
(* start_server saves the whole configuration it was called with *)

\* The front end passes on cfgRef, with the change that is being saved, or what an
\* earlier save answered (cfgOverride of the Models panel), without it.
StartCalled ==
  /\ "start" \in Roles
  /\ view # NoConfig
  /\ pc["start"] = "idle"
  /\ \E cfg \in {view} \cup IF pc["save"] = "idle" THEN {} ELSE {previous} :
       hand' = [hand EXCEPT !["start"] = cfg]
  /\ raced' = (raced \/ pc["save"] # "idle")
  /\ Goto("start", "called")
  /\ UNCHANGED <<front, file, old, config_write, installed, target>>

\* Past the operation mutex, with no runtime being changed: Desktop's
\* RuntimeExclusive.
StartBegin ==
  /\ pc["start"] = "called"
  /\ pc["select"] = "idle" /\ pc["uninstall"] = "idle"
  /\ Goto("start", "validating")
  /\ UNCHANGED <<front, file, old, config_write, installed, hand, target, raced>>

\* validate_launch_config has probed the runtime, so it is there.
StartSaves ==
  /\ pc["start"] = "validating"
  /\ hand["start"].active \in installed
  /\ config_write = Free
  /\ Write(hand["start"])
  /\ Goto("start", "running")
  /\ UNCHANGED <<front, config_write, installed, hand, target, raced>>

\* A runtime is being changed, the configuration is not valid, or the server was
\* stopped.
StartEnds ==
  /\ pc["start"] \in {"called", "validating", "running"}
  /\ Done("start")
  /\ UNCHANGED <<front, file, old, config_write, installed, target, raced>>

-------------------------------------------------------------------------------
(* rt_select and rt_uninstall; runtime_busy is held from Begin to the end *)

RuntimeBegin(r, b) ==
  /\ r \in Roles
  /\ b \in installed
  /\ pc["start"] \in {"idle", "called"} /\ pc["select"] = "idle" /\ pc["uninstall"] = "idle"
  /\ target' = b
  /\ Goto(r, "waiting")
  /\ UNCHANGED <<front, file, old, config_write, installed, hand, raced>>

SelectBegin(b) == pc["load"] = "idle" /\ RuntimeBegin("select", b)
UninstallBegin(b) == RuntimeBegin("uninstall", b)

\* Mutant: config_write is not taken before the file is read.
RuntimeLocks_Not(r) ==
  /\ pc[r] = "waiting"
  /\ config_write = Free
  /\ Goto(r, "reading")
  /\ UNCHANGED <<front, file, old, config_write, installed, hand, target, raced>>

RuntimeLocks(r) ==
  /\ pc[r] = "waiting"
  /\ config_write = Free
  /\ config_write' = r
  /\ Goto(r, "reading")
  /\ UNCHANGED <<front, file, old, installed, hand, target, raced>>

\* rt_select returns, and the front end loads the configuration.
SelectSaves ==
  /\ pc["select"] = "read"
  /\ WriteBack("select", [hand["select"] EXCEPT !.active = target])
  /\ config_write' = Free
  /\ pc' = [pc EXCEPT !["select"] = "idle", !["load"] = "reading"]
  /\ hand' = [hand EXCEPT !["select"] = NoConfig]
  /\ UNCHANGED <<front, installed, target>>

SelectFails ==
  /\ pc["select"] \in {"reading", "migrating", "read"}
  /\ config_write' = Free
  /\ Done("select")
  /\ UNCHANGED <<front, file, old, installed, target, raced>>

\* "select another runtime before uninstalling the active runtime"
UninstallRefused ==
  /\ pc["uninstall"] = "read"
  /\ hand["uninstall"].active = target
  /\ config_write' = Free
  /\ Done("uninstall")
  /\ UNCHANGED <<front, file, old, installed, target, raced>>

\* config_write is let go of before the files are removed.
UninstallAllowed ==
  /\ pc["uninstall"] = "read"
  /\ hand["uninstall"].active # target
  /\ config_write' = Free
  /\ Goto("uninstall", "removing")
  /\ UNCHANGED <<front, file, old, installed, hand, target, raced>>

UninstallRemoves ==
  /\ pc["uninstall"] = "removing"
  /\ installed' = installed \ {target}
  /\ Done("uninstall")
  /\ UNCHANGED <<front, file, old, config_write, target, raced>>

-------------------------------------------------------------------------------
(* config_set_value of the command line: load, change, save *)

CliBegin ==
  /\ "cli" \in Roles
  /\ pc["cli"] = "idle"
  /\ Goto("cli", "reading")
  /\ UNCHANGED <<front, file, old, config_write, installed, hand, target, raced>>

\* Mutant: the change is applied to the defaults instead of what the file holds.
CliSaves_Defaults ==
  /\ pc["cli"] = "read"
  /\ WriteBack("cli", [hand["cli"] EXCEPT !.edits = {CliEdit}])
  /\ Done("cli")
  /\ UNCHANGED <<front, config_write, installed, target>>

CliSaves ==
  /\ pc["cli"] = "read"
  /\ WriteBack("cli", AddEdit(hand["cli"], CliEdit))
  /\ Done("cli")
  /\ UNCHANGED <<front, config_write, installed, target>>

-------------------------------------------------------------------------------

SaveStep ==
  \/ QueueTakes \/ QueueTooEarly \/ SaveChecks
  \/ SaveCommits \/ SaveFails \/ SaveReturns \/ SaveRejects

StartStep == StartCalled \/ StartBegin \/ StartSaves \/ StartEnds

RuntimeStep ==
  \/ \E b \in Builds : SelectBegin(b) \/ UninstallBegin(b)
  \/ RuntimeLocks("select") \/ RuntimeLocks("uninstall")
  \/ SelectSaves \/ SelectFails
  \/ UninstallRefused \/ UninstallAllowed \/ UninstallRemoves

LoadStep == LoadReturns \/ LoadFails \/ Poll

Next ==
  \/ \E r \in AllRoles : Read(r) \/ Migrate(r)
  \/ \E e \in Edits : Submit(e)
  \/ SaveStep \/ LoadStep \/ StartStep \/ RuntimeStep
  \/ CliBegin \/ CliSaves

Spec == Init /\ [][Next]_vars

\* The queue's own promise chain runs on; config_write is held for short file
\* operations only and granted in order.
HolderStep ==
  \/ \E r \in {"select", "uninstall"} : Read(r) \/ Migrate(r)
  \/ SelectSaves \/ UninstallRefused \/ UninstallAllowed

FairSpec ==
  Spec /\ SF_vars(SaveStep) /\ WF_vars(HolderStep)

-------------------------------------------------------------------------------
(* Properties *)

\* Every variable stays in its domain; an edit is reported once at most.
TypeOK ==
  /\ file \in Configs
  /\ old \in BOOLEAN
  /\ config_write \in {Free, "select", "uninstall"}
  /\ installed \subseteq Builds
  /\ view \in Configs \cup {NoConfig}
  /\ queue \in Seq(Edits)
  /\ pc \in [AllRoles -> Pcs]
  /\ hand \in [AllRoles -> Configs \cup {NoConfig}]
  /\ previous \in Configs \cup {NoConfig}
  /\ target \in Builds
  /\ accepted \subseteq Edits
  /\ failed \subseteq Edits \ accepted
  /\ raced \in BOOLEAN

SelectIsolatedStep ==
  pc["select"] = "read" /\ pc'["select"] = "idle" /\ file' # file =>
    file'.edits = file.edits

\* Selecting a runtime changes the active runtime and nothing else: no edit that
\* was saved while rt_select ran is undone by it (it reads and writes under
\* config_write).
SelectIsolated == [][SelectIsolatedStep]_vars

\* An edit that was reported as saved is still in the file after any later edits,
\* failures, selections, starts, migrations and changes by the command line, unless
\* somebody used what was stale: a start called before the save was done, a load answered
\* after it, a migration, a selection or a "config set" that wrote back what the file
\* no longer held.
EditsSurvive == ~raced => accepted \subseteq file.edits

\* An edit that was reported as failed never reaches the file by way of a later
\* save of the queue or of a start (test-config-save-queue.ts: "queued update
\* included failed state").
FailedStaysOut == ~raced => failed \cap file.edits = {}

\* Every edit is reported as saved or as failed in the end, whatever became of the
\* edits before it (the queue catches their failures).
QueueDrains ==
  \A e \in Edits :
    (\E i \in DOMAIN queue : queue[i] = e) ~> e \in accepted \cup failed

\* What the word "Saved" tells the user: the edit is in the file.
SavedMeansSaved == accepted \subseteq file.edits

\* Edits and builds are told apart by nothing but their names.
ConfigSymmetry == Permutations(Edits) \cup Permutations(Builds)
================================================================================
