# A TLA+ model of llama-board

llama-board is a Tauri desktop application (Rust back end, TypeScript/React front end) and a headless
command line that launch and supervise `llama-server` processes, install the runtimes they come
from, download models, and chat with them. The models here are translated from that code; paths below
are relative to the repository, and front-end files without a directory are in `src/` or `src/panels/`.

## The system

| Part | State it keeps | Operations | Interacts with |
|---|---|---|---|
| Desktop back end, `src-tauri/src/lib.rs`, `server.rs` | `AppState`: the `operation` mutex, `config_write`, `runtime_busy`, cancel flags, `gateway`, `exiting`; `ServerState`: lifecycle, child, url, keys, request count | some forty Tauri commands, the idle watchdog (every 5 s), `RunEvent::Exit` | spawns and kills llama-server; the front end polls `server_status` every second |
| Command line, `bin/llama-board-cli.rs` | `headless-state.lock`, `headless-state.json` | start, stop, restart, status, config set, models delete | shares `config.json` with the desktop, nothing else |
| Configuration, `config.rs` | `config.json` and its schema version | load (migrates), save, normalize, validate | every command, both programs |
| Front-end store, `store.ts`, `configSaveQueue.ts`, `App.tsx` | `cfgRef` and its revision, status and its generation, flags | loadConfig, updateConfig (a queue), start, stop, polling, automatic start | the commands; every panel |
| Runtimes, `runtime.rs` | the runtimes directory, staging and backup directories, active build processes | install, install from a pull request, export, import, uninstall, probe, start-up sweep | the back end holds `runtime_busy` around the mutations |
| Runtimes panel, `useRuntimesController.ts`, `runtimesActions.ts` | rows, jobs, generations of refreshes and probes, loading profiles | install, build, select, remove, probe, save and apply a profile | the runtime commands, the store, localStorage |
| Gateway, `gateway.rs` | accept loop and its stop flag, stored answers (at most 128), request count | start, stop, per-connection handlers, stream translation | forwards to llama-server with a copied url and key |
| Downloads, `discover.rs`, `Discover.tsx` | the staging file, cancel flag; the panel's selection, files, listeners | search, inspect, download, activate | holds `operation` |
| MCP, `mcp.rs`, `Mcp.tsx`, `mcpUtils.ts` | `mcp.json` and its lock; draft, tools, approvals | list, save, remove, call a tool | chat |
| Benchmarks, `bench.rs`, `Bench.tsx` | process id, cancel flag; phase, history | run, cancel | holds `operation` |
| Models, `models.rs`, `Models.tsx` | scan generation, selection, adapters | scan, cancel, delete, register | the commands |
| Chat, `useChatSend.ts`, `chatSendHelpers.ts`, `useChatAttachments.ts`, `useChatMcpTools.ts` | phase, abort controller, accumulator, pending tool call, attachments | send, stop, retry, approve or reject a tool | `server_activity`, llama-server, MCP |
| Conversations, `useChatThreads.ts`, `chatHistory.ts`, `storageAdapter.ts` | workspace in memory, localStorage mirror, two IndexedDB values | switch, create, delete, hydrate, save, wipe | chat |
| Documents, `documentIndex.ts`, `chatUtils.ts` | vectors by model and path, mutation queue | save, read, evict, remove; choose excerpts | chat, the embedding endpoint |
| Projects and profiles, `projectStore.ts`, `modelProfiles.ts`, `Projects.tsx`, `panels/ExecutionProfiles.tsx` | localStorage records, drafts | create, edit, remove, apply, import | chat, the store |
| Tuning, `useTuningController.ts`, `tuning*.ts(x)` | drafts, phase, raw arguments | edit, save, apply with rollback, search | the store, `config.rs` |
| Endpoints, `api.ts`, `sse.ts`, `endpointAdapters.ts` | a parser's buffer | build a request, read a stream, translate | llama-server |
| Frame, `App.tsx`, `preferences.ts`, `theme.ts`, `components/` | tab, preferences and their copies, messages | navigate, change, import, reset | localStorage |

What is hard in it: the front end's commands are serialized by nothing but the back end's two mutexes and one flag;
servers die by themselves; the exit handler runs beside half-finished commands; several files are
shared by processes or tasks that only rename over each other; awaits separate checks from the actions they guard;
React handlers work with the values of the render they were created in; answers of panels' requests return in any order. `PROJECT.json` lists each hazard at its line with the properties that look for it.

What makes each part correct, in one line: *back end* - one server, none lost, runtimes not changed under
it, and what the status shows is true; *command line* - one command at a time, a server that was started can be
stopped; *configuration* - no update is lost; *store* - edits survive, the status shown is never older than
the last command; *runtimes* - a name is either absent or a whole runtime, also after a crash; *chat* - every message
in the conversation it belongs to, no question lost, each use of the server ended; *conversations, documents* - what comes
back is what was last written; *panels* - a late answer changes nothing it no longer belongs to; *requests and streams* -
they fit the window, and nothing depends on how the transport cuts them.

## Modules

| Module | Models |
|---|---|
| `RuntimeUse` | what the two locks of the back end promise about the runtimes directory (abstract) |
| `Desktop` | `AppState` and every command that takes or looks at it |
| `Headless` | the command line: lock file, state file, servers |
| `ConfigStore` | `config.json`, everyone who writes it, the front end's save queue |
| `RuntimeActivation` | installing, replacing and removing runtimes on disk |
| `AppStore` | the front end's view of the server and the handlers that start and stop it |
| `Chat` | sends, streams, tool calls, stops and the conversations they write into |
| `ChatHistory`, `DocumentIndex`, `RuntimesPanel` | front-end parts with data of their own, checked side by side in `MCStores` |
| `Download`, `McpStore`, `Gateway` | back-end parts with files or tasks of their own, also in `MCStores` |
| `ModelsPanel` `DiscoverPanel` `BenchPanel` `McpPanel` `Composer` `Profiles` `Projects` `Tuning` `LoadingProfiles` `SamplerChain` `Preferences` `Frame` | panels: one record variable each |
| `StreamParsing` `ToolCalls` `EndpointShapes` `ContextWindow` `Retrieval` `TuningOptions` `TuningFields` `FieldLimits` `TuningView` `CustomSelect` `SavedWorkspace` | computations of the front end against a reference definition; `TuningOptions`, `FieldLimits`, `TuningView` and `CustomSelect`, the controls of the tuning panel, are parts of `MCStores`, because their limits are those of the store and the back end, the other ones and the panels of `MCPanels` |
| `MCStores`, `MCPanels` | instances and bounds for TLC, which choose a part in the initial state; the other modules need only their `.cfg` |
| `…Proofs` | inductive invariants and theorems about the module of that name; `StoresProofs` about the ten parts of `MCStores`, `PanelsProofs` about fifteen of the eighteen of `MCPanels` |

The modules meet at these places. `Desktop` implements `RuntimeUse` (`RuntimesAreLocked`). `RuntimeActivation` has one operation
at a time because `Desktop` shows that runtime mutations exclude each other and servers (`Exclusion`).
`ConfigStore` takes its mutual exclusion from the same locks and adds `config_write`. `AppStore` sees of the back end a lock
and a state, as `Desktop` promises it. `Chat` brackets each request with the two calls of `server_activity`
that `Desktop` counts. The panels see saves, commands and storage as answers that may come late, fail or refuse.

**Desktop.** An element of `Calls` is one invocation of a command; `pc` says between which two awaits it
is. A llama-server is named by the number of its launch (`sess`), 0 is "none". `StartBegin` … `StartReady`, `StartFails` follow
`start_server` await by await (validation, spawn, the exit flag, `wait_ready`, the second look), then come
`stop_server`, the gateway's start and stop, runtime mutations (`runtime_busy` first, then the operation mutex,
released before the work), downloads, benchmarks and deletions, `server_activity`, the status poll, the
idle watchdog, the exit handler in three steps, and a server that dies. Abstracted: key, url and session are one
number; idle time and memory estimates are a choice; poisoned mutexes, log text and cancel flags are left out.

**Headless.** An element of `Procs` is one run of `llama-board-cli`. Actions follow `acquire_command_lock` (create,
write, read the process id of the file that is there, judge that process, remove whatever is at the path), start, stop, restart, `config set` of the port, status without
a lock, and a kill at any point. `mishaps` records when the code did what it does not recover from: a recovery removed another lock file than
the one it had looked at, a status poll removed the state of a server that runs, a start could neither record nor end its server, or was killed in between. Process ids are not reused, so the branch that meets a live
process that is no llama-server is unreachable and left out, as are symbolic-link checks and log files.

**ConfigStore.** The file is a record of applied edits and the active runtime. Front-end state: `cfgRef`,
its revision, the queue of `configSaveQueue.ts`. The save, a start that passes its own copy of the
configuration, `rt_select`, `rt_uninstall`, a load and the command line are one role each with at most one activity at
a time. `save_config` checks before it takes `config_write`; a load may write a migrated file back; `rt_uninstall`
looks under `config_write` and removes after it. `raced` records that somebody wrote or published a copy that had become
stale. Abstracted: an edit is a name (normalization and validation may refuse it), recovery of a legacy backup, a
second load while one is under way.

**RuntimeActivation.** A directory is what it was made from, or `Broken`, and is `aged` when a week has passed (renames
keep that). Actions: admission under `runtime_busy` and the reset of `runtime_cancel`, resolving a pull
request against the confirmed commit, download, staging in two steps, verification, preflight, the last check, the two
renames, rollback, removal of the backup in two steps, clean-up with any part of it failing, uninstall, a
crash and restart anywhere, the sweep, a push to the pull request, a week. Abstracted: which files a tree consists of,
digests (a download is complete or fails), toolchains, leftovers other than backups (one flag).

**AppStore.** A click is one run of a handler: the shell's button, the start buttons of Chat and Models, "restart with
this model", Tuning's apply, the automatic start, each with the store of its render (`seen`). An operation
is `statusGeneration`; a poll carries the generation it was sent under. The back end is a lock and a state. A command
that times out in the front end (120 s, `lifecycleUtils.ts`) goes on in the back end.

**Chat.** A send is one run of `send()`: it awaits `server_activity`, the retrieval and the stream, then the end of
its activity; the panel's refs (controller, failed request, accumulator, tool rounds) are shared by all of them. A message carries
the send its text is from and the conversation (`home`) that was sent from. `settled` becomes false when the user
sends, switches or changes conversations while a send or a tool call is under way; `OwnThread` says what holds when he waits, and the
limits below say what happens when he does not.

**ChatHistory, DocumentIndex, RuntimesPanel.** The workspace and its four copies, hydration against edits, saves that
overtake each other, closed windows, faults; records of vectors in two storages behind the queue of mutations, read
beside it; rows against what is installed with jobs, refreshes and probes that return in any order.
A job that removes or replaces a runtime takes it out of the list half way (`Moves`) and may fail then; what it leaves or puts back
is in `unseen` until the newest refresh reads the list, for no refresh follows a failure.

**Download.** One command at a time, for it holds the operation mutex. Actions: the listing and its digest, the look at the
destination, the staging file, chunks (failures, cancellation, too many), the end of the stream, the digest, the last
look at the flag, the hard link and the removal of the staging name. Other programs put a file at the destination or
take it away; the sender may send a newer file or a damaged one; removals fail; the program ends. Contents are names, a length is
counted in chunks; names, addresses and sizes beyond the safety limit are one failure.

**McpStore.** `mcp.json` as a function from ids to definitions (0: not registered). A save or removal takes `CONFIG_LOCK`, looks, reads,
moves the old file aside and the new one in; a listing or a tool call looks and reads without the lock. File operations fail, the
program ends.

**Gateway.** A connection belongs to the gateway that accepted it and may outlive it. Actions follow `handle_connection`
and `handle_responses`: the flag, the count, reading the answer it continues, the server's answer, the end of a stream, keeping the answer and
evicting one in no particular order, sending the client its end (the request is counted until then, although its answer can already be continued
or deleted), deletion; start, stop and the end of the loop. A conversation is the sequence of the
requests in it; what `/v1/messages` adds (no answer is kept) is a request that ends after the server's answer.

**Panels.** Each module keeps its panel's React state, refs and requests in one record and has one action per handler, effect and
answer. **Computations** build their inputs step by step (a body in chunks, a conversation message by message) and state
what the result must be: e.g. `StreamParsing` compares the parser's events with those of the uncut body, and
`SavedWorkspace` reads back what it wrote.

Size: the front-end modules are shorter than the code they map; the older back-end modules follow long
functions of `lib.rs` and `runtime.rs` await by await.

## Runs

| Run | Instance | Distinct states | Shows |
|---|---|---|---|
| `desktop` | 3 calls, 3 launches, fairness | 97,038 | locks, ownership of processes and files, what the status says, the watchdog, refinement of `RuntimeUse`, calls return |
| `headless` | 3 commands, 2 ports, 3 servers, 2 kills, symmetry | 511,698 | the lock is given back, it excludes until a recovery removes the wrong file, a server is lost by one of four mishaps only |
| `config` | 2 edits, 2 runtimes, no command line, symmetry | 599,125 | saved edits survive, failed ones stay out, a selection touches nothing else |
| `config_live` | 2 edits, 1 runtime, old file, command line, no start and no uninstall, fairness | 310,821 | with migrating readers and the command line every edit is reported |
| `activation` | a release, a pull request, 2 commits, 1 leftover backup, symmetry | 2,449,744 | an installed runtime is never lost, only confirmed trees, clean ends |
| `appstore` | 2 clicks of any kind, both preferences, fairness | 730,960 | the window follows the back end and comes to rest |
| `chat` | 2 conversations, 2 sends, 1 text, 1 tool round, fairness | 2,144,080 | messages in their conversation, questions kept, uses released |
| `stores` | 3 conversations, 2 writes, 2 saves at once, 2 windows, 1 fault; 2 documents of 2 versions, 1 record kept; 2 back ends, 3 jobs; 2 downloads of 2 contents in 2 chunks, 2 foreign changes; 2 commands, 2 servers, 2 failures; 3 requests, 2 gateways, 1 answer kept; 2 switches and 7 options written by hand, 5 sizes, 4 batch sizes, 3 lists; symmetry | 2,371,836 | what is kept comes back; files are whole; vectors fit; rows show what is installed; controls, save and back end agree |
| `panels` | the bounds are in `MCPanels.cfg`, those of the three parts without a theorem in `MCPanels` | 4,615,082 | the eighteen panels and computations |
| `config_saved` | as `config` | violation | an edit reported as saved is missing from the file |
| `activation_sweep` | as `activation` | violation | the sweep takes the backup of an installed runtime |
| `apply_restart` | as `appstore` | violation | "Apply and restart" leaves the server stopped and says it was applied |

The `findings` of `PROJECT.json` quote what the repository says for each violation.

*Bounds and why they are enough.* Three calls of `Desktop` are a holder of the mutex, a mutation, chat or benchmark
beside it, and a waiter; three launches give a request of an earlier server, the current one, and a next.
Three commands are one that holds the lock or was killed and two that judge its file; each launches one server at most. Two edits are one in
flight and one queued on it; two runtimes are one active and one selected. In `activation` operations are
strictly sequential and touch one runtime, so one of each kind shows every interplay with the sweep. Two clicks are
one handler whose awaits another one meets; two sends are one and the send that overlaps or follows it, and its tool
follow-up is one of the two. In `stores` two saves can overtake each other, the second window reads what the first
one left, the second download meets what the first left, four commands of the registry are two pairs, and three requests are an answer, one that continues it and
one that makes it give way. In `panels` every number is at least one more than the limit it meets. Every bound is a `CONSTANT` in a
guard, and every passing property has mutants of the modelled code (an operator `Action_Bug` beside the
action) under which the same run refutes it.

*Fairness.* `Desktop`: a call that holds the operation mutex goes on, because each of its awaits has a deadline (probe
and benchmark timeouts, 120 s for readiness, read timeouts of a download), and a mutation that waits for the mutex gets
it now and then (tokio's mutex is first come, first served). A mutation at work is not fair: it may sit in a file dialog.
`ConfigStore`: the save at the head of the queue is granted `config_write` in its turn although others keep taking it
(strong fairness, for the same reason), and whoever holds it goes on.
`AppStore`: the poll's timer fires, `server_status` answers now and then while it keeps being sent (strong fairness: an
answer may be overtaken or fail), handlers go on after an await, and the back end serves a command that waits, as
`desktop` shows. `ComesToRest` assumes that the window is visible from some point on, for polling stops while it is hidden.
`Chat`: commands are answered and a stream ends, fails or is aborted; the user need do nothing.
Nothing else is assumed: edits, loads, kills and crashes may or may not happen. The other modules claim no liveness.

*Deadlock* is checked, with explicit stuttering where the program has ended (`Gone` of `Desktop`, `AllDone` of
`Headless`), except in `chat`, `stores` and `panels`, where the bounded supply of the user's actions runs out.

## Proofs

All theorems are for arbitrary constants that satisfy the named assumptions of their module (bounds are natural numbers,
markers differ from what they mark, some sets are finite). In `MCPanels` a few say more: names of tools are sequences of letters, of at most
the limit the code cuts them to, the tabs are a sequence in which the application's own two occur, the system's language is one of
those the application has, the window is larger than what is reserved in it (the back end clamps it to at least 512). In `MCStores`
the sizes are integers but for the mark of what is no number, the largest size is at least 3, and no batch size is outside the limits of `config.rs` (1 to 131072). Each proof module defines an inductive invariant `IInv` that TLC checked
first, proves that the initial states satisfy it and that every action preserves it, and derives the theorems from
`Spec => []IInv`.

- `DesktopProofs`: `IInv` is `TypeOK`, `Mutexes` (the mutex has the holder whose `pc` says so; `runtime_busy` has one),
  `Processes` (a start in progress tracks its server; after the sweep nothing is tracked), `Users` (who may use the
  runtimes) and `Companions` (gateway and key file belong to the current server). The safety properties are not inductive
  without them: that no server is lost rests on what a start has in hand between spawn and registration. From it follow
  `Exclusion`, `ServerOwned`, their parts one by one, and that `Desktop` implements `RuntimeUse` step by step.
  A second invariant of it is `Requests`: it says which chats can be in flight on which server, that they are finitely many although `Calls`
  may be infinite, and how their number bounds the counter; with `IInv` it is inductive. `ServerFollowed` (Ready, the gateway
  and the counter speak of the current server) and `UnloadSparesRequests` (the watchdog) follow.
- `HeadlessProofs`: `IInv` adds who has written the lock (`LockHasOwner`, `Exclusion`), that a server is handed from the
  launching command to the state file (`Handed`) and that the file follows the processes (`StateFollows`). Exclusion needs that no recovery has
  removed another file than it looked at, `StateFollows` that none of the four mishaps has happened; kills and status polls may. `LockHeld` and
  `EveryServerTracked` follow.
- `ConfigStoreProofs`: `IInv` adds who holds which mutex (`Holding`), that the queue holds edits not yet reported
  (`QueueFresh`) and, unless somebody stale has written (`raced`), that each copy of the configuration in somebody's hand
  contains the reported edits and no failed one (`Fresh`). `SelectIsolation` needs that writers are serialised
  while a selection has read and not yet written.
- `RuntimeActivationProofs`: `IInv` adds that what is staged is complete and made from the pinned commit (`Staged`, `Pinned`),
  where the backup and the runtime's path stand to each other between the two renames (`BackupIsAside`, `PathIsFree`,
  `PathIsTaken`, `BackupIsWhole`), and that a cancellation in time is still in the flag (`Pressed`). `InstalledIsSafe`,
  `PullIsConfirmed` and `EndsClean` follow for any number of runtimes and commits.

- `AppStoreProofs`: whoever awaits a command holds `operationInFlight` (`AwaitsInFlight`), a poll that was overtaken has an older
  generation than the store (`PollIsDated`), and generation and operations still ahead of the handlers together keep within a bound
  (`GenerationsLast`, which types the counter). `FollowsBackEnd` follows for any number of handlers and launches.
- `ChatProofs`: what the back end counts is the sends between their two reports (`Counts`), an idle panel has stored what is on screen
  (`Mirrored`), and as long as the user waits, all that is under way belongs to the active conversation, is one at most, and only the answer that is
  streamed is empty (`Settled`). `QuestionsKept` is an action property: each handler keeps the questions of what it writes, and where it replaces
  the stored conversation, `Mirrored` says that this is the one shown. `OwnThread` follows from `Settled`.
- `StoresProofs` has an invariant for each part of `MCStores`. `StoresInv` says that the part that runs has its own; `PartSteps`, that a step
  of one part is none of another. They are for any numbers of conversations, windows, documents, jobs, downloads, commands and requests:
  - `HistoryInv` (`ChatHistory`): as long as nothing has failed, the source the next window reads has what the user wants, a window begins with that
    source, and the newest save, or the source once there is none, is the workspace as it is kept (`NothingFailed`). `Recovered` and `Stored` follow.
  - `IndexInv` (`DocumentIndex`): what the mutation under way has read is what is there (`ReadIsTrue`), and the paths that the index will have records of
    when the queue is empty (`WillHave`: saved by a mutation after which none erases) are those that may have some (`OnlyWanted`: without
    IndexedDB the paths last saved, with it those saved at any time since the last clear). What is true of the empty queue alone is not
    inductive. Every record's vectors are those of its model, path and text, each at its offset (`Fitting`): `IndexedFits` shows it of the
    records that `indexRecordsForChunks` groups, `MixFits` of what a mutation keeps of them, and `VectorsFit` follows (`TakenFits`).
  - `RuntimesInv` (`RuntimesPanel`): two calls that would clash are one (`OneEach`), what a call made busy stays busy as long as it is under way
    (`StaysBusy`), a refresh that ends a call ends one that waits for it (`EndsItsJob`), one refresh is the newest (`OneNewest`), and a list that may
    still be shown agrees with what is installed outside `unseen`, or a call has done its work and not told the panel (`ListsAreFresh`). `ShowsInstalled`, `BuildCanBeCancelled` and the action property `ProbeIsCurrent` follow.
  - `ModelInv` (`Download`): staging files are counted (`PartsCounted`), from the comparison of digests on the content is the listed one (`Verified`), the
    destination is unchanged until the link (`Underway`), and a cancellation in time is seen by the last look (`Pressed`).
  - `RegistryInv` (`McpStore`): only the holder of `CONFIG_LOCK` writes (`Locked`), and what it has read is what the file holds, then what it moved aside, and
    what it moves in is the reported registry with its own change (`WriterKnows`).
  - `GatewayInv` (`Gateway`): the count is the number of requests being served (`ServedCounted`, by finite cardinalities), what is kept is the answer of
    a request that is past keeping it, its client told or not (`KeptAnswers`), a request that was read has the conversation it continues and one more (`ToldAll`), and a
    conversation has no request twice (`NoneTwice`), so that no request continues itself.
  - `OptionsInv` (`TuningOptions`): no managed switch is among the arguments, a body was built of the options it is compared with, and the sizes of the
    configuration are within their limits and, but for a save that is under way, fit each other, so that what the back end reads of them is what the store
    published. A patch of one batch size alone is not held to the other; the answer of the back end (`AppConfig::normalize`) mends it.
  - `LimitsInv` (`FieldLimits`): the value is between the ends of its field, or in its list, and what was sent and kept is, too. That the panel's tables and the
    limits of `config.rs` are the same is a lemma for each field (`LimitsOfFields`, `LimitsOfLists`).
  - `ViewInv` (`TuningView`) is the type; the rest is a lemma: the category of a field that a search finds is visible, its section renders it, and some visible category is selected.
  - `SelectInv` (`CustomSelect`): what the keys highlight is an option that is not disabled. The search for the next one looks at the
    smallest offset at which there is one, which exists because a set of natural numbers has a smallest element (`Least`).

- `PanelsProofs` has an invariant for each of fifteen parts of `MCPanels`; `PanelsInv` says that the part that runs has its own.
  - `AnswersAreCurrent`: at most one scan, and one inspection, has the newest generation, and the panel waits just as long as there is one (`ModelsScans`,
    `DiscoverAnswers`); listeners are those of the view on screen (`DiscoverListens`); a benchmark's history, the one stored, and the one a run will add
    to are newest first and older than the run (`BenchKeeps`); the only timer is the message's (`FrameInv`).
  - `ToolsAreApproved`: whatever is approved, or called, was approved by hand, and the panel is busy with the only call (`McpKeeps`); of each call
    what has come is the beginning of what was sent (`CallKeeps`); and the names
    of the tools are distinct and short enough (`Apart`, by induction over the list): different numbers mark a name differently, so one of as many numbers as there are names is free.
  - `EditsAreKept`: lists have distinct ids that were given out, as have lists still in the hands of an import, an application or a save
    (`ProfilesKeeps`, `ProjectsKeeps`); what is stored of the loading profiles is what the filter leaves of those shown (`LoadingKeeps`); a draft is the last
    one typed, or that one was saved (`TuningKeeps`); what the editor of projects shows is the selected project of the list in memory, and the list is the stored one
    until the storage refuses a list (`refused`); memory, storage and page agree (`PreferencesKeeps`, `PageKeeps`); a draft of the sampler chain differs from the
    one before by one sampler, and the chains waiting to be saved are proper (`ChainKeeps`); conversations are numbered (`WorkspaceInv`).
    `ReadsBack` needs no more: cutting a workspace that was cut changes nothing, which is a lemma about each of the sorting, choosing and cutting operators.
  - `RequestsFit`: what is under way is what the next retry or tool result goes on from, a request with its system prompt, its question and whole
    pairs, and what failed or was stopped has nothing behind its question (`ContextKeeps`). What a list costs is a recursive function; by induction the cost of a list with one message less is less,
    and a list that was cut until it fits, or of which only the fitting end was kept, costs no more than the budget.
  - `StepsAreCurrent`: a scan on screen is not newer than the newest (`ModelsScans`), while a restart goes on nothing was published unless
    `moved` says so (`TuningKeeps`), a rollback that no save was ahead of is the first in the queue and sends the configuration there is until it is
    written (`FirstIsCurrent`), and what is being read for a project is of an older binding while a message is sent (`ComposerKeeps`).

The library's induction theorems cannot be used here, because they take an operator as a parameter. `PanelsProofs` has induction over the
natural numbers as a first-order lemma about sets (`Induct`, from the well-foundedness of `<`) and with it the existence of the recursive functions
the models are written with: filtering a list (`Among`), a chain without repetitions (`Normalized`), the names of tools (`FunctionNames`), the cost of
a request (`TotalCost`).
It is why these are recursive functions in the models: of the library's folds, `SelectSeq` and `SortSeq` the provers know nothing.

Every invariant and action property of `desktop`, `headless`, `config`, `config_live`, `activation`, `appstore`, `chat` and `stores` is proved, and five of `panels`.
Only model-checked: the liveness properties (`CallsReturn`, `QueueDrains`, `ComesToRest`, `InUseReleased`), which are out of the prover's
reach, and of `panels` `TypeOK` and `NothingIsLost`: what they say of the three remaining parts (`Retrieval`, `StreamParsing`, `EndpointShapes`) is what
sorting, folding and parsing compute.

## What the models say about the code, beyond the findings

A property above is stated with the premise under which the code satisfies it; these are the cases outside of it.

*Back end and command line.*
- `server status` of the command line takes no lock: with another port configured than the server was launched with, or beside a start, it removes
  the state file of a server that runs (`llama-board-cli.rs` 517–537). Two commands can be past the lock, without any kill: one reads the
  process id of the lock file, that command ends and drops its lock, a third one creates its own, and the first, finding the process dead, removes that
  (`llama-board-cli.rs` 155–172); after a kill, two that judge the same stale file do it (171). Then two starts can each launch a server and one is lost. A start that can neither write
  the state file nor end its server leaves it (652).
- Both crash paths of the status poll clear the redaction secret before the text it protects is built (`lib.rs` 1206, 1222; `server.rs` 42).
- `rt_uninstall` may remove the runtime that a save has just made active (`lib.rs` 1593). The command line and migrating loads do not take `config_write`.
- A cancellation sent while a command waits for the operation mutex or in a file dialog is lost, because the flag is reset
  on admission. `run_bench` does not look at `runtime_busy` (`lib.rs` 1299), so a benchmark can run beside a mutation.

- Two renames of a save of `mcp.json` are not one step: a crash between them, or a failed way back, loses the registry, for nobody reads the backup;
  a listing in the gap sees no servers or reports an error (`mcp.rs` 150).
- Requests of a stopped gateway go on, and the watchdog does not see them (`lib.rs` 1126). Cancelling an answer that is being made finds nothing
  (`gateway.rs` 285); an answer may give way at the moment it is kept (560); tool calls of a stream are not part of the conversation that is kept (617).
- A download whose staging name cannot be removed reports a failure although the model is in its place (`discover.rs` 353); a staging file
  of a program that was killed is never removed; a cancellation is noticed at the next chunk only.

*Chat.*
- A send during the first awaits of another goes to whichever conversation is active when they end; a pending tool call and the failed request
  survive a switch; the end of an older send clears the controller of a newer one (`useChatSend.ts` 251).
- A retry or send drops a whole last answer, not only a dangling question (`useChatSend.ts` 155); Stop during a tool call that fails leaves "stopping" set.
- Tool follow-ups are not cut to the window, and a question that has to be cut loses its images (`chatUtils.ts`). After a follow-up that failed, Retry does
  nothing, for it has no text (`useChatSend.ts` 106).
- The length of an answer is limited only if the user set a limit: without `max_tokens`, the default, or with a negative one, `capMaxTokens` changes nothing
  (`chatUtils.ts` 202-208), and the back end ends the answer where the window does.
- A document that arrives while a send waits for the back end or for embeddings is removed unsent (`useChatSend.ts` 119-149); one that arrives later joins the next message; the binding of a project replaces documents and system prompt at each change of phase.

*Kept data.*
- `storageAdapter.set` falls back to localStorage and leaves an older IndexedDB value that `get` prefers; a wipe leaves copies behind.
- A runtime whose removal failed half way stays in the panel's list until something else reads it (`runtime.rs` 3510; no refresh follows a failed job).
- Removing a document deletes nothing from IndexedDB. `removeDocumentVectorsForPaths` filters the records (`documentIndex.ts` 277-281) and hands the
  rest to `writeIndexedRecords`, which deletes only what is over its bound and puts the others (214-221); the records of the removed paths stay until
  they are the oldest or all are cleared. The comment at 266 says that the function "Drops every cached embedding for the given document
  paths"; its test (`dataDeletion.test.ts` 75) runs without an IndexedDB. `IndexBounded` therefore says of IndexedDB only that nothing is left of what was never
  saved since the last clear, and of localStorage that nothing is left of what was removed.
- Projects: a late import overwrites newer saves; the active id may name none. `writeProjects` and `setActiveProjectId` swallow what the storage refuses
  (`projectStore.ts` 193-198, 209-215): the panel then shows, and says saved, what is not stored, and if the id is written after the list was refused, its event
  reads the old list back over the editor (`Projects.tsx` 110-125, 170-174). Profiles: a profile that is deleted while it is applied comes back. The
  "PATH" runtime of a loading profile is not read back.

- A workspace longer than 4 MiB is written to localStorage and not read back (`chatHistory.ts` 139). One whose active id names no conversation, and whose
  conversations are all empty, is saved with that id (189).

*Panels.*
- `Mcp.tsx`: the answer to a save after another server was selected shows the draft under the other's id; a late list of tools is shown for the server selected since.
- `Models.tsx`: a deletion scans the directory of the dialog's render again; answers about the server's adapters have no generation, so that the first of
  two ends "busy" and the one that comes last is shown, whichever was asked for last (113). `Discover.tsx`: late files appear with nothing selected. `Bench.tsx`: typed iterations do not take effect.
- Tuning: a save in flight when Apply begins may end its lock early; a rollback that is queued behind another panel's save, which is not published before its turn
  (`configSaveQueue.ts` 11-12, `store.ts` 96), undoes that save, for the revision has not moved; a rollback in the queue may publish a refused value again;
  a raw chat option out of range is shown clamped and sent as it is; the micro-batch limit is that of the save, not of the batch size; MTP fields are rendered twice under "speculative"; a search for a
  field stays in the category that was selected if its words have the text too (`Tuning.tsx` 61), so that the field may be one click away.
- Sampler chain: adding at the limit of 64 does nothing; an edit made while an earlier one is being saved is shown undone by the next render until its turn
  comes; a drop after the chain became shorter throws.
- The automatic start may run after the user has started and stopped the server (`store.ts` 186). "Saved" badges of `Settings.tsx` share a timer that is not cleared.
- Without embeddings every attached document is cited, whatever of it is in the context (`chatSendHelpers.ts` 65-66), also one that none is of; a context may exceed its
  limit by one mark; and the history may then be cut to the window, with the cited passages in it (`useChatSend.ts` 137-138). What is cited is compared
  with the context before that.
- Streams: a chunk longer than the frame limit fails although no frame in it is; the Anthropic dialect drops tool blocks of a stream.

## Plan

1. Done: the back end's and command line's locks, configuration, runtime activation, downloads, the MCP registry, the gateway's answers; the front end's store, chat, kept data, panels and
   computations.
2. Done: proofs about the back end's modules, `AppStore`, `Chat` and the ten parts of `MCStores`, and about fifteen of the eighteen parts of `MCPanels`. Left: the three computations that only TLC checks; `RuntimeActivation` as an implementation of an atomic replace.
3. Then the Rust parts without a module: the gateway's translation of streams, the processes of MCP servers, the export of bundles with its checksum,
   build processes and their kill on exit.

## Not modelled, and why

- `bench.rs`, `models.rs`, `backends.rs`, `hardware.rs`: of these only the use of the locks and the answers the panels meet; the rest
  parses the output of processes and keeps no shared state. Of `gateway.rs` the translation of bodies and events, of `discover.rs` searches
  and the checks of names and addresses, of `mcp.rs` the protocol with a server's process.
- Known hazards that have no property: a bundle's checksum is written after the bundle
  (`runtime.rs` 3315); a start of the command line that is killed before the state file is written leaves a server (`llama-board-cli.rs` 605).
- `Developer.tsx`: the gateway's state is read by an effect and set by start and stop, without a generation, and a late list of models of an earlier
  server is shown (35–73); it changes nothing but what it shows.
- Exports (of a chat, a project, diagnostics), translations, styles, help texts, layout, speech and image encoding: formatting without a protocol.
- `ExecutionProfiles.tsx` exists in `panels/` and in `components/`, and no other file imports either; `Profiles` follows the one in `panels/` and
  the library `modelProfiles.ts`, which are not reachable from the application at this commit.
- Test helpers, and what GitHub, Hugging Face and llama-server do beyond how the code meets their answers.
