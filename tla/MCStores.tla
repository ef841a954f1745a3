------------------------------ MODULE MCStores ------------------------------
(***************************************************************************)
(* Parts that keep data beside the store: the conversations, the document  *)
(* index and the runtimes on screen in the front end; downloaded models,   *)
(* the registry of MCP servers and the gateway's answers in the back end;  *)
(* and the controls whose values end up in the configuration file, each a  *)
(* module with the one variable `panel'.  They share no state, so one run  *)
(* checks them side by side: `part' is chosen in the initial state, and    *)
(* the variables of the others do not exist then (NoValue).                *)
(***************************************************************************)
EXTENDS Integers, Sequences, FiniteSets, TLC

CONSTANTS
  NoValue,
  Threads, NoThread, MaxWrites, MaxSaves, MaxOpens, MaxFaults,
  Paths, Models, Texts, Offsets, MAX_RECORDS, MaxSearched, MaxQueue, MaxClock,
  Backends, Builds, PR_BUILD_BACKENDS, MaxJobs, MaxVisits,
  Contents, Size, Slack, MaxDownloads, MaxOutside,
  Commands, Servers, NoCommand, NoFile, MaxDefinition, MaxCommands, MaxFailures,
  Requests, NoRequest, MAX_RESPONSES, MaxStarts,
  UserSwitches, TypedKeys, TypedSizes, MaxSize, NotANumber,
  BatchSizes, TypedDistances, SelectLists, SearchedTexts

\* Downloads: lengths and bounds are numbers, and no content is one of the other things
\* that may be found at a path.
ASSUME DownloadAssumption ==
  /\ Size \in Nat /\ Slack \in Nat
  /\ MaxDownloads \in Nat /\ MaxOutside \in Nat /\ MaxFaults \in Nat
  /\ Contents \cap {"nothing", "theirs", "damaged", "cut"} = {}

\* The registry: there is a server it can hold, and "none" is not one of the things it
\* stands beside.
ASSUME RegistryAssumption ==
  /\ Servers # {} /\ NoCommand \notin Commands
  /\ MaxDefinition \in Nat /\ MaxCommands \in Nat /\ MaxFailures \in Nat
  /\ NoFile \notin [Servers -> 0..MaxDefinition]

\* Conversations: no conversation is "none".
ASSUME HistoryAssumption ==
  /\ NoThread \notin Threads
  /\ MaxWrites \in Nat /\ MaxSaves \in Nat /\ MaxOpens \in Nat /\ MaxFaults \in Nat

\* The index: files, models and chunks are finitely many.
ASSUME IndexAssumption ==
  /\ IsFiniteSet(Paths) /\ IsFiniteSet(Models) /\ IsFiniteSet(Offsets)
  /\ MAX_RECORDS \in Nat /\ MaxSearched \in Nat

\* The gateway: requests are finitely many, and none is "none".
ASSUME GatewayAssumption ==
  /\ IsFiniteSet(Requests) /\ NoRequest \notin Requests
  /\ MAX_RESPONSES \in Nat /\ MaxStarts \in Nat

\* The tuning panel: sizes are integers, but for what is no number, and the defaults are
\* among them.  No batch is beyond the limits of config.rs.
ASSUME OptionsAssumption ==
  TypedSizes \subseteq Int /\ NotANumber \notin Int /\ MaxSize \in Nat /\ MaxSize >= 3
ASSUME LimitsAssumption ==
  /\ \A b \in BatchSizes : b \in Int /\ 1 <= b /\ b <= 131072
  /\ TypedDistances \subseteq Int

\* Lists: each option has the letters of its label, and may be disabled.
ASSUME SelectAssumption == SelectLists \subseteq Seq([label : Seq(STRING), disabled : BOOLEAN])

\* Just outside, at, just inside and far from an end.
FourDistances == {-1, 0, 1, 1000}
Listed(label, disabled) == [label |-> label, disabled |-> disabled]
ThreeLists == {<<Listed(<<"d", "a">>, FALSE), Listed(<<"d", "b">>, TRUE), Listed(<<"d", "c">>, FALSE)>>,
               <<Listed(<<"a", "b">>, TRUE), Listed(<<"b", "b">>, FALSE)>>,
               <<Listed(<<"a", "b">>, TRUE)>>}

\* Conversations and paths are alike to the code.
Alike == Permutations(Threads) \cup Permutations(Paths)

VARIABLES
  part,
  open, mem, shown, initial, hydrated, load, saves, local, indexed, own, legacy,
  wipe, opens, writes, want, faults,
  database, queue, found, asking, clock, failed, wanted,
  installed, active, rows, prBusy, bundleBusy, uninstallBusy, reviewing,
  cancelBusy, preview, jobs, lists, gen, cached, probes, probeGen, probeBusy,
  capabilities, listed, unseen, used,
  command, disk, ghost, store, gw,
  panel

History == INSTANCE ChatHistory
Index == INSTANCE DocumentIndex
Runtimes == INSTANCE RuntimesPanel
Model == INSTANCE Download
Registry == INSTANCE McpStore
Answers == INSTANCE Gateway
Options == INSTANCE TuningOptions WITH
  options <- panel, Unmanaged <- UserSwitches, ChatKeys <- TypedKeys, Sizes <- TypedSizes
Limits == INSTANCE FieldLimits WITH limits <- panel, Batches <- BatchSizes, Distances <- TypedDistances
View == INSTANCE TuningView WITH view <- panel, Queries <- SearchedTexts
Select == INSTANCE CustomSelect WITH select <- panel, OptionLists <- SelectLists

\* A search is known by the fields and the categories whose words have its text, and the
\* text about a category has its words.
ASSUME SearchAssumption ==
  \A q \in SearchedTexts : /\ q \in [fields : SUBSET DOMAIN View!Catalog, words : SUBSET View!Ids, about : SUBSET View!Ids]
                           /\ q.words \subseteq q.about
\* Each field found alone, and "keep", "slots", "gpu", "capacity", "raw" and "zzz".
Text(fields, words, about) == [fields |-> fields, words |-> words, about |-> about]
Fields == INSTANCE TuningFields
SomeTexts ==
  {Text({f}, {}, {}) : f \in DOMAIN Fields!Catalog} \cup
  {Text({"keep", "min_keep", "n_cpu_moe"}, {}, {}), Text({"parallel"}, {"runtime"}, {"runtime"}),
   Text({"ngl", "spec_draft_ngl"}, {"runtime"}, {"runtime"}), Text({}, {}, {"context"}),
   Text({}, {"advanced"}, {"advanced"}), Text({}, {}, {})}

ofHistory == <<open, mem, shown, initial, hydrated, load, saves, own, legacy, wipe,
               opens, writes, want, faults>>
ofBoth == <<local, indexed>>
ofIndex == <<database, queue, found, asking, clock, failed, wanted>>
ofRuntimes == <<installed, active, rows, prBusy, bundleBusy, uninstallBusy, reviewing,
                cancelBusy, preview, jobs, lists, gen, cached, probes, probeGen,
                probeBusy, capabilities, listed, unseen, used>>
ofModel == <<command, disk, ghost>>
ofBackEnd == <<ofModel, store, gw>>
ofFrontEnd == <<ofHistory, ofBoth, ofIndex, ofRuntimes>>
ofStores == <<ofFrontEnd, ofBackEnd>>
vars == <<part, ofStores, panel>>

NoHistory ==
  /\ open = NoValue /\ mem = NoValue /\ shown = NoValue /\ initial = NoValue
  /\ hydrated = NoValue /\ load = NoValue /\ saves = NoValue /\ own = NoValue
  /\ legacy = NoValue /\ wipe = NoValue /\ opens = NoValue /\ writes = NoValue
  /\ want = NoValue /\ faults = NoValue
NoIndex ==
  /\ database = NoValue /\ queue = NoValue /\ found = NoValue /\ asking = NoValue
  /\ clock = NoValue /\ failed = NoValue /\ wanted = NoValue
NoRuntimes ==
  /\ installed = NoValue /\ active = NoValue /\ rows = NoValue /\ prBusy = NoValue
  /\ bundleBusy = NoValue /\ uninstallBusy = NoValue /\ reviewing = NoValue /\ cancelBusy = NoValue
  /\ preview = NoValue /\ jobs = NoValue /\ lists = NoValue /\ gen = NoValue
  /\ cached = NoValue /\ probes = NoValue /\ probeGen = NoValue /\ probeBusy = NoValue
  /\ capabilities = NoValue /\ listed = NoValue /\ unseen = NoValue /\ used = NoValue
NoModel == command = NoValue /\ disk = NoValue /\ ghost = NoValue
NoBackEnd == NoModel /\ store = NoValue /\ gw = NoValue
NoFrontEnd == NoHistory /\ NoIndex /\ NoRuntimes /\ local = NoValue /\ indexed = NoValue
NoStores == NoFrontEnd /\ NoBackEnd
NoPanel == panel = NoValue

Init ==
  \/ part = "history" /\ History!Init /\ NoIndex /\ NoRuntimes /\ NoBackEnd /\ NoPanel
  \/ part = "index" /\ Index!Init /\ NoHistory /\ NoRuntimes /\ NoBackEnd /\ NoPanel
  \/ /\ part = "runtimes" /\ Runtimes!Init /\ NoHistory /\ NoIndex
     /\ local = NoValue /\ indexed = NoValue /\ NoBackEnd /\ NoPanel
  \/ part = "model" /\ Model!Init /\ NoFrontEnd /\ store = NoValue /\ gw = NoValue /\ NoPanel
  \/ part = "registry" /\ Registry!Init /\ NoFrontEnd /\ NoModel /\ gw = NoValue /\ NoPanel
  \/ part = "answers" /\ Answers!Init /\ NoFrontEnd /\ NoModel /\ store = NoValue /\ NoPanel
  \/ part = "options" /\ Options!Init /\ NoStores
  \/ part = "limits" /\ Limits!Init /\ NoStores
  \/ part = "view" /\ View!Init /\ NoStores
  \/ part = "select" /\ Select!Init /\ NoStores

Next ==
  \/ part = "history" /\ History!Next /\ UNCHANGED <<part, ofIndex, ofRuntimes, ofBackEnd, panel>>
  \/ part = "index" /\ Index!Next /\ UNCHANGED <<part, ofHistory, ofRuntimes, ofBackEnd, panel>>
  \/ /\ part = "runtimes" /\ Runtimes!Next
     /\ UNCHANGED <<part, ofHistory, ofBoth, ofIndex, ofBackEnd, panel>>
  \/ part = "model" /\ Model!Next /\ UNCHANGED <<part, ofFrontEnd, store, gw, panel>>
  \/ part = "registry" /\ Registry!Next /\ UNCHANGED <<part, ofFrontEnd, ofModel, gw, panel>>
  \/ part = "answers" /\ Answers!Next /\ UNCHANGED <<part, ofFrontEnd, ofModel, store, panel>>
  \/ part = "options" /\ Options!Next /\ UNCHANGED <<part, ofStores>>
  \/ part = "limits" /\ Limits!Next /\ UNCHANGED <<part, ofStores>>
  \/ part = "view" /\ View!Next /\ UNCHANGED <<part, ofStores>>
  \/ part = "select" /\ Select!Next /\ UNCHANGED <<part, ofStores>>

Spec == Init /\ [][Next]_vars

-----------------------------------------------------------------------------
\* Every variable stays in its domain; chatHistory.ts keeps workspaces, never
\* halves of them, and a panel knows every call it has made.
TypeOK ==
  /\ part = "history" => History!TypeOK
  /\ part = "runtimes" => Runtimes!TypeOK
  /\ part = "model" => Model!TypeOK
  /\ part = "registry" => Registry!TypeOK
  /\ part = "answers" => Answers!TypeOK
  /\ part = "limits" => Limits!TypeOK
  /\ part = "view" => View!TypeOK
  /\ part = "select" => Select!TypeOK

\* The conversations survive whatever the user does before or while
\* chatHistory.ts answers: none loses text, none that was deleted returns, and what
\* the next start will read is what was on screen.  An answer that gateway.rs keeps
\* for /v1/responses has the whole conversation it continues, though others are
\* deleted, evicted and served meanwhile; the store keeps to its limit, and requests
\* are counted while they are served.
ConversationsKept ==
  /\ part = "history" => History!Recovered /\ History!Stored
  /\ part = "answers" => Answers!Continues /\ Answers!StoreHolds /\ Answers!ActiveIsCounted

\* documentIndex.ts never answers with the vectors of another chunk, text or model, never
\* outgrows its limit, and once its queue is empty keeps nothing that was dropped in
\* localStorage, nor from before a clear in IndexedDB (what is removed stays there).
IndexIsTrue == part = "index" => Index!VectorsFit /\ Index!IndexBounded

\* In whatever order refreshes, look-ups and calls return, the runtimes panel ends up showing
\* what is installed, except for runtimes of calls that failed after its newest list was read,
\* for which it does not ask again; a source build can be cancelled as long as it runs.
RuntimesAreShown ==
  part = "runtimes" => Runtimes!ShowsInstalled /\ Runtimes!BuildCanBeCancelled

\* Files that others read are whole at every moment.  A download of discover.rs
\* puts only the file that was listed at its destination, replaces none, obeys a
\* cancellation and leaves no staging file, and what it reports is what it did; the
\* registry of mcp.rs is what the saves and removals that reported success made of it.
FilesAreWhole ==
  /\ part = "model" => Model!Whole /\ Model!NothingLeft /\ Model!CancelHeeded
  /\ part = "registry" => Registry!Kept

\* The controls of the tuning panel, its raw options, the save and the back end
\* agree on every limit, on who sets a switch and on which field a search
\* finds and its category shows, and an option that is disabled is never the value
\* (tuningFields.ts, tuningValidation.ts, storeConfig.ts, ThemeSwitcher.tsx).
ControlsAgree ==
  /\ part = "options" => Options!ControlsWin /\ Options!RequestIsTheApps /\ Options!SizesHold
  /\ part = "limits" => Limits!LimitsAgree
  /\ part = "view" => View!FoundIsShown
  /\ part = "select" => Select!OnlyEnabledChosen

\* What a probe of a runtime found is shown only while that runtime is the active one.
ProbeIsCurrent == [][part = "runtimes" => Runtimes!ProbeIsCurrent]_vars
=============================================================================
