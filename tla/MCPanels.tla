------------------------------ MODULE MCPanels ------------------------------
(***************************************************************************)
(* The panels of the front end and its pure computations, each a module    *)
(* with one variable.  None reads another's state, so one run checks them  *)
(* side by side: `part' is chosen in the initial state, and `panel' is the *)
(* variable of the module it names.  The bounds of the parts that theorems *)
(* are about are constants, those of the others the values given here.     *)
(***************************************************************************)
EXTENDS Integers, Sequences, FiniteSets

CONSTANTS
  NotANumber,
  Dirs, NoDir, MaxScans, MaxFolderEdits,                       \* models
  Repos, NoRepo, MaxInspects, MaxViews,                        \* discover
  IterNumbers, MaxIters, MaxHistory, MaxBenches,                   \* bench
  ServerIds, NoServer, Tools, NoTool, MaxCalls,                \* mcp
  Files, Entries, BaseOf, ProjectTools, MaxAttached, MaxName, MaxSteps,  \* composer
  MaxProfiles, MaxProfileEdits,                                \* profiles
  ProjectNames, NoProjectId, MaxProjectIds, MaxProjects, MaxProjectEdits,  \* projects
  MaxTuningEdits, MaxTuningSaves,                              \* tuning
  Locales, Detected,                                           \* preferences
  Tabs, MaxApplies, MaxFlashes,                                \* frame
  LoadingNames, LongNames, Backends, PathBackend, MaxLoading, MaxLoadingIds,  \* loading
  Samplers, MaxChain, NoPlace, MaxChanges,                     \* chain
  MaxStoredThreads, MaxStoredMessages, MaxStoredText, MaxStoredImage, MaxStoredLength,  \* workspace
  StoredTexts, StoredImages, MaxWrittenThreads, MaxWrittenMessages, NoWorkspace,
  ToolFunctions, OtherName, ArgumentKeys, ValueTypes,          \* calls
  ContextSize, MinBudget, SystemReserve, AnswerReserve, MessageOverhead, ImageTokens,  \* context
  TextLengths, RequestedTokens, MaxQuestions

ASSUME ModelsAssumption == MaxScans \in Nat /\ MaxFolderEdits \in Nat
ASSUME DiscoverAssumption == MaxInspects \in Nat /\ MaxViews \in Nat
ASSUME BenchAssumption ==
  /\ IterNumbers \subseteq Int /\ NotANumber \notin Int
  /\ MaxIters \in Nat \ {0} /\ MaxHistory \in Nat /\ MaxBenches \in Nat
ASSUME McpAssumption == NoServer \notin ServerIds /\ NoTool \notin Tools /\ MaxCalls \in Nat
ASSUME ComposerAssumption ==
  /\ IsFiniteSet(Entries) /\ ProjectTools \subseteq Entries /\ "image" \notin Files
  /\ MaxAttached \in Nat /\ MaxName \in Nat \ {0} /\ MaxSteps \in Nat
  /\ \A e \in Entries : BaseOf[e] \in Seq(Nat) /\ Len(BaseOf[e]) <= MaxName
ASSUME TuningAssumption == MaxTuningEdits \in Nat /\ MaxTuningSaves \in Nat
ASSUME FrameAssumption ==
  /\ Tabs \in Seq(STRING) /\ {"chat", "tuning"} \subseteq {Tabs[i] : i \in DOMAIN Tabs}
  /\ MaxApplies \in Nat /\ MaxFlashes \in Nat

ASSUME ProfilesAssumption == MaxProfiles \in Nat /\ MaxProfileEdits \in Nat
ASSUME ProjectsAssumption ==
  /\ MaxProjectIds \in Nat \ {0} /\ NoProjectId \notin 1..MaxProjectIds
  /\ MaxProjects \in Nat \ {0} /\ MaxProjectEdits \in Nat
ASSUME LoadingAssumption == MaxLoading \in Nat \ {0} /\ MaxLoadingIds \in Nat
ASSUME PreferencesAssumption == Detected \in Locales
ASSUME ChainAssumption == MaxChain \in Nat /\ MaxChanges \in Nat

\* What localStorage may hold: texts and images are their lengths.
StoredMessages == [text : Nat, image : Nat]
StoredThreads == [id : Nat, readable : BOOLEAN, messages : Seq(StoredMessages)]
StoredWorkspaces == [active : Nat, threads : Seq(StoredThreads)]
ASSUME WorkspaceAssumption ==
  /\ MaxStoredThreads \in Nat \ {0} /\ MaxStoredMessages \in Nat \ {0}
  /\ MaxStoredText \in Nat /\ MaxStoredImage \in Nat /\ StoredTexts \subseteq Nat /\ StoredImages \subseteq Nat
  /\ MaxWrittenThreads \in Nat \ {0} /\ NoWorkspace \notin StoredWorkspaces

\* The values of the cfg that are sequences.
ThreeTabs == <<"chat", "models", "tuning">>
\* Four tools with one of two names, the letter a and "a_2"; a letter is its code, "_n" is n.
FourBases == [e1 |-> <<97>>, e2 |-> <<97>>, e3 |-> <<97, 2>>, e4 |-> <<97, 2>>]

VARIABLES part, panel

vars == <<part, panel>>

-----------------------------------------------------------------------------
Models == INSTANCE ModelsPanel WITH models <- panel, MaxEdits <- MaxFolderEdits

Discover == INSTANCE DiscoverPanel WITH discover <- panel

Bench == INSTANCE BenchPanel WITH bench <- panel, Numbers <- IterNumbers, MaxRuns <- MaxBenches

Mcp == INSTANCE McpPanel WITH
  mcp <- panel, Ids <- ServerIds, NoId <- NoServer, MaxRequests <- MaxCalls

Comp == INSTANCE Composer WITH composer <- panel, Paths <- Files

Prof == INSTANCE Profiles WITH
  profiles <- panel, MaxIds <- MaxProfiles, MaxVersions <- MaxProfileEdits

Proj == INSTANCE Projects WITH
  projects <- panel, Names <- ProjectNames, NoId <- NoProjectId, MaxIds <- MaxProjectIds,
  MaxVersions <- MaxProjectEdits

Tune == INSTANCE Tuning WITH
  tuning <- panel, MaxEdits <- MaxTuningEdits, MaxQueue <- MaxTuningSaves

Prefs == INSTANCE Preferences WITH settings <- panel

Window == INSTANCE Frame WITH frame <- panel, MaxRequests <- MaxApplies, MaxMessages <- MaxFlashes

Loading == INSTANCE LoadingProfiles WITH
  loading <- panel, Names <- LoadingNames, Path <- PathBackend, Limit <- MaxLoading, MaxIds <- MaxLoadingIds

Chain == INSTANCE SamplerChain WITH
  chain <- panel, Limit <- MaxChain, NoIndex <- NoPlace, MaxQueue <- MaxChanges

Workspace == INSTANCE SavedWorkspace WITH
  kept <- panel, THREADS_LIMIT <- MaxStoredThreads, MESSAGES_LIMIT <- MaxStoredMessages,
  TEXT_LIMIT <- MaxStoredText, IMAGE_LIMIT <- MaxStoredImage, RAW_LIMIT <- MaxStoredLength,
  Texts <- StoredTexts, Images <- StoredImages, MaxThreads <- MaxWrittenThreads,
  MaxMessages <- MaxWrittenMessages, Nothing <- NoWorkspace

-----------------------------------------------------------------------------
Streams == INSTANCE StreamParsing WITH
  stream <- panel, Dialects <- {"openai", "native", "anthropic"},
  Kinds <- {"text", "reasoning", "tool", "error", "bad", "comment", "stop"},
  MaxLines <- 3, MaxFrame <- 8, MaxResult <- 2

Calls == INSTANCE ToolCalls WITH
  call <- panel, Functions <- ToolFunctions, Unknown <- OtherName, Keys <- ArgumentKeys, Types <- ValueTypes

Shapes == INSTANCE EndpointShapes WITH
  shape <- panel, CallIds <- {1, 2}, Options <- {"model", "max_tokens"}, MaxMessages <- 2

Context == INSTANCE ContextWindow WITH
  window <- panel, Overhead <- MessageOverhead, Lengths <- TextLengths, MaxTokens <- RequestedTokens \cup {-1},
  MaxTurns <- MaxQuestions

\* config.rs keeps the window at 512 tokens or more, for which the limits of
\* chatUtils.ts and useChatSend.ts (256, 32, 64 and 4) leave this room.
ASSUME ContextAssumption ==
  /\ ContextSize \in Nat /\ MinBudget \in Nat /\ SystemReserve \in Nat /\ AnswerReserve \in Nat
  /\ MessageOverhead \in Nat /\ ImageTokens \in Nat /\ MaxQuestions \in Nat
  /\ TextLengths \subseteq Nat /\ RequestedTokens \subseteq Nat
  /\ Context!LimitsFit

Excerpts == INSTANCE Retrieval WITH
  retrieval <- panel, DocumentLengths <- {1, 4, 9, 14}, Scores <- {-1, 0, 1}, Size <- 2,
  Frame <- 1, Mark <- 1, MaxChars <- 12, MaxSearched <- 6, Limit <- 3

-----------------------------------------------------------------------------
Init ==
  \/ part = "models" /\ Models!Init
  \/ part = "discover" /\ Discover!Init
  \/ part = "bench" /\ Bench!Init
  \/ part = "mcp" /\ Mcp!Init
  \/ part = "composer" /\ Comp!Init
  \/ part = "profiles" /\ Prof!Init
  \/ part = "projects" /\ Proj!Init
  \/ part = "tuning" /\ Tune!Init
  \/ part = "preferences" /\ Prefs!Init
  \/ part = "frame" /\ Window!Init
  \/ part = "loading" /\ Loading!Init
  \/ part = "stream" /\ Streams!Init
  \/ part = "calls" /\ Calls!Init
  \/ part = "shapes" /\ Shapes!Init
  \/ part = "context" /\ Context!Init
  \/ part = "excerpts" /\ Excerpts!Init
  \/ part = "chain" /\ Chain!Init
  \/ part = "workspace" /\ Workspace!Init

Next ==
  /\ UNCHANGED part
  /\ \/ part = "models" /\ Models!Next
     \/ part = "discover" /\ Discover!Next
     \/ part = "bench" /\ Bench!Next
     \/ part = "mcp" /\ Mcp!Next
     \/ part = "composer" /\ Comp!Next
     \/ part = "profiles" /\ Prof!Next
     \/ part = "projects" /\ Proj!Next
     \/ part = "tuning" /\ Tune!Next
     \/ part = "preferences" /\ Prefs!Next
     \/ part = "frame" /\ Window!Next
     \/ part = "loading" /\ Loading!Next
     \/ part = "stream" /\ Streams!Next
     \/ part = "calls" /\ Calls!Next
     \/ part = "shapes" /\ Shapes!Next
     \/ part = "context" /\ Context!Next
     \/ part = "excerpts" /\ Excerpts!Next
     \/ part = "chain" /\ Chain!Next
     \/ part = "workspace" /\ Workspace!Next

Spec == Init /\ [][Next]_vars

-----------------------------------------------------------------------------
\* Every part stays in its domain, at every one of its steps.
TypeOK ==
  /\ part = "models" => Models!TypeOK
  /\ part = "discover" => Discover!TypeOK
  /\ part = "bench" => Bench!TypeOK
  /\ part = "mcp" => Mcp!TypeOK
  /\ part = "composer" => Comp!TypeOK
  /\ part = "profiles" => Prof!TypeOK
  /\ part = "projects" => Proj!TypeOK
  /\ part = "tuning" => Tune!TypeOK
  /\ part = "preferences" => Prefs!TypeOK
  /\ part = "frame" => Window!TypeOK
  /\ part = "loading" => Loading!TypeOK
  /\ part = "stream" => Streams!TypeOK
  /\ part = "calls" => Calls!TypeOK
  /\ part = "shapes" => Shapes!TypeOK
  /\ part = "context" => Context!TypeOK
  /\ part = "excerpts" => Excerpts!TypeOK
  /\ part = "chain" => Chain!TypeOK
  /\ part = "workspace" => Workspace!TypeOK

\* A late answer changes nothing it no longer belongs to: scans, inspections,
\* benchmark cancellations, listeners and timers that were overtaken do not end
\* what replaced them nor put another subject's result on the screen; only the
\* server's adapters, whose answers have no generation, are no more than not
\* left busy (Models.tsx, Discover.tsx, Bench.tsx, useFlashMessage.ts).
AnswersAreCurrent ==
  /\ part = "models" => Models!SpinsForTheNewest
  /\ part = "discover" => Discover!FilesOfSelected /\ Discover!NoListenerLeft
  /\ part = "bench" => Bench!PhaseFollowsRun /\ Bench!WithinLimits
  /\ part = "frame" => Window!FlashIsItsOwn

\* What the user edits belongs to what is selected, what he typed is on the
\* screen until it is saved, every list of projects and profiles agrees with its
\* storage unless the storage refused a list of projects, reordering samplers loses
\* none, and the conversations that are stored are those read back (Projects.tsx,
\* modelProfiles.ts, useRuntimesController.ts, useTuningController.ts, preferences.ts,
\* TuningSamplerChain.tsx, chatHistory.ts).
EditsAreKept ==
  /\ part = "projects" => Proj!DistinctProjects /\ Proj!EditorShowsSelected
  /\ part = "profiles" => Prof!SelectionIsStored
  /\ part = "loading" => Loading!ListIsKept
  /\ part = "tuning" => Tune!TypedIsKept
  /\ part = "preferences" => Prefs!CopiesAgree
  /\ part = "chain" => Chain!OneAtATime /\ Chain!ShowsConfig
  /\ part = "workspace" => Workspace!NoneDragsAnother /\ Workspace!ReadsBack

\* A tool runs once, unasked only where the user has approved exactly that tool
\* of that server by hand, under a name that tells it from every other, with
\* the arguments the model wrote (Mcp.tsx, useChatMcpTools.ts, chatSendHelpers.ts).
ToolsAreApproved ==
  /\ part = "mcp" => Mcp!AutoApprovedByHand /\ Mcp!OneToolCall
  /\ part = "composer" => Comp!NamesTellToolsApart
  /\ part = "calls" => Calls!OfferedAsWritten

\* What a request carries fits its budget, and with a limit of the answer that the user
\* set the model's window, with the newest question and whole tool exchanges in it
\* (chatUtils.ts, useChatSend.ts).
RequestsFit == part = "context" => Context!FitsTheWindow /\ Context!ToolPairsWhole

\* Nothing of an answer depends on how the transport cuts it, a conversation says
\* the same in each endpoint's own shape, and every passage that was found by vectors
\* and is cited is whole in the context of its question, as it is before the
\* conversation is cut to its budget (sse.ts, endpointAdapters.ts, chatUtils.ts).
NothingIsLost ==
  /\ part = "excerpts" => Excerpts!CitedIsGiven /\ Excerpts!CutsAreMarked
  /\ part = "stream" => Streams!CutsDoNotMatter
  /\ part = "shapes" => Shapes!ConversationKept /\ Shapes!AnswersAgree

\* What took long belongs to a state that may be over when it ends: a scan's
\* answer never replaces that of a newer scan, the rollback of a failed restart is
\* queued only when nothing was published since the restart began and then undoes
\* nothing that was queued behind it, and no documents of a project come up while a
\* message is on its way (Models.tsx, tuningAsync.ts, Chat.tsx).
StepsAreCurrent ==
  [][/\ part = "models" => Models!NeverOlder
     /\ part = "tuning" => Tune!RollbackIsCurrent
     /\ part = "composer" => Comp!NothingBoundWhileSending]_vars
=============================================================================
