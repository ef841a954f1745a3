SPECIFICATION Spec
CONSTANTS
  NoValue = NoValue
  Threads = {t1, t2, t3}
  NoThread = NoThread
  MaxWrites = 2
  MaxSaves = 2
  MaxOpens = 2
  MaxFaults = 1
  Paths = {p, q}
  Models = {m}
  Texts = {1, 2}
  Offsets = {1, 2}
  MAX_RECORDS = 1
  MaxSearched = 3
  MaxQueue = 2
  MaxClock = 2
  Backends = {"cpu", "rocm"}
  Builds = {1}
  PR_BUILD_BACKENDS = {"cpu"}
  MaxJobs = 3
  MaxVisits = 1
  Contents = {"first", "second"}
  Size = 2
  Slack = 1
  MaxDownloads = 2
  MaxOutside = 2
  Commands = {c1, c2}
  Servers = {1, 2}
  NoCommand = NoCommand
  NoFile = NoFile
  MaxDefinition = 2
  MaxCommands = 4
  MaxFailures = 2
  Requests = {r1, r2, r3}
  NoRequest = NoRequest
  MAX_RESPONSES = 1
  MaxStarts = 2
  UserSwitches = {"--webui", "--temp"}
  TypedKeys = {"model", "temperature", "tools", "mirostat_lr", "mirostat_eta", "chat_template_kwargs",
               "reasoning_effort"}
  TypedSizes = {0, 1, 2, 4, 9}
  MaxSize = 4
  NotANumber = NotANumber
  BatchSizes = {1, 1024, 2048, 131072}
  TypedDistances <- FourDistances
  SelectLists <- ThreeLists
  SearchedTexts <- SomeTexts
SYMMETRY Alike
INVARIANTS
  TypeOK
  ConversationsKept
  IndexIsTrue
  RuntimesAreShown
  FilesAreWhole
  ControlsAgree
PROPERTY
  ProbeIsCurrent
CHECK_DEADLOCK FALSE
