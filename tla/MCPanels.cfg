SPECIFICATION Spec
CONSTANTS
  NotANumber = NotANumber
  Dirs = {"d1", "d2"}
  NoDir = "none"
  MaxScans = 3
  MaxFolderEdits = 3
  Repos = {"r1", "r2"}
  NoRepo = "none"
  MaxInspects = 3
  MaxViews = 3
  IterNumbers = {0, 2, 3}
  MaxIters = 2
  MaxHistory = 2
  MaxBenches = 4
  ServerIds = {"a", "b"}
  NoServer = "none"
  Tools = {"t", "u"}
  NoTool = "none"
  MaxCalls = 4
  Files = {"p", "q"}
  Entries = {"e1", "e2", "e3", "e4"}
  BaseOf <- FourBases
  ProjectTools = {"e1", "e2"}
  MaxAttached = 2
  MaxName = 2
  MaxSteps = 3
  MaxProfiles = 3
  MaxProfileEdits = 1
  ProjectNames = {"x", "y"}
  NoProjectId = 0
  MaxProjectIds = 3
  MaxProjects = 2
  MaxProjectEdits = 1
  MaxTuningEdits = 2
  MaxTuningSaves = 3
  Locales = {"en", "ko"}
  Detected = "en"
  Tabs <- ThreeTabs
  MaxApplies = 2
  MaxFlashes = 2
  ToolFunctions = {"f", "g"}
  OtherName = "x"
  ArgumentKeys = {"path"}
  ValueTypes = {"string", "integer", "fraction", "null"}
  LoadingNames = {"a", "b", "long"}
  LongNames = {"long"}
  Backends = {"cpu"}
  PathBackend = ""
  MaxLoading = 2
  MaxLoadingIds = 3
  Samplers = {"dry", "top_k", "xtc"}
  MaxChain = 3
  NoPlace = 0
  MaxChanges = 1
  MaxStoredThreads = 2
  MaxStoredMessages = 2
  MaxStoredText = 2
  MaxStoredImage = 1
  MaxStoredLength = 8
  StoredTexts = {1, 4}
  StoredImages = {0, 1, 3}
  MaxWrittenThreads = 3
  MaxWrittenMessages = 3
  NoWorkspace = NoWorkspace
  ContextSize = 16
  MinBudget = 8
  SystemReserve = 4
  AnswerReserve = 2
  MessageOverhead = 1
  ImageTokens = 3
  TextLengths = {1, 9}
  RequestedTokens = {3, 20}
  MaxQuestions = 3
INVARIANTS
  TypeOK
  AnswersAreCurrent
  EditsAreKept
  ToolsAreApproved
  RequestsFit
  NothingIsLost
PROPERTY
  StepsAreCurrent
CHECK_DEADLOCK FALSE
