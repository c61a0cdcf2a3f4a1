SPECIFICATION Spec
CONSTANTS
  x1 = x1
  x2 = x2
  Pair = {x1, x2}
  One = One
  Two = Two
  Three = Three
  Four = Four
  Five = Five
  None = None
  Torn = Torn
  Pids = {x1, x2}
  Ringers = {One}
  Host = One
  Interval = 3
  MaxPending = 2
  Tiles = {1}
  Cooldowns = {0, 2}
  MaxPresses = 1
  Quota = 2
  Window = 2
  Burst = 2
  Rate = 1
  Look = 3
  Pollers = {Two}
  Outsiders = {Three}
  Attempts = 2
  MaxVersion = 1
  MaxPast = 1
  MaxProbes = 4
  Sessions = {One, Two}
  FormLinks = {Three}
  MaxPastes = 1
  MaxReports = 2
  MinGap = 2
  MaxTexts = 2
  Macs = {One, Two}
  Tablets = {x1, x2}
  MaxRequests = 1
  FileIds = {Three, Four}
  Size = 2
  MaxTotal = 3
  MaxClips = 2
  Repos = {One, Two}
  Public = {One}
  Branches = {Three, Four}
  Default = Three
  RepoPaths = {Five}
  MaxOpens = 2
  Processes = {x1, x2}
  MaxStarts = 3
  Nothing = Nothing
  Broken = Broken
  SessionIds = {One, Two}
  Folders = {Three, Four}
  MaxTalks = 3
  Travellers = {One}
  Coords = {Two, Three}
  Zones = {Four}
  Typed = {Five}
  MaxPlaces = 2
  Rooms = {Four, Five}
  NoteFiles = {One}
  MaxLines = 3
  MaxWrites = 3
  Statics = {One, Two, Three}
  Excluded = {Two}
  Odd = {Three}
  MaxEditions = 2
  MaxCuts = 2
  MaxChange = 1
  UploadNames = {One}
  MaxUploads = 2
  Values = {One, Two}
  MaxRuns = 3
  Vocabulary = {One, Two}
  MaxWords = 3
  MaxEdits = 1
  MaxSelections = 2
  Decks = {x1, x2}
  MaxSaves = 2
  Vaults = {Three, Four}
  Readers = {One}
  WikiNotes = {Two}
  MaxRevisions = 2
  Callers = {x1, x2}
  ArchiveDecks = {}
  DeckSizes <- NoSizes
  MaxZip = 1
  MaxBuilds = 2
  Participants = {x1, x2}
  TypedNames = {One, Two}
  FictionNames = {Two}
  Guest = Three
  Trainer = Four
  MaxNameCalls = 1
  IndexFiles = {One}
  ChunkCounts <- Lengths
  MaxChanges = 3
  MaxStops = 1
  ShownDecks = {One, Two}
  Catalogued = {One}
  Drafts = {Two}
  MaxPage = 1
  Passages = {Three}
  MaxEvents = 1
  MaxMoments = 2
SYMMETRY Symmetry
INVARIANTS TypeOK FilesAreWhole ServedIsCurrent LimitsHold ViewsAgree
CHECK_DEADLOCK FALSE
