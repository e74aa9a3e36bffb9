SPECIFICATION WebSpec
CONSTANTS
  Routes = {"grants", "notes", "agent", "providers", "dialogs", "new agent", "images",
            "prompt", "job", "home", "code"}
  Grants = {a, b}
  MaxGrantOps = 3
  a = a
  b = b
  NoteKeys = {"k", "l"}
  MaxBodies = 2
  MaxNoteOps = 2
  SessionIds = {"s"}
  MaxAgentJobs = 2
  MaxAgentOps = 2
  ProviderNames = {"p", "q"}
  MaxProviderOps = 2
  EnvKeys = {"k"}
  Bins = {"x", "y"}
  MaxDialogOps = 4
  AgentNames = {"n", "m"}
  BinRefs = {"t"}
  GoodKeys = {"K"}
  ReservedKeys = {"PATH"}
  MaxNewOps = 4
  ImageNames = {"a", "b"}
  MaxTag = 1
  MaxDigest = 2
  Executors = {"system", "docker"}
  MaxImageOps = 2
  MaxPromptOps = 4
  MaxBytes = 2
  MaxFailures = 1
  ListedJobs = 3
  StripSize = 1
  RecentSize = 1
  MaxHomeOps = 4
  CodeBlocks = {1, 2}
  CodeKeys = {1, 2}
  CodeBodies = {1, 2}
  MaxCodeOps = 3
CHECK_DEADLOCK FALSE
INVARIANTS WebTypeOK OutputIntact ObserversSeeTheEnd OnlyToggledChanges NothingForeign DialogsKeepFaith ReviewIsWhole CountsAddUp NoGhosts PromptHolds
PROPERTIES OutputGrows VisibleSoon ObserversLearnTheEnd PagesCatchUp ProvidersStandAlone DraftGoesWithAPrompt
