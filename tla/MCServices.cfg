SPECIFICATION ServicesSpec
CONSTANTS
  FactNames = {"f"}
  MaxEvents = 3
  MaxOpens = 2
  MaxFaults = 1
  StoreClients = {"s1", "s2"}
  CheckpointKeys = {"k1", "k2"}
  MaxSaves = 3
  MemoryKeys = {"m1", "m2"}
  TTLs = {0, 1, 99}
  NoTTL = 99
  MaxRecords = 2
  MaxMemoryTime = 3
  Profiles <- MCProfiles
  StepPermissions <- MCPermissions
  Steps <- MCSteps
  MaxPolicyTime = 2
  InsidePaths = {"a"}
  OutsidePaths = {"o"}
  Contents = {"", "x", "crlf", "raw"}
  EmptyText = ""
  Undecodable = {"raw"}
  Translated <- MCTranslated
  MaxToolCalls = 2
  MaxEdits = 1
  SecretHandles = {"h1", "h2"}
  Scopes = {"r1", "r2"}
  SecretLifetimes = {1, 99}
  VaultClients = {"v1", "v2"}
  NoExpiry = 99
  MaxVaultTime = 2
  AuthThreads = {"t1", "t2"}
  RefreshSkew = 1
  TokenLifetime = 4
  FallbackLifetime = 3
  MaxAuthTime = 6
  GhContents = {"a", "b"}
  NewContent = "n"
  NoFile = ""
  MaxGhCalls = 2
  MaxMeddling = 2
  Settings = {"data_dir", "inbox_dir"}
  ServerWorkers = {"w1", "w2"}
  MaxSmokeRuns = 2
  MaxCommits = 2
  MaxStrangers = 2
  BulkTasks = {1}
  VictimTask = 3
  KeyTasks = {4, 5}
  QsWorkers = {"q1", "q2"}
  ShortLease = 1
  LongLease = 2
  OutsideLeases = {1, 2}
  MaxQsTime = 1
  IdlePolls = 2
  MaxOutside = 1
  MaxHeads = 2
  QsNull = QsNull
  WriteLimit = 2
  Minute = 3
  ApiKeys = {"old", "new"}
  WrongKeys = {""}
  MaxGateTime = 6
  MaxWrites = 6
CHECK_DEADLOCK FALSE
INVARIANTS
  AuditVerdict
  DerivedViewsAgree
  ReadsWhatWasSaved
  RecallsTheLiving
  PolicyIsMonotone
  GrantsAreBounded
  WorkspaceConfines
  SecretsAreLive
  TokensAreLive
  GitHubReportsAreTrue
  WritesHitTheirTarget
  WorkersAgree
  EvidenceIsEarned
  WritesAreThrottled
