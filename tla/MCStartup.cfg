SPECIFICATION FairSpec
CONSTANTS
  None = None  NoLine = NoLine  word = word  other = other  path = path
  Lines = {word, other}
  DEFAULT_CONFIG <- MCDefault
  CacheTtlMax = 3
  CacheMaxEntriesMax = 2
  Hosts <- MCHosts
  Clis <- MCClis
  ConfigFiles <- MCConfigFiles
  TokenFiles <- MCTokenFiles
  EnvVars <- MCEnvVars
  EditedConfigs <- MCEditedConfigs
  EditedTokens <- MCEditedTokens
  Responses <- MCResponses
  IMDS_BASE_URL <- MCBaseUrl
  IMDS_TIMEOUT = 1
  MaxStarts = 2
  MaxEdits = 1
  MaxFaults = 1
  Rotators = {a, b}
  Followed = a
  a = a  b = b
  MaxRotations = 2
INVARIANTS TypeOK ReadyMeansReady ImdsInOrder FetchBounded
PROPERTIES ConfigInForce SessionKept StartsAndRotationsEnd CleanRestart
CHECK_DEADLOCK FALSE
