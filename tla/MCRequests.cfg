SPECIFICATION FairSpec
CONSTANTS
  p = p
  q = q
  s = s
  d = d
  e = e
  a = a
  x = x
  Texts <- MCTexts
  Shape <- MCShape
  Dirs = {d, e}
  file_name <- MCFileName
  None = None
  SUPPORTED_SCHEMA_VERSIONS = {1}
  PROJECT_NAME_MAX_LEN = 2
  DESCRIPTION_MAX_LEN = 2
  SECRET_NAME_MAX_LEN = 2
  CACHE_TTL_MAX = 2
  CACHE_MAX_ENTRIES_MAX = 2
  Defaults <- MCDefaults
  Names = {p, q}
  AdminStem = q
  Raws <- MCRaws
  Contents <- MCContents
  Deployed <- MCDeployed
  Edited = {d}
  Conns = {a, x}
  Script <- MCScript
  MAX_MESSAGE_BYTES = 3
  MaxLines <- MCMaxLines
  Cuts <- MCCuts
  MaxProjects = 2
  MaxEdits = 1
INVARIANTS
  TypeOK
  AnsweredInOrder
  RegisteredIsValid
PROPERTIES
  ImplementsService
  Answered
CHECK_DEADLOCK FALSE
