SPECIFICATION PartsSpec
CONSTANTS
  Requests <- MCRequests
  Units = {"POST", "nl", "h", "a", "b", "c", "d", "e", "x", "0", "1", "2", "10"}
  Sizes <- MCSizes
  ZeroAtEnd = {"0", "10"}
  MaxHeader = 4
  MaxBody = 3
  Names = {"send", "__config__"}
  Letters = {"to", "link", "x", "absent", "TOKEN", ".", "[0]"}
  Keys <- MCKeys
  Schemas <- MCSchemas
  Depth <- MCDepth
  MaxDepth = 2
  Tools <- MCTools
  EmailNames <- MCEmailNames
  UrlNames <- MCUrlNames
  ConfigNames <- MCConfigNames
  EmailConfig <- MCEmailConfig
  StreamConfig <- MCStreamConfig
  Places <- MCPlaces
  Above <- MCAbove
  Dirs = {"/", "/usr", "/Users", "package", "work"}
  Root = "/"
  Workdir = "work"
  ReadPaths <- MCReadPaths
  SystemDirs = {"/usr"}
  Devices = {"null", "tty"}
  NullDevice = "null"
  UserTrees <- MCUserTrees
  Config = {"API_KEY", "HTTPS_PROXY", "GITHUB_TOKEN"}
  Forbidden = {"GITHUB_TOKEN"}
INVARIANT BodyIsWhatWasSent
INVARIANT BodyIsABeginning
INVARIANT WholeRequestSuffices
INVARIANT TokensNameArguments
INVARIANT EchoesAreAttributed
 
INVARIANT RunningCanWork
INVARIANT NothingIsRejected
CHECK_DEADLOCK FALSE
