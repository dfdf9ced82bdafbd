CONSTANTS
  Size = 5
  MaxGenerated = 6
  Chars = {"-", "p", "q", "x", "y"}
  Dash = "-"
  Arguments <- Shapes
  MaxArgc = 4
  Defaults <- PortDefault
  Space = "sp"
  Return = "cr"
  NewLine = "nl"
  Letters = {"G", "E", "a", "b", "H", "x", "y", "z"}
  Requests <- SomeRequests
  Streams <- ShortStreams
  ReadSize = 20
  UnsignedMax = 2
  MaxCalls = 6
  Paths = {"same", "other"}
  Places = {"top", "under root", "outside"}
  Rooted <- MCRooted
  Bare <- MCBare
  Kinds = {"none", "directory", "file", "socket", "fifo"}
  Names = {"a", "b"}
  MaxChanges = 2
  MaxLength = 4
  MaxNeeded = 3
  Dates <- MCDates
  Words <- MCWords
  Threads = {w1, w2}
  Fields = {hour, minute}
  MaxInstant = 3
  Inheritances = {{0, 1, 2}, {1, 2}, {}}
  MaxOpen = 8
  FdSetSize = 7
SPECIFICATION Spec
INVARIANTS
  NoAliasBeforeWrap
  FailsOnlyWhenFull
  UnpairedInOrder
  LastValueWins
  PathAsAsked
  HeadersShifted
  PartsSeparated
  PageNested
  LengthIsOfPage
  PageTellsStatus
  AnswerWasTrue
  ListsTheFolder
  BlocksAreFile
  ReadsWhatIsWritten
  OneWordOneField
  FieldsOfThisTime
  ReadyAndNoOther
  DescriptorsHaveSockets
PROPERTIES
  LiveKept
  HeadersAdvance
