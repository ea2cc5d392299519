SPECIFICATION Spec
CONSTANTS
  Env <- MCEnv
  Home <- MCHome
  Mappings <- MCMappings
  Utf16 <- MCUtf16
  Alphabet <- MCAlphabet
  Texts <- MCTexts
  Exts <- MCExts
  Placements <- MCPlacements
  MaxLen <- MCMaxLen
  Half = 2
  HiMax = 15
  LoWord = 8
  Unit = 2
  PerSecond = 2
  SecondsPerMinute = 3
  ShortSeconds = 4
CHECK_DEADLOCK FALSE
INVARIANTS
  PathCatCleans
  WildcardsMatch
  OrganizeKeepsAnswer
  ReferencesExpand
  CommandLineRoundTrips
  OptionsUnderstood
  FormatsAsAsked
  DurationsExactOrInfinite
  DatesFollowTheCalendar
  VersionsReadBack
  ZipReadsBack
  TextsAreKept
  SplitsAndReplaces
  ImageReadsBack
  NumbersReadBack
  WideNumbersExact
