CONSTANTS
  Rows = {1}
  From = 2
  To = 5
  PageSize = 2
  MaxPages = 3
  Limit = 4
  MaxChanges = 0
  Nothing = Nothing
  Asked <- MCAsked
  MaxSeen = 2
  NoVerdict = NoVerdict
  Morning = 3
  Afternoon = 1
  Closing = 2
  Requests <- MCRequests
  Weekend = {1}
  Truths <- MCTruths
  MaxMissing = 1
  Unknown = Unknown
  Manifests <- MCManifests
  AsOf = 8
  NoValuation = NoValuation
  Worlds <- MCWorlds
  Failed = Failed
  NoItem = NoItem
  NoEstimate = NoEstimate
  Comparisons <- MCComparisons
  NotCompared = NotCompared
  Records <- MCRecords
  FirstRows <- MCFirstRows
  SecondRows <- MCSecondRows
  Unanswered = Unanswered
  NotStored = NotStored
  NoSeries = NoSeries
  OpeningTicks = {1}
  MorningTicks = {3, 4, 5}
  MiddayTicks = {6, 7}
  AfternoonTicks = {8, 9, 10}
  ClosingTicks = {11}
  Tapes <- MCTapes
  QuoteShapes <- MCQuoteShapes
  FreshFor = 1
  MaxAsking = 1
  SourceFailed = SourceFailed
  NotAsked = NotAsked
  NoSnapshot = NoSnapshot
  Exchanges = {"SSE", "SZSE", "BSE"}
  Years <- MCYears
  Registrations <- MCRegistrations
  RestDays = {2}
  FinalDay = 3
  MaxFetching = 1
  NoContext = NoContext
  NoSession = NoSession
  Publics <- MCPublics
  ReportShapes <- MCShapes
  Cutoffs = {2, 4}
  NotDated = NotDated
  NoTotal = NoTotal
  NotFolded = NotFolded
  EtfWorlds <- MCEtfWorlds
  EtfRequests <- MCEtfRequests
  StartInstants = {5, 6, 8, 9, 13}
  MaxMoves = 2
  MaxFaults = 1
  NothingRead = NothingRead
  NotViewed = NotViewed
  Registers <- MCRegisters
  UniverseAsked <- MCUniverseAsked
  MaxFlaws = 1
  NotStated = NotStated
  UniverseRefused = UniverseRefused
  Programs <- MCPrograms
  LastHour = 3
  KeepFor = 1
  SkewAllowed = 1
  NoHour = NoHour
  NoVersion = NoVersion
  NoReason = NoReason
  NotAudited = NotAudited
  Raised = Raised
  Parts = {"compare"}
INIT SumInit
NEXT SumNext
CHECK_DEADLOCK FALSE
INVARIANT EveryRowIsKept
