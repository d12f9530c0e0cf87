\* Pages: listings of up to five rows in pages of two, with up to two changes between
\* the pages; the bound on pages cuts the longest listings.
\* Tasks: one request per shape of a task, batches of up to two rows.
\* Replay: a day of three morning minutes, one in the afternoon and two of the close.
\* Bundle: up to five of sixteen reports, in versions; a price beside another item.
\* Auto, compare: one thing wrong with a security, or any closes, reports or forecasts;
\* of two securities each with one thing wrong, or three of which one is in order.
\* Series: three sessions, the last one perhaps open; rows left out or wrong.
\* Snapshot: a clock of twelve ticks over five phases, one tick of waiting.
\* Context: four days of five moments, a fetch of up to one moment, one new release.
\* Foundation: one defect per report, a correction, a cutoff before or after it.
\* Etf: two listed months, up to two moves of the clock and one failing part.
\* Universe: up to two shares of an exchange around the screen date, one flaw.
\* Audit: two versions and two contracts, four hours, records kept for one.
CONSTANTS
  Rows = {1, 2, 3, 4, 5}
  From = 2
  To = 5
  PageSize = 2
  MaxPages = 2
  Limit = 4
  MaxChanges = 2
  Nothing = Nothing
  Asked <- MCAsked
  MaxSeen = 2
  NoVerdict = NoVerdict
  Morning = 3
  Afternoon = 1
  Closing = 2
  Requests <- MCRequests
  Weekend = {1}
  Truths <- MCTruths
  MaxMissing = 2
  Unknown = Unknown
  Manifests <- MCManifests
  AsOf = 8
  NoValuation = NoValuation
  Worlds <- MCWorlds
  Failed = Failed
  NoItem = NoItem
  NoEstimate = NoEstimate
  Comparisons <- MCComparisons
  NotCompared = NotCompared
  Records <- MCRecords
  FirstRows <- MCFirstRows
  SecondRows <- MCSecondRows
  Unanswered = Unanswered
  NotStored = NotStored
  NoSeries = NoSeries
  OpeningTicks = {1}
  MorningTicks = {3, 4, 5}
  MiddayTicks = {6, 7}
  AfternoonTicks = {8, 9, 10}
  ClosingTicks = {11}
  Tapes <- MCTapes
  QuoteShapes <- MCQuoteShapes
  FreshFor = 1
  MaxAsking = 1
  SourceFailed = SourceFailed
  NotAsked = NotAsked
  NoSnapshot = NoSnapshot
  Exchanges = {"SSE", "SZSE", "BSE"}
  Years <- MCYears
  Registrations <- MCRegistrations
  RestDays = {2}
  FinalDay = 3
  MaxFetching = 1
  NoContext = NoContext
  NoSession = NoSession
  Publics <- MCPublics
  ReportShapes <- MCShapes
  Cutoffs = {2, 4}
  NotDated = NotDated
  NoTotal = NoTotal
  NotFolded = NotFolded
  EtfWorlds <- MCEtfWorlds
  EtfRequests <- MCEtfRequests
  StartInstants = {5, 6, 8, 9, 13}
  MaxMoves = 2
  MaxFaults = 1
  NothingRead = NothingRead
  NotViewed = NotViewed
  Registers <- MCRegisters
  UniverseAsked <- MCUniverseAsked
  MaxFlaws = 1
  NotStated = NotStated
  UniverseRefused = UniverseRefused
  Programs <- MCPrograms
  LastHour = 3
  KeepFor = 1
  SkewAllowed = 1
  NoHour = NoHour
  NoVersion = NoVersion
  NoReason = NoReason
  NotAudited = NotAudited
  Raised = Raised
  Parts = {"pages", "tasks", "replay", "bundle", "auto", "series", "snapshot", "context", "foundation", "etf", "universe", "compare", "audit"}
INIT SumInit
NEXT SumNext
CHECK_DEADLOCK FALSE
INVARIANTS
  CompleteMissesNothing
  EmptyIsProved DisagreementIsShown
  CompleteIsTrue
  OperandsAreInForce
  OneTruthfulSourceIsEnough SelectedFourQuarters ComparedRowsAreTheirs AuditsHoldUp
  SeriesIsTheRecord SnapshotWasTrue ScreeningLooksBackOnly TotalIsTheWholeMarket
  OptionViewIsTrue FullUniverseIsProved
