SPECIFICATION Spec
CONSTANTS
  None = None
  Blank = Blank
  Malformed = {"9 LIVES"}
  HeroCatalogue <- MCHeroes
  MapCatalogue <- MCMaps
  Aliases <- MCAliases
  HeroIds = {1, 2, 3, 4}
  HeroPool = {1, 2, 3}
  MapPool = {1}
  Pages <- MCPages
  Drafts <- MCDrafts
  Healths <- MCHealths
  Sheets <- MCSheets
  Strays = {9}
  OddSheets <- MCOddSheets
  Weights <- MCWeights
  MaxEdits = 2
INVARIANTS
  TypeOK
  FormsAreAccepted
  AcceptedIsStorable
  ReadsBackAsSaved
  CorrectionIsFaithful
  DraftIsPricedOnce
  GamesBalance
CHECK_DEADLOCK FALSE
