SPECIFICATION Spec
CONSTANTS
  a = a
  A = A
  b = b
  k1 = k1
  k2 = k2
  k3 = k3
  k4 = k4
  k5 = k5
  k6 = k6
  k7 = k7
  p1 = p1
  p2 = p2
  Null = Null
  Gone = Gone
  None = None
  Ids <- Numbers
  Names = {a, A, b}
  Codes = {k1, k2, k3, k4, k5, k6, k7}
  Canonical <- Formats
  Procs = {p1, p2}
  Offers <- AllOffers
  InitialRows <- Tables0
  InitialLineup <- Lineup0
  MaxKeys = 9
  MaxFilters = 2
  Limit = 2
INVARIANTS
  TypeOK
  ReferencesHold
  StoreMatchesFiles
  PicturesBounded
  OneOrderPerAddress
  UsedMeansOrdered
  RangesAgree
  WalkExact
PROPERTIES
  RowsComeBackOnlyByOverlap
  ArtistsLeaveOnlyByOverlap
  CodesLapseOnlyByChange
  FilterNarrows
