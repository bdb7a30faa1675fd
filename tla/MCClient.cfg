SPECIFICATION Spec
CONSTANTS
  X = {x1, x2}
  Y = {y1, y2}
  None = None
  Cap = 1
  MaxLive = 1
  Page = 2
  PostsPage = 1
  MaxVersion = 1
  DataDays = 3
  MediaDays = 2
  MaxQueue = 1
  MaxMessages = 3
  MaxSends = 1
  MaxPresses = 2
  MaxPosts = 4
  MaxPairs = 3
  Limit = 2
  MaxTexts = 3
  MaxNew = 3
SYMMETRY Symmetric
CONSTRAINTS
  Unraced
  OneDownload
INVARIANTS
  TypeOK
  ShownIsRight
  Accounted
  OnePairUnlessTripped
  NoneTwiceNoneMissing
  NothingLeftBehind
  GridIsTheAlbum
  ListIsAPrefix
  MarkIsTrue
  ThreadIsTrue
CHECK_DEADLOCK FALSE
