SPECIFICATION Spec
CONSTANTS
  a = a
  b = b
  Ids = {a, b}
  Outlines <- TwoSlides
  Runs = {r1, r2}
  Others = {x, y}
  NoSVG = NoSVG
  QueueCap = 1
INVARIANTS TypeOK CacheFollowsStore SucceededShows ChargedAsReserved
PROPERTIES OthersKept
SYMMETRY Goroutines
CONSTRAINT ThreeWriters
CHECK_DEADLOCK FALSE
