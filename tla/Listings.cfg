SPECIFICATION ListingsSpec
CONSTANTS
  MaxName = 4
  NameLen <- MCNameLen
  Dirs <- MCDirs
  ReaddirSizes <- MCReaddirSizes
  ReaddirPlusSizes <- MCReaddirPlusSizes
  MaxChanges = 3
  AttrLen <- MCAttrLen
  MaxAttrChanges = 3
INVARIANTS ReplyIsSegment ListedOnce AnswerIsComplete
PROPERTIES ListingEnds CallerGetsList
