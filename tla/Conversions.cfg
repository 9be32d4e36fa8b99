SPECIFICATION ConversionsSpec
CONSTANTS
  PageSizes <- MCPageSizes
  Minors <- MCMinors
  Offers <- MCOffers
  Names <- MCNames
  MaxForgets = 3
  MaxData = 3
  I64Half = 8
  U32Max = 7
  Nano = 5
  Values <- MCValues
  Clock <- MCClock
  Timeouts <- MCTimeouts
  MaxFlags = 3
  MaxSetattrs = 2
INVARIANTS ReplyIsRight AgreementIsKept BodiesUnderstood CompleteForgetsCount
PROPERTIES OthersUntouched
