SPECIFICATION FairSpec
CONSTANTS
  Clicks = {c1, c2}
  NoClick = NoClick
  Receivers = {r1, r2}
INVARIANTS
  OneCapture
  AnswerFitsOffer
  MirroredToTarget
PROPERTIES
  HandlersEnd
