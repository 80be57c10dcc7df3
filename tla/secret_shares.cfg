SPECIFICATION FairSpec
CONSTANTS
  once = once
  timed = timed
  variable = variable
  Share = {once, timed}
  OneTime = {once}
  Resource = {variable}
  ResourceOf <- MCResourceOf
  Recipient = {r1, r2}
  Reveal = {v1, v2}
  NoShare = NoShare
  Lifetime = 2
  CodeLifetime = 1
  MaxActive = 1
  MaxRecalls = 1
  AnswersLost = FALSE
INVARIANTS ShownOncePerOpening ActiveIsReadable BurnedForAReason
PROPERTIES SharesEnd KeepsLink
CHECK_DEADLOCK FALSE
