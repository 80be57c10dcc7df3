SPECIFICATION FairSpec
CONSTANTS
  s1 = s1
  s2 = s2
  p = p
  q = q
  Subscription = {s1, s2}
  Product = {p, q}
  Seeded = {p}
  Event = {1, 2, 3, 4}
  NoEvent = NoEvent
  Stories <- MCStories
  Bought <- MCBought
  Default = Default
  Action = {a1}
  GracePeriod = 1
  Cooldown = 2
  AnswersLost = FALSE
INVARIANTS NobodyStaysPaid ActivationGrantsTier
PROPERTIES GraceHonoured EventsSettle PaidTierEnds
CHECK_DEADLOCK FALSE
