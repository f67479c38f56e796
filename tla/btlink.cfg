SPECIFICATION LinkSpec
CONSTANTS
  Hosts = {h1, h2, h3}
  None = None
  MaxPaired = 2
  CccMax = 1
  Notifiers = {n1, n2}
  Pairings <- AnyPairing
  Written = {0, 1, 2}
  Blackouts = TRUE
INVARIANTS
  GateMatchesSubscription
  SubscriptionSurvives
PROPERTIES
  OpensWhenSecure
  BecomesConnectable
