SPECIFICATION HogSpec
CONSTANTS
  Hosts = {h1, h2}
  None = None
  MaxPaired = 1
  CccMax = 1
  kbd = kbd
  main = main
  Notifiers = {kbd, main}
  Pairings <- PasskeyOnly
  Written = {1}
  Blackouts = FALSE
  key1 = 1
  key2 = 2
  KbdReports <- BothParts
  PrintKey = 3
  Chars = 1
  TxBufs = 2
  Unhurried = TRUE
INVARIANTS
  HogTypeOK
  Undisturbed
  NothingSticks
  NoReportForAnotherHost
PROPERTIES
  CallsReturn
