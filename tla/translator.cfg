SPECIFICATION FairSpec
CONSTANTS
  NSlots = 3
  ScanTable <- ps2_scan_code_to_usb_hid_key
  ExtTable <- ps2_extended_code_to_hid_key
  PastTable <- MCPastTable
  ModifierCodes <- ModCodes
  ExtModifiers <- ExtModKeys
  SysRqKey <- KEY_SYSRQ
  PauseKey <- KEY_PAUSE
  Codes <- MCCodes
INVARIANTS
  TranslatorTypeOK
  NoKeyTwice
  HostIsUpToDate
  PauseIsMomentary
  EveryKeyHasABreak
  BitTricksAreExact
  KeymapIsConsistent
  AsciiNamesItsKey
PROPERTIES
  ParserReturns
