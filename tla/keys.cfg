SPECIFICATION FairSpec
CONSTANTS
  NSlots = 2
  QueueSize = 1
  KeyNames = {"A", "NumLeft", "PrtSc", "Pause", "LShift"}
  MaxLosses = 1
  Make <- MCMake
  Break <- MCBreak
  Repeat <- MCRepeat
  Usage <- MCUsage
  Mask <- MCMask
  Codes <- MCCodes
  ScanTable <- ps2_scan_code_to_usb_hid_key
  ExtTable <- ps2_extended_code_to_hid_key
  PastTable <- MCPastTable
  ModifierCodes <- ModCodes
  ExtModifiers <- ExtModKeys
  SysRqKey <- KEY_SYSRQ
  PauseKey <- KEY_PAUSE
INVARIANTS
  NoPhantomKeys
  HeldKeysAreReported
  ModifiersAreMasks
  RetypingClears
PROPERTIES
  ReleaseIsReported
