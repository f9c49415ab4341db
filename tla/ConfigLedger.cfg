SPECIFICATION ConfigSpec
CONSTANTS
  Active <- MCHandlers
  MaxValue = 1
  Choices <- MCChoices
  TruncatesAtOpen = FALSE
  OpenMayFail = TRUE
INVARIANTS
  ConfigTypeOK
  StoredWhenQuiet
  StoredWhenAnswered
  PrefsAgree
PROPERTIES
  MileageGrows
  ImplementsLedger
