SPECIFICATION PortalSpec
CONSTANTS
  Active <- MCHandlers
  MaxValue = 2
  Choices <- MCChoices
  TruncatesAtOpen = FALSE
  OpenMayFail = FALSE
  MaxChanges = 1
INVARIANTS
  
  JoinsChosen
PROPERTIES
  SetupEnds
  ChoiceApplied
