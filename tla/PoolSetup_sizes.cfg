\* Every count up to half the index range; indices wrap after 16 pushes.
SPECIFICATION Spec
CONSTANTS
  IndexBits = 4
  Counts = {1, 2, 3, 4, 5, 6, 7, 8}
  MaxHeld = 1
INVARIANTS RingSizeIsLeastPower TestsSurviveWrap OneBlockUnused PowerOfTwoCountInitialisesAll
