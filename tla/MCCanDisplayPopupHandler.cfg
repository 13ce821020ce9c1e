SPECIFICATION FairSpec
CONSTANTS
  left = left
  right = right
  Doors <- MCDoors
  Popups = {"belt", "espOff"}
  MaxQueued = 2
INVARIANTS
  PopupInv
  DisplayShowsCurrent
PROPERTY DisplaySettles
