SPECIFICATION FairSpec
CONSTANTS
  Top = 3
  Wrap = 2
  StartPositions = {0, 3}
  MaxTurn = 1
  MaxFrames = 3
INVARIANT RadioInv
PROPERTY VolumeEnds
