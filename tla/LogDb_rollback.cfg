SPECIFICATION Spec
CONSTANTS
  NumSectors = 3
  SectorSize = 5
  Sizes = {2, 4}
  MaxWrites = 5
  Torn = TRUE
PROPERTY MountFindsNewest
