SPECIFICATION Spec
CONSTANTS
  NumSectors = 3
  SectorSize = 4
  Sizes = {2, 3, 4}
  MaxWrites = 7
  Torn = FALSE
INVARIANT ReadsAllAlways
