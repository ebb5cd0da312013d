SPECIFICATION DrainingSpec

CONSTANTS
  N = 3
  Values = {a, b}
  a = a
  b = b
  Zero = zero
  MaxLen = 4
  Overwrite = FALSE
  Mode = "threads"

INVARIANT TypeOK
INVARIANT NoSlotRace
INVARIANT CountIsKept
INVARIANT ReadIsOldest
PROPERTY ImplementsFifo
PROPERTY PushReturns
PROPERTY PopReturns
