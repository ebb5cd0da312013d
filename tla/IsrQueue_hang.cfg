SPECIFICATION FairSpec

CONSTANTS
  N = 3
  Values = {a}
  a = a
  Zero = zero
  MaxLen = 3
  Overwrite = FALSE
  Mode = "isr_producer"

PROPERTY PushReturns
