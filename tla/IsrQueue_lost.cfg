SPECIFICATION Spec

CONSTANTS
  N = 3
  Values = {a}
  a = a
  Zero = zero
  MaxLen = 1
  Overwrite = TRUE
  Mode = "isr_producer"

PROPERTY PopTakesOneAtMost
