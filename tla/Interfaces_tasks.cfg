SPECIFICATION AllSpec
CONSTANTS
  m = m   p = p   q = q   u = u   one = one   two = two
  Mine <- OneMine
  Other <- Foreign
  Parts <- PartsOf
  Nibble <- NibbleOf
  Channel <- Two
  Ring = 1
  Patience = 1
  Stored = one
  MaxAsks = 2
PROPERTIES HearsOrSleeps 
CHECK_DEADLOCK FALSE
