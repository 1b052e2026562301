CONSTANTS
  Ids = {w1, n1, n2, n3, n4}
  Weak = {w1}
  Keys = {plain, k1}
  Plain = plain
  None = None
  Torn = Torn
SPECIFICATION Spec
INVARIANTS TypeOK RegisteredIsSaved
PROPERTIES SoundIdentityKept ImplementsCell
