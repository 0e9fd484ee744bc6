CONSTANTS
  Keys <- MCKeys
  Class <- MCClass
  Hash <- MCHash
  HashRange = 8
  MinCapacity = 2
  ValuesOf <- MCValuesOf
  Callers = {c1, c2}
  None = None
  Kinds = {"Dictionary", "Set", "IdentityDictionary", "IdentitySet"}
  MaxWrites <- MCMaxWrites
  MaxLies <- MCMaxLies
SPECIFICATION MCSpec
INVARIANTS InstalledExact ClassesExact TableSound
PROPERTIES ChangesWhole ImplementsMap
SYMMETRY CallerSymmetry
CHECK_DEADLOCK FALSE
