CONSTANTS
  p1 = p1
  p2 = p2
  p3 = p3
  g1 = g1
  g2 = g2
  g3 = g3
  name1 = name1
  name2 = name2
  Nobody = Nobody
  Params = {p1, p2, p3}
  Groups = {g1, g2, g3}
  Names = {name1, name2}
  NameOf <- MCNameOf
  Makings <- MCMakings
  Numbers <- MCNumbers
  Ranges <- MCRanges
  Steps = {0, 2}
  MaxOptions = 2
  MaxCalls = 3
SPECIFICATION MCSpec
INVARIANTS
  LookupsExact
  ValuesLegal
  HeardIsCurrent
  ResetReaches
