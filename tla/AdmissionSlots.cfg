CONSTANTS
    c1 = c1  c2 = c2  i1 = i1  i2 = i2  i3 = i3  p1 = p1  p2 = p2  v1 = v1  v2 = v2
    Coordinators = {c1, c2}
    Intents = {i1, i2}
    Pairs = {p1, p2}
    PairOf <- MCPairOf
    Versions = {v1}
    HalalPairs <- MCHalalPairs
    Nominal <- MCNominal
    MaxRev = 0
    MaxSlots = 1
    Allocation = 5
    NoIntent = NoIntent
SYMMETRY CoordinatorSymmetry
SPECIFICATION Spec
INVARIANT SlotsWithinLimit
