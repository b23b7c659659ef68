SPECIFICATION MCSpec
CONSTANT Modulus = 4
INVARIANTS Inv MutualExclusion NoLostUpdate
PROPERTIES NoSecondBypass LockRefinement
