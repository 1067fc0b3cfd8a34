\* Half = 4 = Capacity is the largest window the proofs allow.
CONSTANTS
    Modulus = 8
    Capacity = 4
    a = a
    b = b
    Values = {a, b}
SPECIFICATION Spec
INVARIANTS TypeOK NothingStale AvailableMeansOldestGone
PROPERTY ImplementsWindowMap
