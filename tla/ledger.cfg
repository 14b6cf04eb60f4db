SPECIFICATION Spec
CONSTANTS
    Nothing = Nothing
    l1 = l1
    l2 = l2
    w1 = w1
    w2 = w2
    alice = alice
    bob = bob
    Lanes = {l1, l2}
    Workers = {w1, w2}
    Facts <- ClosingFacts
    Times = {1, 3}
    Sources = {"provider"}
    Window = 2
    EntryLimit = 1
    MaxEvents = 3
INVARIANTS
    TypeOK
    ActivityNotLost
    ProjectionIsFold
PROPERTY
    TombstoneIsFinal
SYMMETRY Interchangeable
