SPECIFICATION Spec
CONSTANTS
    Nothing = Nothing
    l1 = l1
    l2 = l2
    w1 = w1
    w2 = w2
    alice = alice
    bob = bob
    Lanes = {l1}
    Workers = {w1}
    Facts = {}
    Times = {1, 2, 3}
    Sources = {"provider"}
    Window = 2
    EntryLimit = 2
    MaxEvents = 4
INVARIANT
    MemoryIsTheQuery
