CONSTANTS
    t1 = t1
    t2 = t2
    Traders <- MCTraders
    TicksSet <- MCTicks
    LotsSet <- MCLots
    MinLotsSet <- MCMinLots
    Refs = {r1}
    NoRef = NoRef
    MaxOrders = 2
    MaxRev = 3
SYMMETRY Symmetry
SPECIFICATION Spec
INVARIANT TypeOK
 
INVARIANT JournalAgrees
INVARIANT PosnAgreesWithJournal
 
PROPERTY JournalRevisionMonotone
