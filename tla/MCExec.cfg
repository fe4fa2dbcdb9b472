CONSTANTS
    t1 = t1
    t2 = t2
    Traders = {t1}
    TicksSet <- MCTicks
    LotsSet <- MCLots
    MinLotsSet <- MCMinLots
    Refs = {}
    NoRef = NoRef
    MaxOrders = 3
    MaxRev = 2
SPECIFICATION Spec
INVARIANT TypeOK
 
INVARIANT JournalAgrees
INVARIANT PosnAgreesWithJournal
 
PROPERTY JournalRevisionMonotone
