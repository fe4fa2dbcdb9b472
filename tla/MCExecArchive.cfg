CONSTANTS
    t1 = t1
    t2 = t2
    Traders = {t1}
    TicksSet <- MCTicks
    LotsSet <- MCLots
    MinLotsSet <- MCMinLots
    Refs = {}
    NoRef = NoRef
    MaxOrders = 2
    MaxRev = 3
SPECIFICATION Spec
INVARIANT BookOrdersLive
