CONSTANTS
    c1 = c1
    c2 = c2
    c3 = c3
    c4 = c4
    Clients <- MCClients
    Limits <- MCLimits
SPECIFICATION FairSpec
INVARIANTS TypeOK SlotAccounting WorkConserving
PROPERTIES GrantsWithinLimit FirstComeFirstServed WaitersProceed
