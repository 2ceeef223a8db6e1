SPECIFICATION Spec
CONSTANTS
    NCalls = 4
    Keys <- MCKeys
    Ops <- MCOps
    OpOf <- MCOpOf
    KeyOf <- MCKeyOf
    Budgeted <- MCBudgeted
    Cap <- MCCap
    HeadroomNum = 3
    HeadroomDen = 2
    Floor <- MCFloor
    Costs <- MCCosts
    Replaced <- MCReplaced
    PriorSpend <- MCPrior
    MaxRestarts = 1
INVARIANTS
    TypeOK
    LedgerWithinCap
    ReservationsConserved
    GateSeesLedger
    NoCentTwice
CHECK_DEADLOCK FALSE
