SPECIFICATION Spec
CONSTANT Codes <- AllCodes
CHECK_DEADLOCK FALSE
INVARIANTS
    HeardAsMeant
    NothingInvented
    HintIsEarned
    EveryArgumentArrives
    DryRunFits
    ValueIsPromised
