SPECIFICATION AcqSpec
CONSTANTS
    Prns <- MCPrns
    ChipShifts <- MCChipShifts
    OutOfBoundsReads <- MCOutOfBoundsReads
    AcqConfs <- MCAcqConfs
    SynchroPrns <- MCSynchroPrns
    NoSynchro = NoSynchro
INVARIANTS
    AcceptedPrnHasDelay
