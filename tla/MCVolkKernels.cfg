SPECIFICATION VolkSpec
CONSTANTS
    PhaseUnits = 500
    CodeLengthChips = 2046
    NumOutVectors = 3
    PhaseSteps <- MCPhaseSteps
    RemPhases <- MCRemPhases
    SampleCounts <- MCSampleCounts
    ConvertCounts <- MCConvertCounts
    PuppetStep = 50
    PuppetRem <- MCPuppetRem
    PuppetCounts <- MCPuppetCounts
INVARIANTS
    VolkTypeOK
    IndexInBounds
    NeonVectorMatchesGeneric
    ConvertMatchesGeneric
    Sse2VectorMatchesGenericOffChipEdges
    TailMatchesGenericForPositivePhase
    PuppetMatchesGeneric
