SPECIFICATION NavTimeSpec
INVARIANT EphTypeOK
INVARIANT CheckTWrapsIntoHalfWeek
INVARIANT UtcParamsAsTransmitted
PROPERTY UtcDaytimeAdvances
