SPECIFICATION MCSpec
CONSTANTS
    NrZones = 1
    ZoneLbas = 7
    SecsPerPg = 1
    PgsPerOneshot = 2
    WriteUnit = 1
    ZoneWb = 0
    GlobalWb = 3
    Zrwa = 4
    Zrwafg = 2
    ZrwaBuf = 6
    MaxNr = 3
    MaxPending = 2
    MaxGain = 0
    SQs = {q1}
    AllSends = {"reset"}
INVARIANTS
    OpenActiveExact
    ZoneShape
    ZonesBalance
PROPERTY ZoneLifecycle
CHECK_DEADLOCK FALSE
