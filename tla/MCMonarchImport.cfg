SPECIFICATION LiveSpec
CONSTANTS
    Job = {"first", "second"}
    Accounts <- MCAccounts
    Chunks <- MCChunks
    Evidence <- MCEvidence
    NoEvidence = NoEvidence
    Chosen = {"cash"}
    ReplaceOpening = {"cash"}
    NoSourceId = NoSourceId
    Absent = Absent
    BatchRows = 2
    MaxStops = 1
    MaxEdits = 1
INVARIANTS
    EachOccurrenceCountedOnce
    CountersMatchEvidence
    NoRowLost
    VerifiedBalances
PROPERTIES
    ImportsComeToRest
