SPECIFICATION Spec
CONSTANTS
    Job = {"first", "second"}
    Accounts <- MCAccounts
    Chunks <- MCChunks
    Evidence <- MCEvidence
    NoEvidence = NoEvidence
    Chosen = {"cash"}
    ReplaceOpening = {"cash"}
    NoSourceId = NoSourceId
    Absent = Absent
    BatchRows = 2
    MaxStops = 0
    MaxEdits = 0
INVARIANTS
    AttentionHasAReview
