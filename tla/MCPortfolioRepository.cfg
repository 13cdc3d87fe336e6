SPECIFICATION JournalSpec
CONSTANTS
    first = first
    resend = resend
    second = second
    third = third
    reuse = reuse
    c0 = c0
    c1 = c1
    c2 = c2
    c3 = c3
    w1 = w1
    w2 = w2
    Absent = Absent
    Idle = Idle
    Id = {c0, c1, c2, c3}
    Hash = {"h", "x"}
    Stamp = {0, 1}
    Request <- MCRequest
    IdOf <- MCIdOf
    HashOf <- MCHashOf
    StampOf <- MCStampOf
    InitialHead <- MCInitialHead
    MaxAttempts = 2
INVARIANTS
    CommandsAppliedOnce
    HeadContentDurable
    AnswersAreCommitted
    BusyMeansOvertaken
PROPERTIES
    ImplementsLedger
    RoutesImplementLedger
SYMMETRY Alike
