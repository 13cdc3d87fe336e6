SPECIFICATION BothSpec
CONSTANTS
    Entry = {e1, e2, e3}
    Imported = {m1}
    History <- MCHistory
    BankMoney <- MCBankMoney
    MemberMoney <- MCMemberMoney
    Score <- MCScore
    Reviewed = {e1, e2}
    FirstMoney <- MCFirstMoney
    FirstCursor = 2
    Absent = Absent
    PageSize = 1
    PendingLimit = 1
    MaxFeed = 3
    MaxStops = 1
    MaxEdits = 1
    MaxMutations = 1
INVARIANTS
    MoneyMatchesBroker
    PositionsMatchBroker
    ClosedLotsBalance
    OneEntryPerTransaction
    LedgerFollowsBank
PROPERTIES
    MemberEditsKept
    SyncCatchesUp
CHECK_DEADLOCK FALSE
